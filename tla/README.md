# A verification of DaVinci-Resolve-Agent

TLA+ models of the parts of DaVinci-Resolve-Agent that carry its promises: what an agent
asks of a running DaVinci Resolve happens at most once, is never reported better than it
was, and leaves a trace on disk that later processes can trust. TLC checks the models on
small instances; TLAPS proves the main results for any number of clients, keys,
projects, commands, servers, timelines and runs. Paths below are relative to the repository
(`src/`).

## 1. Inventory

### The system

An MCP server or a command line runs on the host; the program that can change a project
is a script *inside* Resolve. The two never share memory or a socket. They exchange
files, and there are two such routes:

* **The marker mailbox** (Resolve Free). A Lua loop in Resolve polls one slot,
  `inbox/`, and answers by exporting project archives named after the request.
* **The filesystem queue** (`ResolveBridge.py`). A Python loop in Resolve, or the
  SDK worker in its place, claims `commands/<id>.json` and writes
  `responses/<id>.json`.

| Component | State | Operations | Hard parts |
|---|---|---|---|
| Marker client: `providers/resolve/lua_transport.py`, `lua_editing.py`, `marker_transport.py` | `client.lock`, `receipts/<key>.json`, `inbox/`, `stopped.json` | `request()`: lock, reconcile a receipt, prepare, begin, publish, wait, settle, clear, unlock | several processes, crash at any point, timeout against late answer, failed clear, retry with the same key |
| Lua bridge: `bridges/resolve/ResolveLuaBridge.lua`, `ResolveLuaEditing.lua`, `ResolveLuaFinishing.lua`, `ResolveLuaMarkerReader.lua` | handled ids, started jobs, the current request; archives on disk | poll, check, back up, check again, mutate, verify, export | the user switches projects in between, Resolve dies, an export fails, a render blocks the export |
| Queue client: `agent/client.py`, `agent/audit.py`, `transports/filesystem.py` | audit records, `commands/`, `responses/` | audit, publish, wait | timeout, crash, retry with a new id |
| Python bridge: `bridges/resolve/ResolveBridge.py` | `commands/`, `processing/`, `failed/`, `responses/`, `state/receipts`, `state/render-starts`, `backups/` | claim, validate, replay, back up, mutate, reserve and start a render, write the receipt, answer | every step may fail, the loop may die and be restarted, commands expire in the queue |
| SDK worker: `providers/resolve/sdk_worker.py`, `sdk_command_client.py`, `bridges/resolve/ResolveSDKCommand.py` | write routes, operation ledger, native guard slot | claim, route, dispatch an external process, reconcile | a subprocess that outlives its worker, restart in any phase |
| SDK channel: `providers/resolve/preset_channel.py`, `bridges/resolve/ResolveLuaSDK.lua` | RPC slot, completed calls | exchange, recover an expired read, perform, export | repeated polling, expired packets |
| Lease: `marker_transport.publish_lease`, `MarkerLeaseKeeper`, `ResolveLuaMarkerReader.poll_lease` | `lease/`, `lease-publish.lock` | rotate, renew, poll | torn read, publisher dies |
| Supervisor, automatic connection: `marker_supervisor.py`, `automatic_connection.py` | `active.json`, the journal of earlier generations, `operation.lock`, `connection.lock` | observe, rotate, dispatch the menu entry, launch, open the last project | old and new generation at once, an intent that changes after it was read |
| Key ownership: `mcp_server/managed_marker.py` | `write-owners/<key>.json` | claim | same key in two generations, a static client without records |
| Project services: `project_open_service.py`, `project_create_service.py`, `project_close_state.py`, `project_close_recovery.py` | `project-open-receipts/`, `project-create-receipts/`, `sdk-write-owners/`, `project-close.json` | open, create, close, retry, recover | outcome unknown, retry of what already happened, death between two records |
| Workflows: `agent/*.py` | one receipt file per reviewed plan | preview, apply, resume | a long sequence of writes broken in the middle, two servers on one receipt |
| Editorial chain, talk: `audio_analysis.py`, `rough_cut.py`, `synchronized_pair.py`, `pause_compaction*.py` | plan, approval, receipts of pairs, layouts, links, compaction | detect pauses, propose and approve cuts, assemble, compact, finalize | three frame rates, sums over many cuts, an edited plan, relinked footage |
| Editorial chain, takes: `take_*.py` | selections, reviews, sequences, bindings, import and application receipts, quality reports | select, review, compose, bind, map, import, apply, inspect, render | ten stages that trust hashes of documents but not the files and the project behind them |
| Dressing: `broll.py`, `animation_workflow.py`, `color_workflow.py` | one receipt per stage, each on a duplicate of the timeline before | preview, apply, duplicate, insert or grade, read back | reviewed on one timeline and carried out on another, a batch that fails halfway, a preview that looks at places and not at what they show |
| Delivery: `finalized_*.py`, `audio_workflow.py`, `subtitles.py`, `baseline_edit.py` | extraction, integration, subtitle, preparation, execution and run receipts; managed files | extract and clean the sound, integrate it, caption, inspect, prepare, render, report | two timelines under one file name, inspection now and render later, interrupted calls |

`PROJECT.json` lists these and the remaining parts (UI drivers, configuration,
installer) with what is and is not modelled, and every hazard at its line. What makes a
component correct:

* mailbox and queue: a write runs at most once per command; a settled outcome is
  true and final; an unknown outcome is kept as unknown; calls return;
* worker and channel: a route that did not complete blocks other writes, also
  across crashes; nothing is called uncertain that was never sent;
* lease: the loop only ever adopts a deadline that was published; a live keeper
  keeps it alive;
* supervisor and key ownership: no key is used in two generations; a rotation
  never forgets an uncertain write;
* services and workflows: a retry never repeats a step whose success is on record;
* editorial chain: what is on a timeline was approved, no word is lost, picture and sound
  stay together, no plan asks for a frame that is not there;
* delivery: the film that is reported complete is a render of what was inspected, with
  the voice of that timeline;
* dressing: B-roll, animation and color treatment that are reported applied are the
  reviewed ones, each item once, and the treatment is on the whole film.

### Plan

| Order | Module | Contents | State |
|---|---|---|---|
| 1 | `OnceWrites`, `MarkerMailbox`, `MarkerMailboxInvariant`, `MarkerMailbox_proofs` | the abstract contract, the mailbox, its inductive invariant, the proofs | done |
| 2 | `BridgeQueue`, `BridgeQueue_proofs` | client, audit and Python bridge loop; inductive invariant and proofs | done |
| 3 | `SDKWorker`, `SDKWorker_proofs` | worker, write routes, ledger, guard; the SDK slot and its Lua loop; external processes; all properties proved | done |
| 4 | `MarkerLease`, `MarkerLease_proofs` | lease rotation against the polling loop, `ExitBridge` of `MarkerMailbox` and `LoopEnds` of `ManagedHost` made precise; all properties proved | done |
| 5 | `ManagedHost` | generations, rotation, watcher, ownership of keys | done, as part of 6 |
| 6 | `ProjectLifecycle`, `ProjectLifecycle_proofs` | open, automatic connection, create, close with recovery, over `ManagedHost`; all properties proved | done |
| 7 | `TimelineWorkflows`, `TimelineWorkflows_proofs` | the workflows of the agent over a bridge that keeps receipts; all safety properties proved | done |
| 8 | `BridgeActions`, `BridgeActions_proofs` | the write actions of the Python bridge, call by call; all properties proved | done |
| 9 | `FrameArithmetic`, `RoughCut`, `TakeSequence` | the editorial chain, from samples and takes to placements | done; all properties proved, with 10 and 11 |
| 10 | `Delivery`, `Editorial`, `Editorial_proofs` | sound, subtitles and film of a finalized timeline; the desks together, and the proofs about them | done |
| 11 | `Dressing` | B-roll, animation and color treatment, each on a duplicate | done |

How they fit together: `ManagedHost` uses a mailbox command as one step with the outcomes
`MarkerMailbox` shows a receipt can have; `TimelineWorkflows` uses a bridge command as one step
with the outcomes of `BridgeQueue`, the change without a receipt of its finding included;
`ProjectLifecycle` extends `ManagedHost`; `Editorial` extends `RoughCut`, `TakeSequence`,
`Delivery` and `Dressing`, whose changes to a project are workflows of `TimelineWorkflows`;
`BridgeActions` opens up the one step `Mutate` that an action is in `BridgeQueue`.

Every invariant that a passing run checks is a theorem of section 5. What stays with TLC
is liveness.

## 2. Modules

### `MarkerMailbox`

One session of the marker transport: any number of client processes in
`LuaSnapshotClient.request` and one Lua loop. The files are variables and survive a
crash (`client_lock`, `receipts`, `inbox`, `exports`, `backups`, `stopped`, `consumed`);
the locals of a call (`pc`, `request`, `command_id`, `acknowledged`) and of the loop
(`phase`, `packet`, `project`, `reply`, `handled`, `started`) do not.

| Actions | Code |
|---|---|
| `Enter`, `Acquire` | refusal of a stopped session, creation of `client.lock` |
| `Resume`, `Replay`, `Refuse` | a saved receipt: wait for the original command, return the recorded result, or refuse |
| `Prepare`, `RefuseDestination`, `Begin` | recover the slot of a finished read, insist on a free one, `WriteReceipt.begin` |
| `Publish`, `NotPublished` | rename of the staged slot, or the `except` clause that settles the receipt as rejected |
| `SeeError`, `SeeResponse`, `Timeout` | the wait: known rejections, unknown errors, the verified response, the deadline |
| `Close`, `Unlock` | the two nested `finally` blocks |
| `Crash`, `RemoveStaleLock` | a client dies; the operator removes its lock as documented |
| `StartBridge`, `Poll`, `AnswerRead`, `ExitBridge` | the generated start script and the loop |
| `RefuseWrite`, `BackUp`, `Recheck`, `Edit`, `Verify` | preflight, backup, second check, API call, post-check |
| `AcceptRender`, `StartRendering`, `Quit` | writes that are acknowledged before they take effect |
| `Reply` | export of the *current* project as the answer |
| `SwitchProject`, `Expire`, `ResolveCrash` | the user, the clock, the death of Resolve |

Abstractions. A deadline may pass at any time, which covers every skew between the
host's monotonic clock and `os.time()` in Resolve. Error codes are two classes, those
the client lists as known preflight failures and all others. The post-checks of the edits
repeat listings of the preflight, and four codes can therefore come from either side of the
change: `TIMELINE_TOO_LARGE` and `POOL_TOO_LARGE` when the listing has become too long,
`AMBIGUOUS_TIMELINE` and `AMBIGUOUS_ASSET` when the new name or path is there twice. A
project is its identity and what those checks see: the length of its listing (`items`), and
the keys whose new name or path has a second bearer (`twins`). The editing actions share
one skeleton and so one `Edit`; its API call may fail with or without an effect, and which
of them repeats which listing is left open. `applied` counts, per key, the API calls that
changed Resolve; no action reads it.

### `OnceWrites`

The contract a caller relies on, per key: begun once, at most one unsettled, an outcome
that never changes, one effect at most, and none after a refusal that was given without
one. A write that had its effect and is refused all the same is `misreported`: the contract
names that outcome, because the mailbox has it. The refinement mapping reads the receipts
(`Outcome`) and `applied`.

### `BridgeQueue`

`FilesystemCommandClient.request` and the loop of `ResolveBridge.py`. Directories are
sets of command ids, `response`, `receipts` and `reserved` are the files the code writes
with an atomic rename. A command id is one call; a retry is another id with the same
key. A job is named by the command that prepared it.

| Actions | Code |
|---|---|
| `Submit`, `Enqueue` | audit record first, then the command file |
| `ReceiveResponse`, `Raise`, `ClientCrash` | the wait and its endings |
| `StartBridge`, `Claim` | start from Resolve's menu, rename to `processing/` |
| `RefuseCommand`, `AnswerRead`, `Replay` | validation and preflight, reads and `stop_bridge`, a stored receipt |
| `BackUp`, `SkipBackUp`, `Mutate` | project backup, or none for a creation that finds no project or the empty "Untitled Project"; the action and its readback |
| `ReserveRenderStart`, `StartRendering` | the record in `state/render-starts`, then the render |
| `WriteReceipt`, `RefreshState`, `Respond`, `Finish` | what follows a verified change, each with its own failure |
| `RespondError`, `MoveToFailed` | the exception handler |
| `BridgeCrash`, `Expire` | the death of the loop, a deadline that passes in the queue |

Left out: `reload_modules`, the handler that closes projects (`SendClose` of
`ProjectLifecycle`), and the transitions of an audit record after the first, which the
code suppresses when they fail. A crash between the rename of a processed file and the
next iteration is covered by `BridgeCrash`.

### `BridgeActions`

What `_execute_write_command` of `ResolveBridge.py` does between its checks and the
receipt. A table gives each of 22 actions its preflight (`...Needs`), the sequence of
calls it makes in Resolve's scripting interface and of its readbacks, and the extent of
its `try`/`finally`. A place (timeline, Media Pool, render queue) is a bag of parts:
items that were added, or the value of a property.

| Actions | Code |
|---|---|
| `Send`, `Check`, `Refuse`, `BackUp` | arguments, the handler's checks on the live project, `_backup_project` |
| `SelectTimeline`, `Reselect`, `Cue`, `Cued`, `Uncue`, `Open`, `Close` | the view: current timeline, playhead (read back before an animation is inserted), Deliver page, each with what puts it back |
| `Add`, `Set`, `Version`, `Count`, `Track`, `Make`, `Settings` | the calls that change something. Each may be refused, fail after it took effect, or claim what did not happen |
| `ReadBack`, `Policy` | what is looked at afterwards, and the check of a prepared render job |
| `UserMoves` | the user selects another timeline, edits the target or moves the playhead during the action |

Abstractions. A failed action leaves no receipt, so that the same request may be `Send`
again, and it meets what the failed attempt left behind, a copy that came out under another
name (`renamed`) included. Two flags of history say why a view was not put back: `stuck`,
the call that restores it failed; `exposed`, the error came before the `try` block. The
second happens where the very call that moves the view takes effect and raises
(`ResolveBridge.py:4900-4905`, `:5003-5008`, `:5700-5705`), or `GetCurrentTimecode` raises
at `:5009`. `SetCurrentTimeline` is taken
to do what it returns. The user adds items and deletes none. A render names its
timeline; without one the code takes the current one and has nothing to get wrong. All
refusals that depend on no earlier call are `Refuse`. A batch has two elements, in either
order, and its calls are written out for both (`SetEach`, `GradeEach`).
`start_render_job` is in `BridgeQueue`, the closing of projects in `ProjectLifecycle`.

### `SDKWorker`

The SDK worker (`sdk_worker.py`) with its two transports. On the host, one process takes
commands in order; `pc`, `current`, `via` and `step` are its locals. A command runs
either in the worker, call by call through the slot `sdk-rpc/inbox` that
`ResolveLuaSDK.lua` polls (`slot`, `last`, `reply`, `scope`, `backup_ready`), or in a
process of its own (`external`, one per command) that the worker waits for and that
survives it. Files survive every crash: the queue, `routes` (`sdk-write-owners/`),
`ledger` (`sdk-operations/`), `guard` (the native `inbox/`) and the slot.

| Actions | Code |
|---|---|
| `Enqueue`, `StartWorker`, `Pick` | `SDKWorker.run` |
| `Admit`, `Refuse` | no claimed file, no open route, the guard of a completed route is cleared; or an exception |
| `Replay`, `PrepareRoute`, `PublishGuard`, `SettleUndispatched` | the route of the key, then the guard, or a terminal rejection |
| `Dispatch`, `DispatchRead` | the route says `dispatch_started`, then the transport is used |
| `OpenLedger`, `ClaimCommand`, `Answer`, `LeaveProcessing`, `Conclude` | `SDKCommandClient._await_response` around `process_command_file` |
| `PublishCall`, `CallFails`, `ReceiveReply`, `HandleFailure`, `HandlerRefuses` | `PresetSDKChannel.exchange` and what the handler makes of its result |
| `ExternalExits`, `DispatchFails`, `SettleRoute`, `ClearGuard`, `Raise` | the end of `process`, its `except` clause |
| `ReportFailure`, `MoveToFailed` | the `except` clause of `run`, `_error` |
| `ExternalUnbound`, `ExternalClaim`, `ExternalBackup`, `ExternalSkipBackup`, `ExternalMutate`, `ExternalAnswer`, `ExternalLeave`, `ExternalExit`, `ExternalDies` | `ResolveSDKCommand.py` |
| `Perform`, `ExportReply`, `Expire` | the Lua loop and the packet's deadline |
| `WorkerCrash`, `NativeCrash`, `NewGeneration` | deaths, and the supervisor's audited rotation |

Abstractions. The many calls of a command become one of each step: values, backup,
change, restoration after a failed change, readback; a packet is not split. `Creations`
are the commands that ask for a new project: they alone may go without a backup, if the
Lua loop (`ResolveLuaSDK.lua:282-284`, `:348-350`) or the external process finds no project
but the empty placeholder (`bare`). A rename
that fails because a rival took the file, and every `OSError` the code lets escape, are
steps to the handlers that catch them. `NewGeneration` states the part of
`_audit_rotation` that concerns routes, guard and slot. `connection.ensure` is reduced
to "a loop is there". Left out: `close_project` with its recovery (in
`ProjectLifecycle`), `stop_bridge`, the ledger's own replay (not reachable from the
worker, whose route decides first) and optional state refreshes.

### `MarkerLease`

The lease that keeps the Lua loop alive. Several keepers (`MarkerLeaseKeeper`, one per
MCP server) rotate the directory `lease/` under `lease-publish.lock`; the loop
(`ResolveLuaMarkerReader.lua`) can only ask whether a file exists, so that it reads the
packet piece by piece while the directory may be renamed under it.

| Actions | Code |
|---|---|
| `StartKeeper`, `Wake`, `StopKeeper` | `__enter__`, the wait of `_run`, `__exit__` |
| `TakeLock`, `Retire`, `Place`, `Finish`, `Fail`, `Crash` | `publish_lease` from `open("x")` to its `finally` clauses, and the death of a server in it |
| `Poll`, `ReadFirst`, `CheckReady`, `ReadSecond`, `Adopt` | `is_alive`, `poll_lease`: two passes, checksum, distance of the stamp |
| `Decide`, `Serve` | `now < deadline`; `read_request`, which renews once per request |
| `Publish`, `Clear`, `Tick` | the inbox and the clock |

Abstractions. Time is discrete, and a keeper or the loop is late by `Slack` or `Stall` at
most. `TimingAssumption` says how late that is: an iteration of the loop takes less than
half an interval, so that the first poll that begins after a rotation is over before the
next one, and an interval with two publications fits into a lease. The code renews every
third of a lease, or every 30 seconds if that is sooner, an iteration without a request
waits a quarter of a second, and a publication is two renames of small directories. A
request that keeps the loop busy for more than half an interval is outside the model. The
eight bytes of a packet, each of eight files, become two cells: the low digit, and the high
digit with the Adler pair. That is the least that can be torn, and the checksum is computed
as the reader computes it, over digits to a small base.

### `ManagedHost` and `ProjectLifecycle`

What the processes of managed mode do on one machine. `ManagedHost` has the shared state
and who may change it outside a service: Resolve and its user (`UserStarts`,
`UserOpens`, `UserCloses`, `ResolveExits`, `LoopEnds`), the watcher of
`marker_supervisor.py` (`Watch`, `WatchNew`, `WatchDispatch`, `WatchMenu`), and native
writes with the claim of their keys (`Claim`, `Send`, `StaticSend`, `Settle`).
`ProjectLifecycle` adds the services:

| Actions | Code |
|---|---|
| `BeginOpen` to `GiveUp` | `ProjectOpenService.open_existing` with its two sections under `operation.lock`, the UI dispatch between them, `_wait`, the confirmed retry of a refusal and the recovery after an exit of Resolve |
| `AutoBegin`, `AutoLook`, `AutoRotate`, `AutoTarget`, `AutoNext` | `AutomaticConnection.ensure` and `_open`, which makes linked attempts under keys of its own |
| `BeginCreate` to `ReleaseCreate` | `ProjectCreateService.create` and its replays in every phase |
| `EnsureForClose` to `FinishClose`, `ReplayClose` | the managed close: guard and route, durable intent, `CloseProject`, the end of the cleanup |
| `ArchiveClose`, `RecoverArchived`, `CommitRecovery` | `recover_acknowledged_close`: the proof is archived first, and a recovery that died behind it commits without a fresh readback |

Records on disk survive a crash, and so do the advisory locks' releases: closing a
handle frees the lock. An inspection of the host and the record written because of it
are one step while `operation.lock` is held; a dispatch through the UI is always a step
of its own. An inspection that is not under the lock is a step, and its result is used
in a later one (`See`), because that is what the code does. One worker carries out one
command at a time, because it holds `sdk-worker.lock` (`WorkerIdle`). Waits have deadlines,
so a waiting call may leave at any step. The variable `working` picks, for one behaviour,
which actors are at work. The four records of `_commit` in `project_close_recovery.py` are
one step, at the owner record: it is written last, and a call that does not find it
completed runs the whole commit again.

### `TimelineWorkflows`

Eighteen workflows of `agent/*.py` that change a project in steps. They have one shape
(validate, compare the reviewed plan with the live project, keep a receipt file, ask the
bridge for one step after the other, read back, record `applied`), and a table `Kinds`
says where they differ: steps, timeline, when the plan is compared and with what,
whether a receipt is kept, what the readback insists on. Two servers share the receipts
directory without a lock. A timeline is a bag of parts, so that a step that happened
twice can be seen.

| Actions | Code |
|---|---|
| `Call`, `CheckFirst`, `Lookup`, `Check` | arguments, the fresh preview, an existing receipt |
| `Begin`, `Step`, `StepResult`, `StepFails` | the receipt, `_step` with its derived key and stored result |
| `Verify`, `Record` | the readback and the status `applied` |
| `GiveUp` | a timeout of the command client or the death of the server; the command goes on |
| `Replay`, `Perform`, `Reject` | the bridge: stored receipt, change with its receipt, refusal or failure before any change |
| `PerformUnrecorded`, `FailAfterChange` | a change that leaves no receipt: Resolve dies in between, or the handler, with Resolve alive, fails its readback, half of its batch or its receipt and answers an error |
| `UserEdits` | the user adds or removes items |

### `FrameArithmetic` and `RoughCut`

From the recording of a talk to a timeline without its pauses. `FrameArithmetic` is the
rounding between times and frames that every editorial document goes through, kept in
integers. `RoughCut` has the algorithms as operators over those conversions and the
documents as variables.

| Operators, actions | Code |
|---|---|
| `WindowSamples`, `WavDuration` | `audio_analysis.read_pcm_wav_envelope`: a window is a whole number of samples, rounded down |
| `Runs`, `DetectPauses`, `ProposedCuts`, `Lags` | `audio_analysis.detect_pauses`, which stamps window `i` with `i` times the nominal length; `rough_cut._proposed_cuts`, the lags `estimate_sync_offset` may choose |
| `CutsValid`, `Kept`, `Placement`, `Preview` | `pause_compaction.py`: what the cuts leave, as frames of each source and of the timeline |
| `CreatePlan`, `Approve`, `Assemble`, `Style` | `rough_cut.py`, `synchronized_pair.py`, link and layout of a pair |
| `BeginCompaction`, `FinishCompaction`, `Interrupt`, `Finalize` | `pause_compaction.apply` with its receipt, `pause_compaction_finalize.py` |
| `EditPlan`, `ChangeMedia` | the user edits the plan file, relinks footage, changes the rate |

The score that chooses a lag is left out: any lag with enough overlap may win. What a lag
means is `WebcamLead`: what the screen shows at `t` of its file, the webcam shows at
`t + WebcamLead` of its own, and that number is the lag a right estimate returns
(`audio_analysis.py:106-121`).

### `TakeSequence`

From several takes of a shot to a rendered sequence, document by document. A document is
a value, because each one names the hash of the one before; what the hashes do not hold
(files, Media Pool, timelines) are variables that the user changes.

| Actions | Code |
|---|---|
| `Measure`, `Select`, `BeginReview`, `WriteReview`, `Compose` | `take_selection.py`, `take_sequence.py`; two reviewers may pass the same check |
| `BeginBind`, `FinishBind`, `LoseBind` | `take_sequence_binding.py`: private half, public half, death between them |
| `Mapping`, `BeginImport`, `FinishImport` | `take_sequence_timeline_mapping.py`, `take_sequence_media_import*.py` |
| `BeginApply`, `FinishApply`, `Inspect`, `ReviewReport`, `BeginRender`, `StartRender` | application to an empty timeline, quality report and its review, render |
| `ReplaceFile`, `FillPool`, `EditTimeline` | the user |

### `Delivery`

From a finalized timeline to a film. A render job is the receipt it came from, its file
is shared by all jobs with one output name; the content of a file is the timeline it is
of.

| Actions | Code |
|---|---|
| `PrepareExtraction`, `CheckExtraction`, `StartExtraction` | `finalized_audio_extraction.py`; the preflight and the command it allows are two steps |
| `Clean`, `Integrate`, `Caption` | `audio_workflow.py`, `finalized_audio_integration.py`, `subtitles.py` |
| `BeginRun`, `FinishRun`, `Complete` | `baseline_edit.py`: inspection, receipt, and what `status` answers |
| `PrepareFilm`, `BeginFilm`, `StartFilm` | `finalized_render.py`, `finalized_render_execution.py` |
| `EndRender`, `EditCut`, `RemoveFile` | Resolve and the user |

Previews and status reports only read and are one step. `raced` and `disturbed` are
history: two extractions past their preflights at one time, a run whose timeline the
user edited between its inspection and its render. `start_render_job` is the one of
`BridgeQueue`: a repeated start is answered from its receipt.

### `Dressing`

From a rendered film to one with B-roll, an animation and a color treatment. A stage
works on a duplicate of the timeline of the stage before it; a timeline is a set of items
with an id, a track, bounds and a first source frame.

| Actions | Code |
|---|---|
| `Agree`, `Dress` | `preview` and its review; `apply` with the second preview, compared by its hash |
| `Copy` | `duplicate_timeline`, or the duplicate that the receipt already has |
| `InsertCover`, `InsertTitle` | `insert_clips` and `insert_animation_template` of `ResolveBridge.py`: all placements or none, the animation at the end only |
| `MapTargets`, `Grade` | `_map_duplicate_target_ids`; `apply_color_preset`, item by item, which may fail at any of them |
| `Accept`, `GiveUpDressing` | the readback with the status `applied`; a timeout or the end of the process |
| `TrimItem`, `ReplaceAsset` | the user moves, slips or removes an item of any timeline, or replaces the B-roll file |

`Plans` is what a preview would say now; a hash that is compared is the plan itself. Two
of the previews see less than the timeline: `BaselineComplete` and `TitlePlans` compare
places, and not which frames of the source are shown. `Lengths` is how many frames Resolve
fills with a source range: `docs/broll.md` records that the range 0-47 filled 47 frames, so
the end is exclusive, and a frame that is filled in part may be there or not. `touched` is
history: the stages between whose last look and whose report the user came. An edit of
the timeline that a treatment duplicates is no such stage, because the duplicate is
compared item by item with what was reviewed.

### `Editorial`

The four together. They share the conversions and the user but no document that one
writes and another reads again, so that a behaviour is about one of them: the desk.

The modules carry, next to the definitions they change, operators marked "Seeded fault":
plausible bugs, used by nothing, that each property is shown to detect when they take
the place of the real definition.

## 3. Runs

| Run | Instance | Shows |
|---|---|---|
| `mailbox_safety` | 2 clients, 2 keys, 2 projects, 2 ids; edits and render starts; listings one entry below the limit, second bearers of a name; symmetric | all safety properties of the mailbox |
| `mailbox_refinement` | 1 client, 2 keys, 1 project, 2 ids; edits, beyond the limit too, and quits; weak fairness of clients | `RefinesOnceWrites`, `RequestsReturn` |
| `mailbox_finding` | 1 of each, timeline at the limit | the divergence below |
| `queue_all` | 2 commands over 2 keys, all six kinds, after an earlier command that prepared a job; weak fairness of the loop | all safety properties of the queue, finality of a settled key, `ClaimedIsAnswered` |
| `queue_finding` | 2 ids, 1 key, edits | the divergence below |
| `sdk_safety` | 2 ids, 2 keys, 2 arguments, one of them a creation; reads and writes on both transports; symmetric | all safety properties of the worker |
| `sdk_finding` | 1 of each | the divergence below |
| `lease` | 2 keepers, 1 request, lease 5, interval 3, 6 seconds, 1 failure; symmetric | the loop never outlives what it was granted, and the rotations of a keeper that lives and renews do not end it |
| `workflows` | 2 servers, each of 18 kinds, 1 fault, 1 edit | all properties of the workflows |
| `lifecycle` | 9 sets of actors, 2 processes of Resolve, 2 generations | all safety properties of the host services |
| `actions` | each of 22 actions, 3 tries, 2 tracks wanted, 2 calls that misbehave, 2 moves of the user | what an answer proves, what else an action disturbs, what a repetition adds |
| `editorial` | 6 shapes of silence at 2 sample rates, a webcam with a lead of 22 ticks, 2 offsets, recordings and timelines at 25 and 30 frames a second; 2 takes in each of 2 shots over 3 files; 2 timelines under one file name and 2 runs; a film of 2 items, 5 sets of placements, 2 files; 1 edit or removal by the user at each desk | what is shown was approved, no word is lost where windows are exact and the speech comes first, picture and sound are as far apart as the offset puts them, every frame exists, a film that is reported was inspected |

Bounds. Two processes, two keys and two projects are enough for every interaction the code
distinguishes: the same or another key, the same or another project, the lock held or free. Ids
bound how many commands a behaviour draws, not how many calls there are: resuming and replaying
draw none, and so are unbounded. Two ids let a second command meet an uncertain first one; in
the queue the third, an `Earlier` one, has prepared a render that the two others start under two
keys. In `SDKWorker` two commands meet in every way the code tells apart: same key with same or
other arguments, two keys, a read before or after a write, the second on either transport while
a process of the first still runs. In `MarkerLease` six seconds hold a whole lease and two
rotations of each keeper, and the base 4 gives stamps whose digits differ in one place or in
both. In `TimelineWorkflows` a fault is a timeout, a death, a failed command or a change without
a receipt; one of them and one edit meet every step of every kind, with a second server in any
place. In `BridgeActions` three tries meet what two failed ones left, and two misbehaving calls
are a change that fails and the call that should put the view back; with two tracks wanted an
attempt can end between them. In `ProjectLifecycle` two processes of Resolve and two generations
tell the original one from its successor, which is all the code compares; the sets of actors
(`MCMixes`) pair every service with those it shares a record or a lock with, two closes under
different keys and a creation beside native writes included, and the one pair of an explicit and
an automatic open, as the one of a creation and an automatic open, goes without the watcher,
because they meet before anything is connected. The automatic connection has one attempt beside
the watcher and two otherwise. In `Editorial` a second has 100 ticks, so that 25 and 30 frames a
second round in every way, exact ones and halves included; eight windows of ten ticks hold a
pause at the start, at the end, in the middle, several of them, nothing but silence, and one
that is too short because the last window is; a recording ends with that window or within it. At
200 samples a second such a window is 20 samples, at 25 it is two and a half, of which the code
takes two; of the offsets, one is negative and one is the lead. Three files with two names let
two takes have the same name. `MaxTouches` and `MaxMeddling` are 1 because the documents before
and after a change are compared pairwise; `Delivery` counts edits and removals together, and
their effect on a run is what `disturbed` and `removals` record. A dressed film has one item
under and one on the track of the B-roll; the placements are one that fits, two that touch
nothing, one that lies on the item, one that is too long for one of the files, and two of the
same range; the baseline begins with its first item or five frames before it. `MaxTrims` is 1
because `touched` records for which stage the one edit counts. `IdsLeft` in `MarkerMailbox`
keeps a call from starting when no id is left for it. Deadlock checking is off because a session
that used its ids and was stopped really has nothing left to do.

Fairness. `LiveSpec` of `MarkerMailbox` assumes only that a client process that is
inside `request()` goes on: every wait in it is bounded by its own deadline. Nothing is
assumed of Resolve, the bridge or the user. `LiveSpec` of `BridgeQueue` assumes that the
running loop goes on; starting it is up to the user, and dying is always possible.
`SDKWorker` states no liveness: the wait for an external process has no deadline in the
code, and an uncertain route stops the worker for good, which is what it is for.
`TimelineWorkflows` assumes that a server goes on with its call, that a client calls an
unfinished workflow again, and that the bridge works on its queue; faults and edits are
bounded, not fair. `MarkerLease` and `ProjectLifecycle` state safety only: the clock of
the lease already bounds how late anybody is, and what a service waits for is the user.
`Editorial` states safety only, too: every stage waits for a person to ask for it.

`mailbox_refinement` begins with an empty listing and a limit of one entry, so that its
second edit is beyond the limit and its write can be misreported; the refinement has no
hypothesis about that. `mailbox_finding` shows the same step as a disagreement with a
document.

## 4. Where code and documents disagree

* **A partial edit recorded as rejected** (`mailbox_finding`). After the edit,
  `ResolveLuaEditing.lua:242`, `:256` and `:275` list timelines, assets or items again
  with the functions whose errors the client counts among the known preflight rejections
  (`lua_transport.py:587-589`). An edit that takes the timeline over 10000 items is
  therefore settled as rejected and its slot freed, where
  `docs/lua-experimental.md:139-143` says that a failed post-check leaves the receipt
  pending. The same goes for an import into a Media Pool that becomes too large, and for a
  timeline or an asset whose name or path is there twice after the change. The run shows
  the first of these; `RejectionNeedsRepeatedCheck` shows, and TLAPS proves, that a write
  with an effect is settled as rejected only by such a repeated check, and never if it is a
  render start or a quit.
* **A repeated request that duplicates a change** (`queue_finding`). The Python
  bridge writes a receipt after the change and its readback. If Resolve dies, the
  readback fails or the receipt cannot be written, the same key and arguments run
  again, where `docs/protocol.md:106-107` calls a stable key replay-safe. What does hold
  is `ExecutedOnce`, per command and per render job, and `SettledKeyIsFinal` once a
  receipt exists; `RepeatAddsNothing` names the actions whose own checks prevent the
  second change.
* **A failure before dispatch that poisons later commands** (`sdk_finding`).
  `ResolveSDKCommand.py` exits with 3 or 4 when it found no Resolve or another project,
  and its comment says that nothing was claimed or changed. `sdk_worker.py:153` treats
  every exit code but 0 as an unknown outcome: the route becomes `uncertain` and all
  later commands, reads included, are refused, where `sdk_worker.py:319-320` says that a
  known pre-dispatch failure must not do that. What does hold is `CompletedRouteIsTrue`: the
  worker is too cautious, never too bold.

Observations that no run states. `AutomaticConnection.ensure` reads the close intent once
(`automatic_connection.py:237`) and then opens the last project, while `open_existing`
refuses only the phase `pending` (`project_open_service.py:1006`): a close completed in
between does not stop it, though `project_close_state.py:1` says that automatic recovery
must never undo project closure. What holds is `ClosureIsHeld`: the intent itself is not
lost by anything that dies or opens. It can be taken away, though, by another close.
`prepare_close` refuses only while the intent is `pending`, so that a second close under
another key replaces the intent of the completed one by its own; when the worker then
refuses it, `finish_close` removes the file (`project_close_state.py:38-60`,
`sdk_worker.py:340-391`). The automatic-open hold is gone without the explicit open that
`docs/close-project.md:71-75` and `project_close_state.py:64` call its only end.
`ClosureIsHeld` names this way out (`Refused`), and the proof shows that there is no other.
A video render job that fails its policy check stays in Resolve's render queue; only wave
jobs are deleted again (`ResolveBridge.py:5801-5838`). After a managed close in the same
process the active session stays `connected`, so that an explicit `open_existing` from the
Project Manager is refused as `ACTIVE_CONTEXT_UNVERIFIED` until the session is replaced.
And an import, a sequence render or an audio extraction that was interrupted after its own
step took effect is refused when it is called again, because its preview finds the result
in its way (`take_sequence_render.py:117`); `EventuallyApplied` excludes these three by
name. Last, a creation takes a new runtime in the process that runs the loop of the old
one, without ending that loop. A static client that was started on the adopted runtime goes
on writing through it and knows no owners, so that it can repeat a key that the new
generation owns already. `KeyInOneGeneration` is about hosts where no creation has got that
far (`Overtaken`), or about two managed generations.

More observations, from the editorial chain and the delivery. The models contain these
behaviours; the properties that hold are stated around them.

* `estimate_sync_offset` returns a positive lag when the webcam has that much extra at its
  front (`tests/unit/test_audio_analysis.py:34-53`), and plan and placements then put the
  webcam that much later (`synchronized_pair.py:394-399`, `pause_compaction.py:731-732`),
  where it would have to be that much earlier. With the offset of a right estimate picture
  and sound are twice the lead apart; they are together with its opposite, which a user may
  pass. `StaysInStep` states the distance, offset plus lead, and that nothing adds to it but
  rounding.
* Words can be lost in two ways, and `NoWordIsLost` excludes both by name; without either
  condition TLC finds a lost word. The cuts, found in the clock of the speech file, are
  applied to the common clock unshifted, so that with a negative offset they miss the
  silence. And a window is rounded down to whole samples (`audio_analysis.py:60`) while
  pauses are stamped with its nominal length (`:166-167`): with 20 ms windows at 11025 Hz,
  or 25 ms at 44100 Hz, the stamps run ahead of the recording, and late cuts miss the
  silence as well.
* The creation of a project with none open, or on the empty placeholder, makes no backup.
  `docs/create-project.md:76-79` says so; `SuccessIsDurable`, `CompletedRouteIsTrue` and
  `MutationUnderOpenRoute` name it as the one write without a backup.
* An assembly takes the clips in the order of the binding's list, not of the entries'
  numbers.
* On a timeline of another rate, a clip may reach two frames over the next one. Where a plan
  keeps the milliseconds from 19 to 100 of a recording of 25 frames per second, and then
  more, frames 0 to 2 of it are placed at 0, fill 4 frames of a timeline of 30 frames per
  second, and the next clip is placed at frame 2 (`pause_compaction.py:807-879`).
  `StaysInStep` bounds this, whatever the rates.
* Two reviewers that pass the check at the same time both write: the later review replaces
  one that is called immutable. Nothing that was composed in between changes with it.
* A server that dies in a bind leaves the private half alone; the same bind, and reading
  it, fail from then on.
* A file that is replaced between measuring and fingerprinting is analysed as the old one
  and bound as the new one, and a file that is replaced after the quality review is
  rendered.
* An import may be done for a placement of a single frame that the application always
  refuses.
* A start that is resumed from an `in_progress` receipt has no preflight
  (`finalized_render_execution.py`), so that an output made meanwhile under the same name
  is overwritten, though `docs/protocol.md:228-233` says that an existing output is
  rejected. The names of baseline runs differ, which is why `DeliveredWasInspected` holds.
* An integration finds a cleaned report by the path of the WAV file; its fingerprint is not
  compared with anything. Two extractions with one name that both passed their preflights,
  or a removed file, can give a timeline the voice of another; `DeliveredWasInspected`
  names these two ways out (`raced`, `removals`), and the proof shows that there is no
  third.
* A run that is resumed is not inspected again, and the inspection does not see whether an
  item is enabled (`docs/baseline-edit.md:42-45` says so).
* A B-roll preview counts positions and collisions from the first item (`_source_timeline`,
  `_reject_collisions` in `broll.py`), the bridge counts them from the start of the
  timeline (`ResolveBridge.py:5245`), and `docs/broll.md` speaks of the beginning of the
  baseline timeline. Where the timeline begins before its first item the two differ, and a
  placement that was reviewed as free may lie on an item; the readback asks only that all
  placements have one origin. `CoverIsAgreed` is about a timeline that begins with its
  first item (`lead = 0`) where it says that nothing is covered.
* The length of a placement is rounded to the nearest frame. A file of more than twice the
  rate of the timeline (120 frames a second on 24) may then fill one frame more than was
  reserved, if Resolve keeps a frame that is filled in part; up to twice the rate
  `RoomIsEnough` shows that it never does.
* The snapshot of an animation preview leaves out source ranges: an item that shows another
  part of its source since the review of the animation is not noticed. The treatment, one
  stage later, compares them.

## 5. Proofs

`MarkerMailbox_proofs` proves, for every value of the constants that meets the three
assumptions of `MarkerMailbox` (null values are distinct from all others, `WriteKinds`
are kinds of writes, item counts are natural numbers):

| Theorem | Statement |
|---|---|
| `Invariance` | `Spec => []IInv` |
| `TypeCorrect` | `Spec => []TypeOK` |
| `AtMostOnceHolds`, `RenderStartedOnceHolds`, together `NoSecondEffectHolds` | `Spec => []NoSecondEffect` |
| `CompletedTookEffectHolds`, `RejectionHolds`, together `ReceiptsTellTheTruthHolds` | `Spec => []ReceiptsTellTheTruth` |
| `SinglePendingHolds` | `Spec => []SinglePending` |
| `WriteAheadHolds` | the action property `WriteAhead` |
| `UncertainSlotStaysHolds`, `NothingPublishedAfterStopHolds`, together `SlotDisciplineHolds` | the action property `SlotDiscipline` |
| `Refinement` | `Spec => RefinesOnceWrites` |

The argument. That a write runs once depends on facts no single property mentions, so
`MarkerMailboxInvariant` collects them in `IInv`:

* `LockInv`, `CallInv`: only the owner of `client.lock` is past `Acquire`, and what it
  has done so far agrees with the receipt of its key. An id that was drawn but not
  published is unknown to everyone else.
* `UsedInv`, `ReceiptInv`: every id anywhere was drawn, an id belongs to one
  receipt, one receipt at most is pending.
* `PacketInv`: a write in the inbox or in the loop is the one its receipt speaks of.
* `LoopInv`, `EffectInv`: what each phase of the loop has established, and how often each
  write has reached Resolve by then. Before the effect `applied` is 0; after it the
  id is in `handled`, and a new loop finds the session consumed.
* `ExportInv`, `SettledInv`, `RenderInv`: what an archive proves, what a settled receipt
  proves, which jobs were started.

The proof has one lemma per conjunct of `IInv` and, in it, one step per action that can
disturb it. The action properties and the refinement then follow from `IInv` in the
state before the step: the only steps that change `applied` are `Edit`, `StartRendering`
and `Quit`, and all three hold a backed-up packet whose receipt is unsettled or an
acknowledged one.

`Refinement` has no hypothesis. The first divergence of section 4 is the step `Misreport` of
`OnceWrites`: the write is over, with the effect it had as its only one. That nothing else is
mapped there is `RejectionHolds`.

`BridgeQueue_proofs` proves, for every set of ids, keys, kinds and earlier commands,
that meet the assumptions of `BridgeQueue`:

| Theorem | Statement |
|---|---|
| `QueueInvariant` | `Spec => []IInv` |
| `QueueTypes` | `Spec => []TypeOK` |
| `ExecutedOnceHolds` | `Spec => []ExecutedOnce` |
| `SuccessIsDurableHolds` | `Spec => []SuccessIsDurable` |
| `SettledKeyIsFinalHolds` | `Spec => SettledKeyIsFinal` |

That a command runs once is not inductive: it is `Places` (a command is in one directory at
most, and what was not queued is nowhere), `Runs` (what is queued has not run) and `AtWork`
(what the loop has established in each of its steps about the command it claimed) that keep a
claimed command from running twice over a crash. `Rendered` puts the record in
`state/render-starts` before the render, `Recorded` the execution before the receipt, with its
backup, or as a creation that found nothing to back up. There is one lemma per action, with one
step per conjunct that it can disturb.

`Editorial_proofs` proves, for any recordings, cuts, takes, files, placements and rates,
any number of reviewers, runs, edits and interrupted calls, under the assumptions of the
four desks and `DeskAssumption`:

| Theorem | Statement |
|---|---|
| `EditorialInvariant` | `Spec => []EditorialInv` |
| `TypeOKHolds` | `Spec => []TypeOK` |
| `ShownWasApprovedHolds` | `Spec => []ShownWasApproved` |
| `GradeIsWholeHolds` | `Spec => []GradeIsWhole`, the last part of it |
| `NoWordIsLostHolds` | `ContextShows` implies `Spec => []NoWordIsLost` |
| `StaysInStepHolds` | `Spec => []StaysInStep` |
| `FramesExistHolds` | `AtMostAFrameATick` implies `Spec => []FramesExist` |
| `CoverFramesExistHolds` | `Spec => []CoverFramesExist`, the last part of it, at every rate |
| `DeliveredWasInspectedHolds` | `Spec => []DeliveredWasInspected` |
| `DressingInvariant` | `Spec => []GInv` |

A behaviour is about one desk, so `EditorialInv` is one invariant for each of them.

* `CInv`, the cut: the receipt of a compaction is about the approved plan, and about a
  preview of it at some recordings and some rate, not those of now, because the user may
  relink footage and change the rate after the preview. `Previewed` then proves of any
  recordings that no placement shows a frame of a cut or one that is not there.
* `TInv`, the takes: what a stored review approves stays in `everApproved` when a second
  reviewer overwrites it, the sequence is made of that and is never written again, and every
  binding lists all of it, each entry once (`Bound`). What the binding sorts in its order
  is therefore the sequence.
* `DInv`, the delivery. `SoundInv`: unless two preflights raced or a file was removed, the
  first sound to begin is the only one, since the file it leaves stops every later
  preflight; so the file and every report about it are of that timeline, and only the
  timeline whose extraction was started can be integrated. `FilmInv`: a run that nobody
  disturbed either has not begun to render and fits the timeline as it is, or its job shows
  a timeline that fits; the file of a complete job is what the job shows, because no other
  job has its name.
* `GInv`, the treatment. It was carried out on a duplicate nobody reviewed, so the property
  does not follow from what a readback sees alone. `PlanInv` keeps that the plan of the
  treatment is the media that the animation was accepted with, and that this receipt does
  not change any more; `CopiesInv` that the items of a timeline have ids of their own,
  whatever is inserted or duplicated; `Found` that every item of the plan has a twin on the
  duplicate and that only twins are named. Then an item with a named id is the twin, and a
  graded film shows what the accepted one shows.
* `DressInv`, the B-roll and the animation. A plan is compared with a timeline that is
  duplicated later. `CoverInv` and `TitleInv` say what that comparison still tells, from
  then on, unless the user came in between: the timeline is the one of the plan until there
  is a duplicate, and the duplicate is it from then on, but for what the plan inserts. The
  B-roll lies on frames that were free for it (`Suits`, with `RoomIsEnough` below), the
  animation begins where everything else ends.

`FramesExist` has a hypothesis. Documents keep times in milliseconds, ticks in the model
(`Second` of them). At more than a frame a tick a time no longer names a frame: one frame
of a recording at twice that rate lasts half a tick, its end is rounded to a whole one, and
the plan that is made from it ends behind the last frame. The code accepts any
positive rate; `AtMostAFrameATick` is 1000 frames per second there.

`NoWordIsLost` has one too, beside the two conditions that it states itself (section 4). A cut
ends `Context` before the next word, and the plan's times are rounded to frames when they are
placed. With no context the rounding may take the first frame of a word away, and a part of less
than two frames is not placed at all. `ContextShows` asks for half a frame of context, and for
two frames in a window with its context. The code proposes cuts for any context that is not
negative (`rough_cut.py:59`); its default of 120 ms is half a frame at every rate above 4.2
frames per second. The argument is made window by window: `Proposed` finds for every cut the run
of silent windows that it comes from, `WordApart` that such a cut keeps away from every window
somebody speaks in, `WordFits` that what is left of the word is placed, `WordShown` that its
frames are shown.

`StaysInStep` needs no hypothesis, because it measures from the distance that the offset and the
webcam's lead make, whatever they are. Nothing adds up, for sums do not lose more than their
summands. For the takes, `LengthDrift` bounds what one clip is off, half a frame of the timeline
and a frame of its source, and `SumsDrift` adds this up over the clips before it. For the cut,
positions are computed from times and not from the clips before, so nothing adds up: `KeptOrder`
shows that what is kept moves forward without overlap, `ShiftBound` that a placement is moved as
far as its interval, to within half a frame of its recording and of the timeline, and `Gathered`
that therefore two recordings of one interval are as far apart as where they begin.
`OverrunBound` says how far a clip may reach over the next one. On a timeline of its own rate
this is one frame; otherwise its frames are refitted after they were rounded, and the bound is
one and a half frames and one of the source. The bound of one frame, which the run had at first,
is not true of all rates: TLC's instance has none of these cases, the attempt to prove it has
shown one (section 4).

The first part of the module is about the conversions of `FrameArithmetic`, for every rate
and length: `RoundTrip` (a frame written in milliseconds is read as the same
frame, at rates of at most a frame a tick), `FramesInOrder` (rounding keeps the order of
times), `LastFrameExists` (the end of a recording is not past its last frame),
`DriftOfACut` (a cut moves what follows by at most one frame), `RefitSame`, and
`RoomIsEnough` (the frames that a B-roll placement reserves are enough for what Resolve
fills, from a file of at most twice the rate of the timeline).

Where the code sorts, takes the first or the last of something, or adds up a prefix, the
argument is an induction on a list or on a finite set, which cannot be cited
as such. It is made with a least counterexample instead: `Least` of a set of natural
numbers, `Minimal` and `Greatest` of a finite set. `Ordered` says that `InOrder` enumerates a
finite set in the order of its starts. `Sums`, the recursive function behind `Removed` and
`PositionOf`, has a value at every length of a list, each one summand more than the one before
(`SumsAre`): the shortest prefix without such a function would have one.

`BridgeActions_proofs` proves, for any number of wanted tracks, attempts, calls that
misbehave and moves of the user, under `ActionsAssumption` and `NoneAssumption`:

| Theorem | Statement |
|---|---|
| `ActionsInvariant` | `Spec => []IInv` |
| `TypeOKHolds` | `Spec => []TypeOK` |
| `SuccessIsSeenHolds` | `Spec => []SuccessIsSeen` |
| `NothingElseChangesHolds` | `Spec => []NothingElseChanges` |
| `RepeatAddsNothingHolds` | `Spec => []RepeatAddsNothing` |

The calls of an action are data in this model, so the proof has two halves. `WellFormed`
says what all actions have in common: which call comes before which (what is made is
the first call, a title is inserted once and only where the preflight has looked), what lies in
a try block and how its `finally` clause ends it, and that no readback of a property is
followed by a call that sets it again. `Table` checks that of each of the 22 actions and
each batch. The steps of the interpreter are then about any well-formed action: `SeenInv`
(what was read back is still so, so that the last call can answer for all of them),
`NewInv` (a copy is made where there is none), `TrackInv` (the tracks the bridge counted are
those that there are), `TitleInv` (there is no title where one is about to be inserted),
`SelectInv` and `ViewInv` (the view is changed only where a `finally` clause is still to come,
but for the two exceptions of `NothingElseChanges`: `stuck` and `exposed`).
`SuccessIsSeen` needs the order of calls most: without the condition on what may follow a
readback, a batch with one element twice would answer for a value that it had
overwritten, which is why the code refuses such batches.

`SDKWorker_proofs` proves, for every set of ids, keys and arguments, that meets
`NoneAssumption` (null values are distinct from all others, and no key is the word for no
answer):

| Theorem | Statement |
|---|---|
| `SDKInvariant` | `Spec => []SInv` |
| `TypeCorrect` | `Spec => []TypeOK` |
| `OncePerKey` | `Spec => []MutatedOncePerKey` |
| `CompletedIsFinal` | `Spec => []CompletedRouteIsTrue` |
| `MutatesUnderRoute` | the action property `MutationUnderOpenRoute` |
| `DoubtStays` | the action property `DoubtIsKept` |

The argument follows a write from its route to the outcome that settles it. `RouteInv`: one
route at most is open, and a completed one is final. `WorkerInv` and `InsideInv` say what
the worker knows at each step of a command: its route is the open one, the guard is its
own, and it has not settled what may still run. Three places can carry out the write after
the worker died: the packet in the slot (`SlotInv`), the Lua loop with its last answered
call (`LuaInv`), and the external process (`ExternalInv`). Each has a write only while its
route is dispatched, and never two of them the same one; `AppliedInv` then counts. A
restart finds the route open and can send nothing. `SuccessInv` is what lets a replay under
another command id answer for the first one. `Secured` carries the backup through all
of this, or that the command is a creation which found nothing to back up.

`MarkerLease_proofs` proves, for every number of keepers and requests, every base, lease
and clock, under `LeaseAssumption` and `TimingAssumption`:

| Theorem | Statement |
|---|---|
| `LeaseInvariant` | `Spec => []LeaseInv` |
| `TypeCorrect` | `Spec => []TypeOK` |
| `HonestLease` | `Spec => []LeaseIsHonest` |
| `LiveServerIsKept` | `Spec => []LiveServerKeepsLoop` |

`HonestLease` is a fact about the checksum: `OwnRest` shows that a low digit goes with the
rest of its own packet only, so that a packet torn between two rotations is refused or is
the later one, and `ZerosRefused` that a missing directory is no packet. `PassInv` says
what the first pass has read, `GrantInv` that no stamp in any directory is later than what
was granted. `LiveServerIsKept` needs more (`LiveInv`): where the one keeper is in its
round (`RoundInv`), which stamp the directory has, and whether the loop has adopted it.
Right after a rotation the loop lives on the stamp before (`Rotating`); a poll that was
torn by the rotation adopts nothing, but the next one, which begins after it, does, before
the following rotation (`Settled`). For the last step a poll must fit between two
rotations; that is where `TimingAssumption` comes from.

`ProjectLifecycle_proofs` proves, for any mixes of any number of actors, processes of
Resolve, generations and attempts, under `BoundsAssumption`, `MixesAssumption` and
`ActorsAssumption` (explicit and automatic opens are different calls):

| Theorem | Statement |
|---|---|
| `LifecycleInvariant` | `Spec => []LifeInv` |
| `TypeCorrect` | `Spec => []TypeOK` |
| `ActsOnce` | `Spec => []ActedOnce` |
| `HoldsClosure` | `Spec => []ClosureIsHeld` |
| `OneGenerationPerKey` | `Spec => []KeyInOneGeneration` |

The argument is about locks. `LockInv` says at which labels an actor holds `operation.lock`
or the lock of the open service; what it has read of the records under a lock stays so
until it acts on it, and every other label is one where it must look again. On this rest
`OpenInv` (what an open has seen of its own receipt), `KeysInv` (one open at most is
unsettled, and a key was sent once to a process), `MenuInv` (a menu dispatch is on record
before it is made, and only what was dispatched has a loop), `CreateInv` (a creation goes
forward) and `CloseInv` (a route knows what was closed). `WriteInv` is the one that spans
generations: as long as no creation overtook it, the loop that runs belongs to the active
generation, so that a key can have been used without an owner in the adopted generation
only. There is one lemma per action for what it disturbs, and one per part of the invariant
for the actors that stand by.

`TimelineWorkflows_proofs` proves, for any number of servers, faults and edits, under
`WorkflowAssumption` and `NoneAssumption`:

| Theorem | Statement |
|---|---|
| `WorkflowInvariant` | `Spec => []WorkflowInv` |
| `TypeCorrect` | `Spec => []TypeOK` |
| `StepsOnce` | `Spec => []OncePerStep` |
| `ReceiptBehind` | `Spec => []ReceiptNotAhead` |
| `AppliedMeansThere` | `Spec => []AppliedIsExact` |

The two servers share a receipt file without a lock, so that a server may write back an older
receipt than the one it finds. What is monotonic is the bridge: `Recorded` says which steps it
has a receipt of. `ControlInv` ties every result that a server or the file has to one of those,
and every command on its way to the step it is for; `CountInv` counts the parts on the timeline
by them, one for each recorded step and, once a change left no receipt (`lost`), one more for
each fault at most. `SequenceInv` is the one readback that sees a double. The table `Kinds`
enters through one lemma, `Table`, about the steps of each of the eighteen workflows.

What the proofs found in the models. Five definitions were wrong or could not be reasoned
about, each in a way that the small instances did not show: `Parts` of `TimelineWorkflows`
took the difference of sets before the union; the null values of four modules were not
assumed to differ from all the values they stand beside; `NextOfOpen` of `ProjectLifecycle`
had overlapping arms, which is a choice TLC always makes the same way; `Without` of
`SDKWorker` was a recursive selection; and the model let a second worker run beside the
first. The run of the lifecycle had neither two closes nor a creation beside writes: the
invariant was not inductive there. The steps that broke it are the refused close and the
overtaken loop of section 4; `ClosureIsHeld` and `KeyInOneGeneration` are stated with these
two exceptions because without them they are false of the code.

The proofs about the editorial desks and the bridge's actions asked for more of the
constants. Each is something the code insists on before it comes that far: a shot has
takes with two ids at least and ranges that are not empty (`TakeAssumption`:
`take_selection.py:689`, `:713`, `:752`), the items of a finished film are counted from the
first of them, as `broll.py:435` does, and what comes before it is `lead`
(`DressAssumption`), there is something to begin with at every desk (`DeskAssumption`, without which
`Init` would choose from an empty set), and a place that does not exist is not a bag
(`NoneAssumption`). `FramesExist` turned out to hold up to a rate only (above).

Only model-checked:

* `RequestsReturn`, `ClaimedIsAnswered` and `EventuallyApplied`, since liveness under
  fairness, and `ENABLED`, are outside what TLAPS proves.

## 6. Not modelled

* Of the editorial algorithms: the scores of takes and the correlation that chooses a lag,
  which order alternatives that the models all allow; transcripts and the fitting of words;
  the catalogues of animations, presets and recipes, which are fixed tables, and what a
  preset does to a picture.
* The Windows drivers (`windows_project_manager.py` and others) automate a foreign program;
  what a step does is Resolve's behaviour. Their contract, opened or not, certain or
  uncertain, is in `UiOpen`, `SendCreate` and `Invoke`.
* `create_project` over the marker mailbox (`ResolveLuaEditing.lua:83-158`,
  `lua_transport.py:689-705`): it is the one write that answers from another project than
  the one it was asked of. The creation through the worker is in `SDKWorker` and
  `ProjectLifecycle`, that of the Python bridge in `BridgeQueue` and `BridgeActions`.
* The editing actions of the Lua bridge (ripple, synchronisation, recording, finishing)
  share the skeleton of `MarkerMailbox`; those of the Python bridge are in `BridgeActions`.
* `agent/application.py`, `mcp_server/server.py` and `mcp_server/lua_experimental.py` pass
  a call on to one of the services or workflows above and keep nothing of it.
* Paths, configuration, contracts, diagnostics, the tool catalogues and the installer keep
  no state that another step reads.
