--------------------------- MODULE MarkerMailbox ---------------------------
(***************************************************************************)
(* The marker mailbox of one prepared Resolve session: MCP client          *)
(* processes that share one runtime directory on one side                  *)
(* (LuaSnapshotClient.request with transport = "marker", WriteReceipt and  *)
(* MarkerSlot), the Lua bridge that runs inside Resolve on the other       *)
(* (ResolveLuaMarkerReader, ResolveLuaBridge, ResolveLuaEditing and the    *)
(* render half of ResolveLuaFinishing).  Everything they share is a file:  *)
(* client.lock, receipts/<key>.json, the inbox slot, the exported          *)
(* <id>.<suffix>.drp archives, the <id>.before.drp backups, stopped.json   *)
(* and marker-session-consumed.drp.                                        *)
(*                                                                         *)
(* Time is abstracted: a request deadline may pass at any moment (Expire   *)
(* for the native side, Timeout for the waiting client), which covers      *)
(* every skew of os.time() against time.monotonic().                       *)
(***************************************************************************)
EXTENDS Naturals, FiniteSets

CONSTANTS
    Clients,        \* MCP client processes that opened the session
    Keys,           \* idempotency keys of write requests
    Projects,       \* projects of the open project library
    Ids,            \* command ids (uuid4); a behaviour draws at most this many
    WriteKinds,     \* the kinds of write that the clients submit
    MaxItems,       \* the 10000 entries that a listing of a timeline or of
                    \* the media pool accepts, scaled down
    InitialItems,   \* the lengths that such a listing may start with
    None,           \* no id, no key, no project, no owner
    Dead            \* owner of a client.lock whose process has died

\* create_project is left out: its answer comes from another project.
Writes == {"edit", "start_render", "quit_resolve"}

ASSUME NullAssumption ==
    /\ None \notin Clients \cup Keys \cup Projects \cup Ids
    /\ Dead \notin Clients \cup {None}
ASSUME WriteKindsAssumption == WriteKinds \subseteq Writes
ASSUME ItemsAssumption == MaxItems \in Nat /\ InitialItems \subseteq Nat

VARIABLES
    \* files of the runtime directory
    client_lock,    \* owner of client.lock, None when the file is absent
    receipts,       \* [Keys -> Receipt]
    inbox,          \* the published slot, EmptySlot when there is none
    exports,        \* response archives
    backups,        \* ids whose <id>.before.drp exists
    stopped,        \* stopped.json exists
    consumed,       \* marker-session-consumed.drp exists
    expired,        \* ids whose "expires" has passed
    used,           \* ids drawn so far
    \* client processes
    pc, request, command_id, acknowledged,
    \* the Lua bridge inside Resolve
    phase,          \* where the loop is
    packet,         \* the request it handles
    project,        \* the project handle it took when it read the request
    reply,          \* the suffix it is about to export under
    handled,        \* ids already taken by this loop
    started,        \* projects whose prepared job has owned.started set
    \* Resolve itself
    open,           \* the current project, None on the project manager
    items,          \* per project, entries of the listing that edits repeat:
                    \* items of the timeline or assets of the media pool
    twins,          \* keys whose edit gave a timeline name or an asset path
                    \* that a second timeline or asset bears
    \* history
    applied         \* per key: mutating Resolve API calls made for it

files  == <<client_lock, receipts, inbox, exports, backups, stopped,
            consumed, expired, used>>
client == <<pc, request, command_id, acknowledged>>
native == <<phase, packet, project, reply, handled, started>>
world  == <<open, items, twins, applied>>
vars   == <<files, client, native, world>>

-----------------------------------------------------------------------------
(* Types *)

OrNone(S) == S \cup {None}

Requests == [kind: {"read", "stop"}, key: {None}, project: {None}]
            \cup [kind: WriteKinds, key: Keys, project: Projects]
NoRequest == [kind |-> "none", key |-> None, project |-> None]

\* The key is history: the bridge never sees it, only "applied" counts by it.
Packets == [id: Ids, kind: {"read", "stop"}, key: {None}, project: {None}]
           \cup [id: Ids, kind: WriteKinds, key: Keys, project: Projects]
EmptySlot == [id |-> None, kind |-> "none", key |-> None, project |-> None]

Receipt == [status: {"pending", "completed", "rejected"}, id: Ids,
            kind: WriteKinds, project: Projects]
NoReceipt == [status |-> "absent", id |-> None, kind |-> "none",
              project |-> None]

\* "rejected" stands for the error codes that the client lists as known
\* preflight failures, "uncertain" for every other error code.
Codes == {"ok", "accepted", "rejected", "uncertain"}
Exports == [id: Ids, code: Codes, project: Projects]

Phases == {"off", "polling", "checking", "backed_up", "cleared", "mutated",
           "started", "replying", "quitting"}
PCs == {"idle", "acquiring", "reconciling", "prepared", "begun", "waiting",
        "closing", "unlocking"}

TypeOK ==
    /\ client_lock \in Clients \cup {None, Dead}
    /\ receipts \in [Keys -> Receipt \cup {NoReceipt}]
    /\ inbox \in Packets \cup {EmptySlot}
    /\ exports \subseteq Exports
    /\ backups \subseteq Ids /\ expired \subseteq Ids /\ used \subseteq Ids
    /\ stopped \in BOOLEAN /\ consumed \in BOOLEAN
    /\ pc \in [Clients -> PCs]
    /\ request \in [Clients -> Requests \cup {NoRequest}]
    /\ command_id \in [Clients -> OrNone(Ids)]
    /\ acknowledged \in [Clients -> BOOLEAN]
    /\ phase \in Phases
    /\ packet \in Packets \cup {EmptySlot}
    /\ project \in OrNone(Projects)
    /\ reply \in Codes
    /\ handled \subseteq Ids /\ started \subseteq Projects
    /\ open \in OrNone(Projects)
    /\ items \in [Projects -> Nat]
    /\ twins \subseteq Keys
    /\ applied \in [Keys -> Nat]

Init ==
    /\ client_lock = None
    /\ receipts = [k \in Keys |-> NoReceipt]
    /\ inbox = EmptySlot
    /\ exports = {} /\ backups = {} /\ expired = {} /\ used = {}
    /\ stopped = FALSE /\ consumed = FALSE
    /\ pc = [c \in Clients |-> "idle"]
    /\ request = [c \in Clients |-> NoRequest]
    /\ command_id = [c \in Clients |-> None]
    /\ acknowledged = [c \in Clients |-> FALSE]
    /\ phase = "off" /\ packet = EmptySlot /\ project = None /\ reply = "ok"
    /\ handled = {} /\ started = {}
    /\ open \in Projects
    /\ items \in [Projects -> InitialItems]
    /\ twins = {}
    /\ applied = [k \in Keys |-> 0]

-----------------------------------------------------------------------------
(* One client process.  Everything between Acquire and Unlock happens with *)
(* client.lock held.                                                       *)

IsWrite(c) == request[c].kind \in Writes
Saved(c) == receipts[request[c].key]
SameFingerprint(c) ==
    /\ Saved(c).kind = request[c].kind
    /\ Saved(c).project = request[c].project
Errors(id) == {e \in exports : e.id = id /\ e.code \in {"rejected", "uncertain"}}
Responses(id) == {e \in exports : e.id = id /\ e.code \in {"ok", "accepted"}}

Goto(c, label) == pc' = [pc EXCEPT ![c] = label]

\* The call is over: its locals are gone.
Return(c) ==
    /\ Goto(c, "idle")
    /\ request' = [request EXCEPT ![c] = NoRequest]
    /\ command_id' = [command_id EXCEPT ![c] = None]
    /\ acknowledged' = [acknowledged EXCEPT ![c] = FALSE]

\* Named bound: a call starts only while an id is left for every caller that
\* may still draw one.  uuid4() never runs out.
IdsLeft == Cardinality({c \in Clients : pc[c] \in {"acquiring", "reconciling"}})
             < Cardinality(Ids \ used)

\* request(): reads and stop are refused once stopped.json exists, a write
\* passes because it may only want to recover its receipt.
Enter(c) ==
    /\ pc[c] = "idle" /\ IdsLeft
    /\ \E r \in Requests :
        /\ stopped => r.kind \in Writes
        /\ request' = [request EXCEPT ![c] = r]
    /\ Goto(c, "acquiring")
    /\ UNCHANGED <<files, command_id, acknowledged, native, world>>

\* client.lock is created with open("x"); an existing file ends the call
\* before the try block, so that it is not unlinked.
Acquire(c) ==
    /\ pc[c] = "acquiring"
    /\ IF client_lock = None
       THEN /\ client_lock' = c
            /\ Goto(c, "reconciling")
            /\ UNCHANGED <<request, command_id, acknowledged>>
       ELSE Return(c) /\ UNCHANGED client_lock
    /\ UNCHANGED <<receipts, inbox, exports, backups, stopped, consumed, expired,
                   used, native, world>>

\* A pending receipt with the same arguments: wait for the ORIGINAL command.
\* An inbox that exists must hold exactly its packet.
Resume(c) ==
    /\ pc[c] = "reconciling" /\ IsWrite(c)
    /\ SameFingerprint(c) /\ Saved(c).status = "pending"
    /\ command_id' = [command_id EXCEPT ![c] = Saved(c).id]
    /\ IF inbox.id \in {None, Saved(c).id}
       THEN Goto(c, "waiting")
       ELSE Goto(c, "closing")
    /\ UNCHANGED <<files, request, acknowledged, native, world>>

\* A completed receipt: clear what may be left of its slot, return the
\* recorded result.  The clearing may fail (PermissionError), never silently.
Replay(c) ==
    /\ pc[c] = "reconciling" /\ IsWrite(c)
    /\ SameFingerprint(c) /\ Saved(c).status = "completed"
    /\ inbox' \in IF inbox.id = Saved(c).id THEN {inbox, EmptySlot} ELSE {inbox}
    /\ Goto(c, "closing")
    /\ UNCHANGED <<client_lock, receipts, exports, backups, stopped, consumed,
                   expired, used, request, command_id, acknowledged, native,
                   world>>

\* A key used for other arguments, a rejected receipt, or (unless it resumes)
\* a session that was stopped while this call waited for the lock.
Refuse(c) ==
    /\ pc[c] = "reconciling"
    /\ \/ /\ IsWrite(c) /\ Saved(c).status # "absent"
          /\ ~SameFingerprint(c) \/ Saved(c).status = "rejected"
       \/ /\ stopped
          /\ IsWrite(c) => Saved(c).status = "absent"
    /\ Goto(c, "closing")
    /\ UNCHANGED <<files, request, command_id, acknowledged, native, world>>

\* _recover_marker_read_slot: only a read that was answered or has expired.
ReadSlotRecoverable ==
    /\ inbox.kind = "read"
    /\ inbox.id \in expired \/ \E e \in exports : e.id = inbox.id

NewCommand(c) == ~stopped /\ (IsWrite(c) => Saved(c).status = "absent")

\* A new command: recover a finished read's slot, then insist on a free one
\* before any receipt exists.  The recovery may fail on a Windows handle.
Prepare(c) ==
    /\ pc[c] = "reconciling" /\ NewCommand(c)
    /\ inbox' \in IF ReadSlotRecoverable THEN {inbox, EmptySlot} ELSE {inbox}
    /\ IF inbox' = EmptySlot
       THEN \E id \in Ids \ used :
                /\ command_id' = [command_id EXCEPT ![c] = id]
                /\ used' = used \cup {id}
                /\ Goto(c, "prepared")
       ELSE Goto(c, "closing") /\ UNCHANGED <<command_id, used>>
    /\ UNCHANGED <<client_lock, receipts, exports, backups, stopped, consumed,
                   expired, request, acknowledged, native, world>>

\* Seeded fault: begin() does not look at the other receipts.
NothingPending == FALSE
AnyPending == \E k \in Keys : receipts[k].status = "pending"

\* WriteReceipt.begin: the receipt is durable before anything is published,
\* and refused while any write of the session is uncertain.
Begin(c) ==
    /\ pc[c] = "prepared"
    /\ \/ ~IsWrite(c) /\ Goto(c, "begun") /\ UNCHANGED receipts
       \/ /\ IsWrite(c) /\ ~AnyPending
          /\ receipts' = [receipts EXCEPT ![request[c].key] =
                [status |-> "pending", id |-> command_id[c],
                 kind |-> request[c].kind, project |-> request[c].project]]
          /\ Goto(c, "begun")
       \/ IsWrite(c) /\ AnyPending /\ Goto(c, "closing") /\ UNCHANGED receipts
    /\ UNCHANGED <<client_lock, inbox, exports, backups, stopped, consumed,
                   expired, used, request, command_id, acknowledged, native,
                   world>>

\* A render destination that is no longer empty ends the call without a
\* receipt.
RefuseDestination(c) ==
    /\ pc[c] = "prepared" /\ request[c].kind = "start_render"
    /\ Goto(c, "closing")
    /\ UNCHANGED <<files, request, command_id, acknowledged, native, world>>

\* MarkerSlot.publish: the staged directory is renamed to inbox.
Publish(c) ==
    /\ pc[c] = "begun" /\ inbox = EmptySlot
    /\ inbox' = [id |-> command_id[c], kind |-> request[c].kind,
                 key |-> request[c].key, project |-> request[c].project]
    /\ Goto(c, "waiting")
    /\ UNCHANGED <<client_lock, receipts, exports, backups, stopped, consumed,
                   expired, used, request, command_id, acknowledged, native,
                   world>>

Settle(c, status) ==
    receipts' = [receipts EXCEPT ![request[c].key] =
        [status |-> status, id |-> Saved(c).id, kind |-> Saved(c).kind,
         project |-> Saved(c).project]]

\* A lease, staging or rename error, a deadline that passed first, or a busy
\* inbox: nothing was exposed, so that a write is known not to have run.
NotPublished(c) ==
    /\ pc[c] = "begun"
    /\ IF IsWrite(c) THEN Settle(c, "rejected") ELSE UNCHANGED receipts
    /\ Goto(c, "closing")
    /\ UNCHANGED <<client_lock, inbox, exports, backups, stopped, consumed,
                   expired, used, request, command_id, acknowledged, native,
                   world>>

\* An error archive ends the wait.  A listed code settles the receipt; any
\* other leaves it pending and the slot in place.
SeeError(c) ==
    /\ pc[c] = "waiting"
    /\ \E e \in Errors(command_id[c]) :
        LET known == e.code = "rejected" IN
        /\ IF IsWrite(c) /\ known
           THEN Settle(c, "rejected") ELSE UNCHANGED receipts
        /\ acknowledged' =
            [acknowledged EXCEPT ![c] = known \/ ~IsWrite(c)]
    /\ Goto(c, "closing")
    /\ UNCHANGED <<client_lock, inbox, exports, backups, stopped, consumed,
                   expired, used, request, command_id, native, world>>

\* A response archive: a write is complete only if it and the backup belong
\* to the expected project; a stop retires the session directory.
SeeResponse(c) ==
    /\ pc[c] = "waiting" /\ Errors(command_id[c]) = {}
    /\ \E e \in Responses(command_id[c]) :
        LET confirmed == /\ e.project = request[c].project
                         /\ command_id[c] \in backups IN
        /\ IF IsWrite(c) /\ confirmed
           THEN Settle(c, "completed") ELSE UNCHANGED receipts
        /\ acknowledged' =
            [acknowledged EXCEPT ![c] = IsWrite(c) /\ confirmed]
    /\ stopped' = (stopped \/ request[c].kind = "stop")
    /\ Goto(c, "closing")
    /\ UNCHANGED <<client_lock, inbox, exports, backups, consumed, expired, used,
                   request, command_id, native, world>>

\* Seeded fault: a write that timed out is taken for one that did not run.
TimeoutRejecting(c) ==
    /\ pc[c] = "waiting"
    /\ IF IsWrite(c) THEN Settle(c, "rejected") ELSE UNCHANGED receipts
    /\ Goto(c, "closing")
    /\ UNCHANGED <<client_lock, inbox, exports, backups, stopped, consumed,
                   expired, used, request, command_id, acknowledged, native,
                   world>>

\* Seeded fault: only a read has a deadline, a write waits for its answer.
TimeoutOfReads(c) ==
    /\ pc[c] = "waiting" /\ ~IsWrite(c)
    /\ Goto(c, "closing")
    /\ UNCHANGED <<files, request, command_id, acknowledged, native, world>>

\* LuaCommandTimeoutError.
Timeout(c) ==
    /\ pc[c] = "waiting"
    /\ Goto(c, "closing")
    /\ UNCHANGED <<files, request, command_id, acknowledged, native, world>>

\* Seeded fault: the own slot is cleared whatever became of the command.
CloseAlways(c) ==
    /\ pc[c] = "closing"
    /\ inbox' = IF inbox.id = command_id[c] THEN EmptySlot ELSE inbox
    /\ Goto(c, "unlocking")
    /\ UNCHANGED <<client_lock, receipts, exports, backups, stopped, consumed,
                   expired, used, request, command_id, acknowledged, native,
                   world>>

\* finally: the slot is cleared for an acknowledged write and for any other
\* request; an uncertain write keeps it.  Clearing touches only the own id
\* and may fail; client.lock is unlinked in either case.
Close(c) ==
    /\ pc[c] = "closing"
    /\ inbox' \in
        IF /\ inbox.id = command_id[c]
           /\ acknowledged[c] \/ ~IsWrite(c)
        THEN {inbox, EmptySlot} ELSE {inbox}
    /\ Goto(c, "unlocking")
    /\ UNCHANGED <<client_lock, receipts, exports, backups, stopped, consumed,
                   expired, used, request, command_id, acknowledged, native,
                   world>>

Unlock(c) ==
    /\ pc[c] = "unlocking"
    /\ client_lock' = None
    /\ Return(c)
    /\ UNCHANGED <<receipts, inbox, exports, backups, stopped, consumed, expired,
                   used, native, world>>

\* The process dies: its client.lock stays behind.
Crash(c) ==
    /\ pc[c] # "idle"
    /\ client_lock' = IF client_lock = c THEN Dead ELSE client_lock
    /\ Return(c)
    /\ UNCHANGED <<receipts, inbox, exports, backups, stopped, consumed, expired,
                   used, native, world>>

\* The operator removes a stale lock after confirming that no client owns it.
RemoveStaleLock ==
    /\ client_lock = Dead
    /\ client_lock' = None
    /\ UNCHANGED <<receipts, inbox, exports, backups, stopped, consumed, expired,
                   used, client, native, world>>

ClientStep(c) ==
    \/ Acquire(c) \/ Resume(c) \/ Replay(c) \/ Refuse(c) \/ Prepare(c)
    \/ Begin(c) \/ RefuseDestination(c) \/ Publish(c) \/ NotPublished(c)
    \/ SeeError(c) \/ SeeResponse(c) \/ Timeout(c) \/ Close(c) \/ Unlock(c)

-----------------------------------------------------------------------------
(* The Lua bridge.  It is one cooperative thread; between two of its calls *)
(* into Resolve the user may switch the project and deadlines may pass.    *)

\* The bundle consumes its session before the loop starts, so that a runtime
\* directory serves at most one loop.
StartBridge ==
    /\ phase = "off" /\ ~consumed /\ open # None
    /\ consumed' = TRUE
    /\ phase' = "polling"
    /\ UNCHANGED <<client_lock, receipts, inbox, exports, backups, stopped, expired,
                   used, client, packet, project, reply, handled, started, world>>

\* Seeded faults: the loop does not remember what it handled; it takes an
\* absent slot for a packet.
FreshAgain == inbox.id \notin {None} \cup expired
FreshOrAbsent == inbox.id \notin expired \cup handled

\* An unexpired id that this loop has not seen.
Fresh == inbox.id \notin {None} \cup expired \cup handled

\* The id is handled even when no project is open and nothing will answer it.
Poll ==
    /\ phase = "polling" /\ Fresh
    /\ handled' = handled \cup {inbox.id}
    /\ IF open = None
       THEN UNCHANGED <<phase, packet, project>>
       ELSE phase' = "checking" /\ packet' = inbox /\ project' = open
    /\ UNCHANGED <<files, client, reply, started, world>>

Answer(code) == phase' = "replying" /\ reply' = code

\* Reads answer from the project as it is or with an error; stop only has to
\* be exported.
AnswerRead ==
    /\ phase = "checking" /\ packet.kind \in {"read", "stop"}
    /\ \E code \in {"ok", "uncertain"} :
        /\ packet.kind = "stop" => code = "ok"
        /\ Answer(code)
    /\ UNCHANGED <<files, client, packet, project, handled, started, world>>

Admissible ==
    /\ project = packet.project
    /\ packet.kind = "edit" => items[project] <= MaxItems
    /\ packet.kind = "start_render" => project \notin started

\* Preflight: a failed check, an API error, or a failed save or backup.
RefuseWrite ==
    /\ phase = "checking" /\ packet.kind \in Writes
    /\ \E code \in {"rejected", "uncertain"} : Answer(code)
    /\ UNCHANGED <<files, client, packet, project, handled, started, world>>

\* Every check passed; SaveProject and the export of <id>.before.drp follow.
BackUp ==
    /\ phase = "checking" /\ packet.kind \in Writes /\ Admissible
    /\ backups' = backups \cup {packet.id}
    /\ phase' = "backed_up"
    /\ UNCHANGED <<client_lock, receipts, inbox, exports, stopped, consumed, expired,
                   used, client, packet, project, reply, handled, started, world>>

\* The backup may have taken long: the current project and the deadline are
\* read again.  Without a project the call on nil is an INTERNAL_ERROR.
\* quit_resolve checks its deadline first, then also that no rendering began,
\* and has nothing more to do: its acceptance is its result.
Recheck ==
    /\ phase = "backed_up"
    /\ LET late == packet.id \in expired
           quit == packet.kind = "quit_resolve"
       IN
       \/ open = None /\ ~(quit /\ late) /\ Answer("uncertain")
       \/ /\ IF open = None THEN quit /\ late
             ELSE open # packet.project \/ late \/ quit
          /\ Answer("rejected")
       \/ /\ open = packet.project /\ ~late
          /\ IF quit THEN Answer("accepted")
             ELSE phase' = "cleared" /\ UNCHANGED reply
    /\ UNCHANGED <<files, client, packet, project, handled, started, world>>

\* What an editing API call changes.  The name or path it gives was free at
\* the preflight; the user, or Resolve itself, may have made a second bearer.
Change ==
    /\ items' = [items EXCEPT ![project] = @ + 1]
    /\ twins' \in {twins, twins \cup {packet.key}}
    /\ applied' = [applied EXCEPT ![packet.key] = @ + 1]

\* Seeded fault: the result of the API call is not looked at.
EditUnchecked ==
    /\ phase = "cleared" /\ packet.kind = "edit"
    /\ Change \/ UNCHANGED <<items, twins, applied>>
    /\ phase' = "mutated"
    /\ UNCHANGED <<files, client, packet, project, reply, handled, started, open>>

\* An editing API call (CreateEmptyTimeline, DuplicateTimeline, ImportMedia,
\* AppendToTimeline): it may fail with or without an effect, and only a proper
\* result is verified further.
Edit ==
    /\ phase = "cleared" /\ packet.kind = "edit"
    /\ \/ Change /\ phase' = "mutated" /\ UNCHANGED reply
       \/ Change /\ Answer("uncertain")
       \/ UNCHANGED <<items, twins, applied>> /\ Answer("uncertain")
    /\ UNCHANGED <<files, client, packet, project, handled, started, open>>

\* The post-check repeats the listings of the preflight.  They raise the same
\* codes after the change: the listing grew too long (TIMELINE_TOO_LARGE,
\* POOL_TOO_LARGE), or it shows the new name or path twice
\* (AMBIGUOUS_TIMELINE, AMBIGUOUS_ASSET).
RepeatedCheckFails == items[project] > MaxItems \/ packet.key \in twins

\* A failed repeated check answers with its listed code; any other failure of
\* the post-check and a failed save are VERIFY_FAILED and POST_SAVE_FAILED.
\* Which edits repeat which check is left open: each may also miss it.
Verify ==
    /\ phase = "mutated"
    /\ \/ RepeatedCheckFails /\ Answer("rejected")
       \/ Answer("ok") \/ Answer("uncertain")
    /\ UNCHANGED <<files, client, packet, project, handled, started, world>>

\* start_render exports its acceptance first, because rendering blocks
\* ExportProject, and marks the job as started before it starts it.
AcceptRender ==
    /\ phase = "cleared" /\ packet.kind = "start_render"
    /\ \/ /\ exports' = exports \cup
                {[id |-> packet.id, code |-> "accepted", project |-> project]}
          /\ started' = started \cup {project}
          /\ phase' = "started" /\ UNCHANGED reply
       \/ Answer("uncertain") /\ UNCHANGED <<exports, started>>
    /\ UNCHANGED <<client_lock, receipts, inbox, backups, stopped, consumed, expired,
                   used, client, packet, project, handled, world>>

StartRendering ==
    /\ phase = "started"
    /\ \/ /\ applied' = [applied EXCEPT ![packet.key] = @ + 1]
          /\ \E code \in {"ok", "uncertain"} : Answer(code)
       \/ Answer("uncertain") /\ UNCHANGED applied
    /\ UNCHANGED <<files, client, packet, project, handled, started, open, items,
                   twins>>

AfterResponse ==
    IF packet.kind = "stop" THEN "off"
    ELSE IF packet.kind = "quit_resolve" /\ reply = "accepted" THEN "quitting"
    ELSE "polling"

\* The response is an export of the CURRENT project under the chosen suffix.
\* If it fails nothing answers the request, and neither stop nor quit happens.
Reply ==
    /\ phase = "replying"
    /\ \/ /\ open # None
          /\ exports' = exports \cup
                {[id |-> packet.id, code |-> reply, project |-> open]}
          /\ phase' = AfterResponse
       \/ phase' = "polling" /\ UNCHANGED exports
    /\ packet' = IF phase' = "quitting" THEN packet ELSE EmptySlot
    /\ project' = None /\ reply' = "ok"
    /\ UNCHANGED <<client_lock, receipts, inbox, backups, stopped, consumed, expired,
                   used, client, handled, started, world>>

\* api:Quit() is called once the acceptance is exported.
Quit ==
    /\ phase = "quitting"
    /\ applied' = [applied EXCEPT ![packet.key] = @ + 1]
    /\ phase' = "off"
    /\ packet' = EmptySlot
    /\ UNCHANGED <<files, client, project, reply, handled, started, open, items,
                   twins>>

\* The lease expired or the loop failed: it leaves between two requests.
ExitBridge ==
    /\ phase = "polling"
    /\ phase' = "off"
    /\ UNCHANGED <<files, client, packet, project, reply, handled, started, world>>

\* Resolve dies with the loop and all that it only kept in memory.
ResolveCrash ==
    /\ phase # "off"
    /\ phase' = "off" /\ packet' = EmptySlot /\ project' = None /\ reply' = "ok"
    /\ handled' = {} /\ started' = {}
    /\ UNCHANGED <<files, client, world>>

BridgeStep ==
    \/ Poll \/ AnswerRead \/ RefuseWrite \/ BackUp \/ Recheck \/ Edit \/ Verify
    \/ AcceptRender \/ StartRendering \/ Reply \/ Quit

-----------------------------------------------------------------------------
(* The environment *)

\* The user opens another project or goes back to the project manager.
SwitchProject ==
    /\ \E p \in OrNone(Projects) : p # open /\ open' = p
    /\ UNCHANGED <<files, client, native, items, twins, applied>>

\* The "expires" second of a published command passes.
Expire ==
    /\ inbox.id \notin expired \cup {None}
    /\ expired' = expired \cup {inbox.id}
    /\ UNCHANGED <<client_lock, receipts, inbox, exports, backups, stopped, consumed,
                   used, client, native, world>>

Next ==
    \/ \E c \in Clients : Enter(c) \/ ClientStep(c) \/ Crash(c)
    \/ RemoveStaleLock
    \/ StartBridge \/ BridgeStep \/ ExitBridge \/ ResolveCrash
    \/ SwitchProject \/ Expire

Spec == Init /\ [][Next]_vars

\* Every call of request() is finite: its waits are bounded by its deadline.
Fairness == \A c \in Clients : WF_vars(ClientStep(c))
LiveSpec == Spec /\ Fairness

-----------------------------------------------------------------------------
(* Safety *)

\* However often a key is submitted, retried, resumed or recovered after a
\* crash, Resolve's mutating API is called for it at most once.
AtMostOnce == \A k \in Keys : applied[k] <= 1

\* A prepared job is started at most once, whatever keys ask for it.
RenderStartedOnce ==
    \A k, l \in Keys :
        /\ receipts[k].kind = "start_render" /\ applied[k] > 0
        /\ receipts[l].kind = "start_render" /\ applied[l] > 0
        /\ receipts[k].project = receipts[l].project
        => k = l

\* However often a write is submitted, resumed or recovered, and under whatever
\* keys its render job was named, it has its effect at most once.
NoSecondEffect == AtMostOnce /\ RenderStartedOnce

\* A receipt says "completed" only of a write whose backup was exported and,
\* if it is an edit, that reached the project exactly once; a render start is
\* completed by its exported acceptance.
CompletedTookEffect ==
    \A k \in Keys : receipts[k].status = "completed" =>
        /\ receipts[k].id \in backups
        /\ receipts[k].kind = "edit" => applied[k] = 1
        /\ receipts[k].kind # "edit" =>
            \E e \in exports : e.id = receipts[k].id /\ e.code = "accepted"

\* A receipt says "rejected" of a write that reached Resolve only if the write
\* is an edit, never a render start or a quit, and a check that its post-check
\* shares with the preflight now fails: its listing is too long, or the name or
\* path that it gave is there twice.
RejectionNeedsRepeatedCheck ==
    \A k \in Keys : receipts[k].status = "rejected" /\ applied[k] > 0 =>
        /\ receipts[k].kind = "edit"
        /\ items[receipts[k].project] > MaxItems \/ k \in twins

\* A settled receipt tells the truth about the project, whichever way it was
\* settled, but for the one named way in which an edit is refused late.
ReceiptsTellTheTruth == CompletedTookEffect /\ RejectionNeedsRepeatedCheck

\* docs/lua-experimental.md: after a failed post-check the receipt stays
\* pending, only known preflight failures are recorded as rejected.
PartialEditStaysPending ==
    \A k \in Keys : receipts[k].status = "rejected" => applied[k] = 0

\* At most one write of the session has an uncertain outcome.
SinglePending ==
    \A k, l \in Keys :
        receipts[k].status = "pending" /\ receipts[l].status = "pending" => k = l

\* No step mutates a project without a durable receipt of the very command
\* that runs, still unsettled (or accepted, for a render or a quit), and
\* without its backup.
WriteAhead ==
    [][\A k \in Keys : applied'[k] # applied[k] =>
        /\ receipts[k].id = packet.id /\ packet.id \in backups
        /\ \/ receipts[k].status = "pending"
           \/ receipts[k].status = "completed" /\ receipts[k].kind # "edit"]_vars

\* A write's slot leaves the inbox only when its receipt is settled, so that
\* no later command can overtake a write whose outcome is uncertain.
UncertainSlotStays ==
    [][inbox.kind \in Writes /\ inbox' # inbox =>
        /\ receipts[inbox.key].id = inbox.id
        /\ receipts[inbox.key].status \in {"completed", "rejected"}]_vars

\* Once stopped.json exists nothing new is published.
NothingPublishedAfterStop == [][stopped /\ inbox' # inbox => inbox' = EmptySlot]_vars

\* What may happen to the slot: an uncertain write keeps it, and nothing new
\* gets into it once the session is stopped.
SlotDiscipline == UncertainSlotStays /\ NothingPublishedAfterStop

(* Liveness *)

\* Every call returns, whatever the bridge and the other clients do.
RequestsReturn == \A c \in Clients : pc[c] # "idle" ~> pc[c] = "idle"

(* Refinement: per key, a write that is submitted once, settles once and     *)
(* takes effect at most once.  A receipt that says "rejected" of a write with *)
(* an effect is mapped to an outcome of its own, so that the contract holds   *)
(* of every behaviour; RejectionNeedsRepeatedCheck says when it occurs.       *)
Meaning(status, effects) ==
    IF status = "absent" THEN "none"
    ELSE IF status = "pending" THEN "unsettled"
    ELSE IF status = "completed" THEN "done"
    ELSE IF effects = 0 THEN "refused" ELSE "misreported"
Outcome == [k \in Keys |-> Meaning(receipts[k].status, applied[k])]
Abstract == INSTANCE OnceWrites WITH outcome <- Outcome, effects <- applied
RefinesOnceWrites == Abstract!Spec
=============================================================================
