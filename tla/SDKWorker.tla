----------------------------- MODULE SDKWorker -----------------------------
(***************************************************************************)
(* The SDK worker: one process on the host that serves the canonical       *)
(* command queue through Resolve's SDK.  A command runs either in the      *)
(* worker, its SDK calls carried one at a time by a slot that a Lua loop   *)
(* in Resolve polls (SDKCommandClient, PresetSDKChannel, ResolveLuaSDK),   *)
(* or in an external process (ResolveSDKCommand), which goes on when the   *)
(* worker dies.  What a restarted worker knows is on disk: the queue,      *)
(* sdk-write-owners/<key>.json (routes), sdk-operations/<key>.json (the    *)
(* ledger), the guard in the native inbox, and the SDK slot.               *)
(*                                                                         *)
(* A call of the SDK is named by its command and its step: "read" gets     *)
(* values, "backup" saves and exports the project, "mutate" changes it,    *)
(* "verify" reads the change back, and "restore" is what a finally clause  *)
(* still calls when "mutate" failed (the timecode, the page).              *)
(***************************************************************************)
EXTENDS Naturals, Sequences, FiniteSets

CONSTANTS
    Ids,            \* command ids; a behaviour queues each at most once
    Keys,           \* idempotency keys of write commands
    Arguments,      \* what a write may ask for
    Creations,      \* those that ask for a new project
    None            \* no id, no key, no arguments, no step

\* Nothing is not an id, a key or an argument, and "none" is no key.
ASSUME NoneAssumption ==
    /\ None \notin Ids \cup Keys \cup Arguments \cup {"none"}
    /\ "none" \notin Keys

ASSUME CreationsAssumption == Creations \subseteq Arguments

VARIABLES
    \* files of the queue
    queue,          \* ids in commands/, in order of arrival
    processing,     \* ids in processing/
    response,       \* [Ids -> {"none", "success", "error"}]
    command,        \* what each id asks for
    \* records of the writes
    routes, ledger,
    \* files of the native runtime
    guard,          \* the operation that owns inbox/, None when it is free
    slot,           \* the packet in sdk-rpc/inbox
    \* the worker process
    pc, current, via, step,
    \* the external processes, by command
    external,
    \* the Lua loop: the last call it performed and the operation's scope
    lua, last, reply, scope, backup_ready,
    \* history
    claimed,        \* ids whose file was ever moved to processing/
    sent,           \* ids for which a mutating call was dispatched
    backups,        \* ids whose project backup was exported
    bare,           \* ids that found no project that could be backed up
    applied         \* per id: mutations Resolve carried out for it

files   == <<queue, processing, response, command>>
records == <<routes, ledger>>
channel == <<guard, slot>>
worker  == <<pc, current, via, step>>
native  == <<lua, last, reply, scope, backup_ready>>
history == <<claimed, sent, backups, bare, applied>>
vars    == <<files, records, channel, worker, external, native, history>>

-----------------------------------------------------------------------------

Commands == [key: {None}, args: {None}] \cup [key: Keys, args: Arguments]
NoCommand == [key |-> "none", args |-> None]

IsWrite(id) == command[id].key \in Keys
Creation(id) == command[id].args \in Creations
Key == command[current].key

\* sdk-write-owners/<key>.json
Route == [phase: {"prepared", "dispatch_started", "uncertain"},
          by: Ids, args: Arguments, answer: {"none"}]
         \cup [phase: {"completed"}, by: Ids, args: Arguments,
               answer: {"success", "error"}]
NoRoute == [phase |-> "absent", by |-> None, args |-> None, answer |-> "none"]

\* sdk-operations/<key>.json
LedgerPhases == {"absent", "dispatch_started", "completed", "uncertain"}

Steps == {"root", "read", "backup", "mutate", "restore", "verify"}
Mutating == {"backup", "mutate", "restore"}
Call == [op: Ids, step: Steps]
NoCall == [op |-> None, step |-> None]
Slots == [call: Call, expired: BOOLEAN, answer: {"none", "ok", "error"}]
EmptySlot == [call |-> NoCall, expired |-> FALSE, answer |-> "none"]

PCs == {"down", "idle", "checking", "admitted", "prepared", "guard_failed",
        "guarded", "opening", "claiming", "calling", "awaiting", "call_failed",
        "executed", "refusing", "responded", "answered", "external",
        "settling", "settled", "raising", "failing", "discarding", "retiring"}
ExternalStates == {"none", "launched", "unbound", "claimed", "backed_up",
                   "mutated", "refusing", "responded", "answered", "exited",
                   "failed"}

TypeOK ==
    /\ queue \in Seq(Ids) /\ processing \subseteq Ids
    /\ response \in [Ids -> {"none", "success", "error"}]
    /\ command \in [Ids -> Commands \cup {NoCommand}]
    /\ routes \in [Keys -> Route \cup {NoRoute}]
    /\ ledger \in [Keys -> LedgerPhases]
    /\ guard \in Ids \cup {None} /\ slot \in Slots \cup {EmptySlot}
    /\ pc \in PCs /\ current \in Ids \cup {None}
    /\ via \in {"lua", "external", "rivals"} /\ step \in Steps
    /\ external \in [Ids -> ExternalStates]
    /\ lua \in {"up", "down"} /\ last \in Call \cup {NoCall}
    /\ reply \in {"none", "ok", "error"}
    /\ scope \in Ids \cup {None} /\ backup_ready \in BOOLEAN
    /\ claimed \subseteq Ids /\ sent \subseteq Ids
    /\ backups \subseteq Ids /\ bare \subseteq Ids
    /\ applied \in [Ids -> Nat]

Init ==
    /\ queue = <<>> /\ processing = {}
    /\ response = [i \in Ids |-> "none"]
    /\ command = [i \in Ids |-> NoCommand]
    /\ routes = [k \in Keys |-> NoRoute]
    /\ ledger = [k \in Keys |-> "absent"]
    /\ guard = None /\ slot = EmptySlot
    /\ pc = "down" /\ current = None /\ via = "lua" /\ step = "root"
    /\ external = [i \in Ids |-> "none"]
    /\ lua = "up" /\ last = NoCall /\ reply = "none"
    /\ scope = None /\ backup_ready = FALSE
    /\ claimed = {} /\ sent = {} /\ backups = {} /\ bare = {}
    /\ applied = [i \in Ids |-> 0]

-----------------------------------------------------------------------------
(* The queue and the start of a command *)

Queued(id) == \E n \in DOMAIN queue : queue[n] = id

\* Its file leaves commands/; the others keep their order.
Without(id) ==
    IF ~Queued(id) THEN queue
    ELSE LET at == CHOOSE n \in DOMAIN queue : queue[n] = id
         IN [n \in 1..(Len(queue) - 1) |-> queue[IF n < at THEN n ELSE n + 1]]

Goto(label) == pc' = label /\ UNCHANGED <<current, via, step>>
Respond(id, status) == response' = [response EXCEPT ![id] = status]

\* A client, or the idle worker itself for its periodic read.
Enqueue(id) ==
    /\ command[id] = NoCommand
    /\ \E c \in Commands : command' = [command EXCEPT ![id] = c]
    /\ queue' = Append(queue, id)
    /\ UNCHANGED <<processing, response, records, channel, worker, external,
                   native, history>>

\* sdk-worker.lock admits one worker at a time.
StartWorker ==
    /\ pc = "down"
    /\ pc' = "idle" /\ current' = None /\ UNCHANGED <<via, step>>
    /\ UNCHANGED <<files, records, channel, external, native, history>>

\* The oldest command first.
Pick ==
    /\ pc = "idle" /\ queue # <<>>
    /\ current' = Head(queue) /\ pc' = "checking"
    /\ UNCHANGED <<via, step>>
    /\ UNCHANGED <<files, records, channel, external, native, history>>

\* A write that is not known to be complete stops everything, reads too.
AllRoutesSettled == \A k \in Keys : routes[k].phase \in {"absent", "completed"}

GuardSettled == \E k \in Keys : routes[k].phase = "completed" /\ routes[k].by = guard

\* No claimed command, no open route, a connected loop; a guard left by a
\* completed write is cleared, any other is not touched.
Admit ==
    /\ pc = "checking" /\ processing = {} /\ AllRoutesSettled
    /\ lua = "up"
    /\ guard = None \/ GuardSettled
    /\ guard' = None
    /\ Goto("admitted")
    /\ UNCHANGED <<files, records, slot, external, native, history>>

\* Validation, a fence, the connection, the ownership of the key or the choice
\* of the transport failed, or the route could not be written: nothing is
\* dispatched, and a route that was prepared stays so.
Refuse ==
    /\ pc \in {"checking", "admitted", "prepared", "guard_failed", "guarded"}
    /\ Goto("failing")
    /\ UNCHANGED <<files, records, channel, external, native, history>>

\* A completed route answers a repeated request; other arguments are refused.
Replay ==
    /\ pc = "admitted" /\ IsWrite(current) /\ routes[Key].phase = "completed"
    /\ routes[Key].args = command[current].args
    /\ Respond(current, routes[Key].answer)
    /\ queue' = Without(current)
    /\ Goto("idle")
    /\ UNCHANGED <<processing, command, records, channel, external, native,
                   history>>

\* The key's record exists before anything else of the write.
PrepareRoute ==
    /\ pc = "admitted" /\ IsWrite(current) /\ routes[Key].phase = "absent"
    /\ routes' = [routes EXCEPT ![Key] = [phase |-> "prepared", by |-> current,
            args |-> command[current].args, answer |-> "none"]]
    /\ \E v \in {"lua", "external"} : via' = v
    /\ pc' = "prepared" /\ UNCHANGED <<current, step>>
    /\ UNCHANGED <<files, ledger, channel, external, native, history>>

SetRoute(phase, answer) ==
    routes' = [routes EXCEPT ![Key].phase = phase, ![Key].answer = answer]

\* The guard keeps every other writer of the runtime out of its inbox.
PublishGuard ==
    /\ pc = "prepared"
    /\ \/ guard' = current /\ Goto("guarded") /\ UNCHANGED <<queue, response>>
       \/ /\ Respond(current, "error") /\ queue' = Without(current)
          /\ Goto("guard_failed") /\ UNCHANGED guard
    /\ UNCHANGED <<processing, command, records, slot, external, native, history>>

\* Nothing was dispatched: the route is completed with the rejection.
SettleUndispatched ==
    /\ pc = "guard_failed"
    /\ SetRoute("completed", "error")
    /\ Goto("idle")
    /\ UNCHANGED <<files, ledger, channel, external, native, history>>

Launch == IF via = "external" THEN "launched" ELSE external[current]

\* Seeded fault: the route is not brought up to date.
DispatchUnrecorded ==
    /\ pc = "guarded"
    /\ external' = [external EXCEPT ![current] = Launch]
    /\ Goto(IF via = "external" THEN "external" ELSE "opening")
    /\ UNCHANGED <<files, records, channel, native, history>>

\* The route says so before anything is dispatched.
Dispatch ==
    /\ pc = "guarded"
    /\ SetRoute("dispatch_started", "none")
    /\ external' = [external EXCEPT ![current] = Launch]
    /\ Goto(IF via = "external" THEN "external" ELSE "opening")
    /\ UNCHANGED <<files, ledger, channel, native, history>>

Alone == external[current] \in {"none", "unbound", "failed"}

\* A read has no route.  An external process of an earlier worker may still
\* be about to serve the same read: then only one of the two gets the file.
DispatchRead ==
    /\ pc = "admitted" /\ ~IsWrite(current)
    /\ \/ via' = "lua" /\ pc' = "claiming" /\ UNCHANGED external
       \/ /\ via' = IF Alone THEN "external" ELSE "rivals"
          /\ pc' = "external"
          /\ external' = [external EXCEPT ![current] =
                IF Alone THEN "launched" ELSE @]
    /\ UNCHANGED <<current, step>>
    /\ UNCHANGED <<files, records, channel, native, history>>

-----------------------------------------------------------------------------
(* The command in the worker: SDKCommandClient over the SDK slot *)

OpenLedger ==
    /\ pc = "opening"
    /\ ledger' = [ledger EXCEPT ![Key] = "dispatch_started"]
    /\ Goto("claiming")
    /\ UNCHANGED <<files, routes, channel, external, native, history>>

ClaimCommand ==
    /\ pc = "claiming" /\ Queued(current)
    /\ queue' = Without(current)
    /\ processing' = processing \cup {current}
    /\ claimed' = claimed \cup {current}
    /\ pc' = "calling" /\ step' = "root" /\ UNCHANGED <<current, via>>
    /\ UNCHANGED <<response, command, records, channel, external, native, sent,
                   backups, bare, applied>>

\* _recover_expired_read: the packet of a read whose time is over.
SlotRecoverable ==
    slot.call.op # None /\ slot.expired /\ ~IsWrite(slot.call.op)

Counted == IF step \in Mutating THEN sent \cup {current} ELSE sent

\* One call at a time; a mutation is counted before it is sent.
PublishCall ==
    /\ pc = "calling"
    /\ slot = EmptySlot \/ SlotRecoverable
    /\ slot' = [call |-> [op |-> current, step |-> step], expired |-> FALSE,
                answer |-> "none"]
    /\ sent' = Counted
    /\ Goto("awaiting")
    /\ UNCHANGED <<files, records, guard, external, native, claimed, backups,
                   bare, applied>>

\* The slot is busy, a trace cannot be written, or the deadline passes while
\* the packet stays where it is.
CallFails ==
    /\ pc \in {"calling", "awaiting"}
    /\ sent' = Counted
    /\ Goto("call_failed")
    /\ UNCHANGED <<files, records, channel, external, native, claimed, backups,
                   bare, applied>>

\* What may follow a successful call.  A creation that finds no project but the
\* untitled placeholder goes without a backup.
Following ==
    CASE step = "root" /\ ~IsWrite(current) -> {"read"}
      [] step = "root" /\ Creation(current) -> {"backup", "mutate"}
      [] step = "root" /\ IsWrite(current) /\ ~Creation(current) -> {"backup"}
      [] step = "backup" -> {"mutate"}
      [] OTHER -> {"verify"}

\* The answer is taken and the slot cleared.
ReceiveReply ==
    /\ pc = "awaiting" /\ slot.call = [op |-> current, step |-> step]
    /\ slot.answer # "none"
    /\ slot' = EmptySlot
    /\ UNCHANGED <<current, via>>
    /\ \/ slot.answer = "error" /\ pc' = "call_failed" /\ UNCHANGED step
       \/ /\ slot.answer = "ok" /\ step \in {"read", "verify"}
          /\ pc' = "executed" /\ UNCHANGED step
       \/ slot.answer = "ok" /\ step = "restore" /\ pc' = "call_failed" /\ UNCHANGED step
       \/ /\ slot.answer = "ok" /\ step \notin {"read", "restore", "verify"}
          /\ pc' = "calling" /\ step' \in Following
    /\ UNCHANGED <<files, records, guard, external, native, history>>

\* The handler turns a failed call into an error response, or lets it through;
\* the very first call is made outside of any handler.  The finally clause of
\* a failed change makes one more call, whatever became of the last packet.
HandleFailure ==
    /\ pc = "call_failed"
    /\ \/ step # "root" /\ Goto("refusing")
       \/ Goto("raising")
       \/ /\ step = "mutate"
          /\ pc' = "calling" /\ step' = "restore" /\ UNCHANGED <<current, via>>
    /\ UNCHANGED <<files, records, channel, external, native, history>>

\* A check of the handler fails without another call.
HandlerRefuses ==
    /\ \/ pc = "calling" /\ step # "root"
       \/ pc = "executed" /\ IsWrite(current)
    /\ Goto("refusing")
    /\ UNCHANGED <<files, records, channel, external, native, history>>

Answer ==
    /\ \/ pc = "refusing" /\ Respond(current, "error")
       \/ pc = "executed" /\ Respond(current, "success")
    /\ Goto("responded")
    /\ UNCHANGED <<queue, processing, command, records, channel, external, native,
                   history>>

\* The claimed file goes.  If it cannot be removed, the exception replaces a
\* success by an error, and leaves the handler if the error was answered.
LeaveProcessing ==
    /\ pc = "responded"
    /\ \/ processing' = processing \ {current} /\ Goto("answered")
       \/ /\ Goto(IF response[current] = "success" THEN "refusing" ELSE "raising")
          /\ UNCHANGED processing
    /\ UNCHANGED <<queue, response, command, records, channel, external, native,
                   history>>

\* Seeded fault: whatever was sent before, an error response is final.
OutcomeAssumed == TRUE

\* A refusal after a mutating call is not known to be one.
OutcomeKnown == response[current] = "success" \/ current \notin sent

\* The ledger of a write is completed once its outcome is known; if that
\* cannot be written, the outcome counts as unknown.
Conclude ==
    /\ pc = "answered"
    /\ \/ ~IsWrite(current) /\ Goto("idle") /\ UNCHANGED ledger
       \/ /\ IsWrite(current) /\ OutcomeKnown
          /\ ledger' = [ledger EXCEPT ![Key] = "completed"] /\ Goto("settling")
       \/ IsWrite(current) /\ Goto("raising") /\ UNCHANGED ledger
    /\ UNCHANGED <<files, routes, channel, external, native, history>>

-----------------------------------------------------------------------------
(* The end of a command in the worker *)

\* Seeded fault: the exit code is not looked at.
ExternalEnds ==
    /\ pc = "external" /\ external[current] \in {"exited", "failed"}
    /\ Goto(IF ~IsWrite(current) THEN "idle"
            ELSE IF OutcomeKnown THEN "settling" ELSE "raising")
    /\ UNCHANGED <<files, records, channel, external, native, history>>

\* The external process has exited; its response and its trace are read.
ExternalExits ==
    /\ pc = "external" /\ external[current] = "exited"
    /\ Goto(IF ~IsWrite(current) THEN "idle"
            ELSE IF OutcomeKnown THEN "settling" ELSE "raising")
    /\ UNCHANGED <<files, records, channel, external, native, history>>

\* A non-zero exit code of whatever cause, or it lost the command to an earlier process; the
\* process could not be started, the lease not be renewed, the ledger not be
\* written.
DispatchFails ==
    /\ \/ pc = "external" /\ external[current] \in {"unbound", "failed"}
       \/ pc = "external" /\ via = "rivals"
       \/ pc \in {"opening", "claiming"}
    /\ Goto("raising")
    /\ UNCHANGED <<files, records, channel, external, native, history>>

\* If the record cannot be written, it stays as it was.
SettleRoute ==
    /\ pc = "settling"
    /\ \/ SetRoute("completed", response[current]) /\ Goto("settled")
       \/ UNCHANGED routes /\ Goto("failing")
    /\ UNCHANGED <<files, ledger, channel, external, native, history>>

\* Clearing may fail; the next command then finds a settled guard.
ClearGuard ==
    /\ pc = "settled"
    /\ guard' \in {None, guard}
    /\ Goto("idle")
    /\ UNCHANGED <<files, records, slot, external, native, history>>

Doubted(phase) == IF phase = "absent" THEN phase ELSE "uncertain"

\* Seeded fault: the guard is released in any case.
RaiseReleasing ==
    /\ pc = "raising"
    /\ IF IsWrite(current) THEN SetRoute("uncertain", "none") ELSE UNCHANGED routes
    /\ guard' = None
    /\ Goto("failing")
    /\ UNCHANGED <<files, ledger, slot, external, native, history>>

\* Ledger and route of a write become uncertain, unless one of them cannot be
\* written; slot and guard stay.
Raise ==
    /\ pc = "raising"
    /\ IF IsWrite(current)
       THEN /\ SetRoute("uncertain", "none") \/ UNCHANGED routes
            /\ ledger' \in {ledger, [ledger EXCEPT ![Key] = Doubted(@)]}
       ELSE UNCHANGED records
    /\ Goto("failing")
    /\ UNCHANGED <<files, channel, external, native, history>>

\* run(): the exception becomes an error response, wherever the file is now ...
ReportFailure ==
    /\ pc = "failing"
    /\ \/ Queued(current) /\ Respond(current, "error") /\ Goto("discarding")
       \/ /\ ~Queued(current) /\ current \in processing
          /\ Respond(current, "error") /\ Goto("retiring")
       \/ /\ ~Queued(current) /\ current \notin processing
          /\ Goto("idle") /\ UNCHANGED response
    /\ UNCHANGED <<queue, processing, command, records, channel, external, native,
                   history>>

\* ... and the file is moved to failed/.  If an external process took it in
\* between, the exception leaves run() and ends the worker.
MoveToFailed ==
    /\ \/ /\ pc = "discarding" /\ Queued(current)
          /\ queue' = Without(current) /\ Goto("idle") /\ UNCHANGED processing
       \/ /\ pc = "retiring" /\ current \in processing
          /\ processing' = processing \ {current} /\ Goto("idle") /\ UNCHANGED queue
       \/ /\ \/ pc = "discarding" /\ ~Queued(current)
             \/ pc = "retiring" /\ current \notin processing
          /\ Goto("down") /\ UNCHANGED <<queue, processing>>
    /\ UNCHANGED <<response, command, records, channel, external, native, history>>

WorkerStep ==
    \/ Pick \/ Admit \/ Refuse \/ Replay \/ PrepareRoute \/ PublishGuard
    \/ SettleUndispatched \/ Dispatch \/ DispatchRead \/ OpenLedger
    \/ ClaimCommand \/ PublishCall \/ CallFails \/ ReceiveReply \/ HandleFailure
    \/ HandlerRefuses \/ Answer \/ LeaveProcessing \/ Conclude
    \/ ExternalExits \/ DispatchFails \/ SettleRoute \/ ClearGuard \/ Raise
    \/ ReportFailure \/ MoveToFailed

\* The host process dies.  External processes do not.
WorkerCrash ==
    /\ pc # "down"
    /\ pc' = "down" /\ current' = None /\ UNCHANGED <<via, step>>
    /\ UNCHANGED <<files, records, channel, external, native, history>>

-----------------------------------------------------------------------------
(* The external process of one command *)

External(id, label) == external' = [external EXCEPT ![id] = label]

\* No Resolve, or another project than the worker saw: codes 3 and 4, with
\* nothing touched.
ExternalUnbound(id) ==
    /\ external[id] = "launched"
    /\ External(id, "unbound")
    /\ UNCHANGED <<files, records, channel, worker, native, history>>

\* It found the expected project and took the command.
ExternalClaim(id) ==
    /\ external[id] = "launched" /\ Queued(id)
    /\ queue' = Without(id)
    /\ processing' = processing \cup {id}
    /\ claimed' = claimed \cup {id}
    /\ External(id, "claimed")
    /\ UNCHANGED <<response, command, records, channel, worker, native, sent,
                   backups, bare, applied>>

ExternalBackup(id) ==
    /\ external[id] = "claimed" /\ IsWrite(id)
    /\ sent' = sent \cup {id}
    /\ \/ backups' = backups \cup {id} /\ External(id, "backed_up")
       \/ External(id, "refusing") /\ UNCHANGED backups
    /\ UNCHANGED <<files, records, channel, worker, native, claimed, bare, applied>>

\* No project, or the empty placeholder: there is nothing to back up.
ExternalSkipBackup(id) ==
    /\ external[id] = "claimed" /\ IsWrite(id) /\ Creation(id)
    /\ bare' = bare \cup {id}
    /\ External(id, "backed_up")
    /\ UNCHANGED <<files, records, channel, worker, native, claimed, sent, backups,
                   applied>>

ExternalMutate(id) ==
    /\ external[id] = "backed_up"
    /\ sent' = sent \cup {id}
    /\ \E done \in {0, 1}, verified \in BOOLEAN :
        /\ verified => done = 1
        /\ applied' = [applied EXCEPT ![id] = @ + done]
        /\ External(id, IF verified THEN "mutated" ELSE "refusing")
    /\ UNCHANGED <<files, records, channel, worker, native, claimed, backups, bare>>

\* process_command_file answers ...
ExternalAnswer(id) ==
    /\ \/ external[id] = "mutated" /\ Respond(id, "success")
       \/ external[id] = "claimed" /\ ~IsWrite(id) /\ Respond(id, "success")
       \/ external[id] \in {"claimed", "refusing"} /\ Respond(id, "error")
    /\ External(id, "responded")
    /\ UNCHANGED <<queue, processing, command, records, channel, worker, native,
                   history>>

\* ... and removes the claimed file, or replaces a success by an error.
ExternalLeave(id) ==
    /\ external[id] = "responded"
    /\ \/ processing' = processing \ {id} /\ External(id, "answered")
       \/ /\ response[id] = "success" /\ External(id, "refusing")
          /\ UNCHANGED processing
    /\ UNCHANGED <<queue, response, command, records, channel, worker, native,
                   history>>

\* The trace <id>.sdk.json tells whether a mutation was sent.
ExternalExit(id) ==
    /\ external[id] = "answered"
    /\ External(id, "exited")
    /\ UNCHANGED <<files, records, channel, worker, native, history>>

\* An exception or its death ends it with another code.
ExternalDies(id) ==
    /\ external[id] \notin {"none", "unbound", "exited", "failed"}
    /\ External(id, "failed")
    /\ UNCHANGED <<files, records, channel, worker, native, history>>

ExternalStep(id) ==
    \/ ExternalUnbound(id) \/ ExternalClaim(id) \/ ExternalBackup(id)
    \/ ExternalSkipBackup(id) \/ ExternalMutate(id) \/ ExternalAnswer(id) \/ ExternalLeave(id)
    \/ ExternalExit(id) \/ ExternalDies(id)

-----------------------------------------------------------------------------
(* The Lua loop *)

\* Seeded fault: a call is performed whenever its packet is seen.
PerformAgain == slot.answer = "none"
NotPerformed == last # slot.call

\* A call is performed once, however often its packet is polled; one that
\* takes its time is done when it begins, in time.  A new
\* operation opens a new scope; a mutation needs the scope's own backup, or is the
\* creation of a project that the loop itself finds nothing to back up for.
Perform ==
    /\ lua = "up" /\ slot # EmptySlot /\ ~slot.expired /\ NotPerformed
    /\ last' = slot.call
    /\ scope' = slot.call.op
    /\ LET op == slot.call.op
           ready == scope = op /\ backup_ready
           empty == scope = op /\ ~backup_ready /\ Creation(op)
       IN \/ /\ reply' = "error"
             /\ backup_ready' = ready /\ UNCHANGED <<backups, bare, applied>>
          \/ /\ slot.call.step \notin {"backup", "mutate"}
             /\ reply' = "ok"
             /\ backup_ready' = ready /\ UNCHANGED <<backups, bare, applied>>
          \/ /\ slot.call.step = "backup"
             /\ reply' = "ok" /\ backup_ready' = TRUE
             /\ backups' = backups \cup {op} /\ UNCHANGED <<bare, applied>>
          \/ /\ slot.call.step = "mutate" /\ (ready \/ empty)
             /\ bare' = IF ready THEN bare ELSE bare \cup {op}
             /\ reply' \in {"ok", "error"}
             /\ backup_ready' = ready
             /\ applied' = [applied EXCEPT ![op] = @ + 1] /\ UNCHANGED backups
    /\ UNCHANGED <<files, records, channel, worker, external, lua, claimed, sent>>

\* The reply is exported, at a later poll if an export failed.
ExportReply ==
    /\ lua = "up" /\ last = slot.call /\ ~slot.expired
    /\ slot # EmptySlot /\ slot.answer = "none"
    /\ slot' = [slot EXCEPT !.answer = reply]
    /\ UNCHANGED <<files, records, guard, worker, external, native, history>>

\* Resolve dies and with it what the loop only kept in memory.
NativeCrash ==
    /\ lua = "up"
    /\ lua' = "down" /\ last' = NoCall /\ reply' = "none"
    /\ scope' = None /\ backup_ready' = FALSE
    /\ UNCHANGED <<files, records, channel, worker, external, history>>

\* _audit_rotation: a new generation, with a runtime of its own, is prepared
\* only if every route is complete and both slots of the old one are free or
\* can be freed.  operation.lock keeps it apart from a dispatch.
NewGeneration ==
    /\ lua = "down" /\ pc \in {"down", "idle", "checking"}
    /\ AllRoutesSettled /\ guard = None
    /\ slot = EmptySlot \/ SlotRecoverable
    /\ lua' = "up" /\ slot' = EmptySlot
    /\ UNCHANGED <<files, records, guard, worker, external, last, reply, scope,
                   backup_ready, history>>

\* The "expires" second of the packet passes.
Expire ==
    /\ slot # EmptySlot /\ ~slot.expired
    /\ slot' = [slot EXCEPT !.expired = TRUE]
    /\ UNCHANGED <<files, records, guard, worker, external, native, history>>

-----------------------------------------------------------------------------

Next ==
    \/ \E id \in Ids : Enqueue(id) \/ ExternalStep(id)
    \/ StartWorker \/ WorkerStep \/ WorkerCrash
    \/ Perform \/ ExportReply \/ NativeCrash \/ NewGeneration \/ Expire

Spec == Init /\ [][Next]_vars

-----------------------------------------------------------------------------
(* Safety *)

\* Whatever dies and is restarted in whatever phase, and however often a key
\* is submitted, Resolve is changed for the key by one command, once.
MutatedOncePerKey ==
    /\ \A i \in Ids : applied[i] <= 1
    /\ \A i, j \in Ids :
        /\ applied[i] > 0 /\ applied[j] > 0
        /\ command[i].key = command[j].key
        => i = j

\* A backup is behind the command, or it is a creation that found nothing to
\* back up.
Secured(id) == id \in backups \/ (id \in bare /\ Creation(id))

\* A completed route tells the truth for good: a success was carried out with
\* a backup, unless it created a project where there was none that could be
\* backed up; an error left the project alone and no late call will change it.
\* And a client that reads "success" for a write gets the outcome of a change
\* that was made for its key with its arguments.
CompletedRouteIsTrue ==
    /\ \A k \in Keys : routes[k].phase = "completed" =>
          IF routes[k].answer = "success"
          THEN applied[routes[k].by] = 1 /\ Secured(routes[k].by)
          ELSE applied[routes[k].by] = 0
    /\ \A id \in Ids : IsWrite(id) /\ response[id] = "success" =>
          \E other \in Ids : command[other] = command[id] /\ applied[other] = 1

\* Resolve is changed only for the command that the key's route names, while
\* that route says so, with no other write open, and with its backup, unless it
\* creates a project where there is nothing to back up.
MutationUnderOpenRoute ==
    [][\A id \in Ids : applied'[id] # applied[id] =>
        /\ routes[command[id].key].by = id
        /\ id \in backups \/ (id \in bare' /\ Creation(id))
        /\ \A k \in Keys :
            routes[k].phase \in {"dispatch_started", "uncertain"}
                <=> k = command[id].key]_vars

\* A guard goes only when its write is completed, also across crashes and new
\* generations: a write of unknown outcome keeps the runtime's inbox closed to
\* other writers.
GuardOutlivesDoubt ==
    [][guard # None /\ guard' # guard =>
        \E k \in Keys : routes[k].phase = "completed" /\ routes[k].by = guard]_vars

\* preset_channel.py: write scopes remain fenced.  The packet of a write is
\* never taken back or overwritten before it was answered, however late that is.
UnansweredWriteStays ==
    [][slot.call.op # None /\ IsWrite(slot.call.op) /\ slot.answer = "none"
        => slot'.call = slot.call]_vars

\* What is in doubt stays where later writers find it: its guard in the inbox of
\* the runtime, its packet in the slot of the channel.
DoubtIsKept == GuardOutlivesDoubt /\ UnansweredWriteStays

\* sdk_worker.py: a known pre-dispatch failure must not poison every later
\* read and write as an uncertain native operation; and an external process
\* that did not bind has made no queue claim, backup or native mutation.
UnboundDoesNotPoison ==
    \A k \in Keys :
        routes[k].phase = "uncertain" => external[routes[k].by] # "unbound"
=============================================================================
