------------------------- MODULE ProjectLifecycle -------------------------
(***************************************************************************)
(* The host services of managed mode over ManagedHost: opening an existing *)
(* project once (project_open_service.py), connecting on demand with an    *)
(* automatic open of the last project (automatic_connection.py), creating  *)
(* a project once (project_create_service.py) and closing one              *)
(* (sdk_worker.py, project_close_state.py, project_close_recovery.py).     *)
(*                                                                         *)
(* Every wait has a deadline in the code; here a waiting call may give up  *)
(* at any step.  Arguments of a key do not change: a key stands for one    *)
(* request that may be repeated.                                           *)
(***************************************************************************)
EXTENDS ManagedHost

-----------------------------------------------------------------------------
(* Open service: open_existing *)

Receipt(a) == opens[call[a].key]

\* What the call saw before its dispatch is not used after it.
Forget(a) ==
    call' = [call EXCEPT ![a] = [NoCall EXCEPT !.key = call[a].key, !.tries = call[a].tries]]

\* The error or the result goes back to the caller: an explicit open is over,
\* an automatic one goes on in _open.
Leave(a) ==
    IF a \in Autos
    THEN /\ holder' = [Released(a) EXCEPT !.connection = a]
         /\ Goto(a, "auto_next") /\ Forget(a)
    ELSE Return(a)

Save(a, receipt) == opens' = [opens EXCEPT ![call[a].key] = receipt]

\* The flow of one open is serialised; a second caller gets OPERATION_BUSY.
BeginOpen(a) ==
    /\ a \in Openers /\ pc[a] = "idle" /\ Free("project_open")
    /\ Held("project_open", a) /\ Goto(a, "open_begin")
    /\ \E mode \in {"plain", "recover", "retry"} :
        call' = [call EXCEPT ![a].key = a, ![a].mode = mode]
    /\ UNCHANGED <<working, environment, journal, writes, services, history>>

\* The first section under operation.lock decides what the key may still do.
OtherOpenPending(key) ==
    \E other \in OpenKeys \ {key} : opens[other].status \in PendingStatuses

NextOfOpen(a) ==
    LET status == Receipt(a).status  mode == call[a].mode IN
    IF \/ intent.phase = "pending" \/ OtherOpenPending(call[a].key)
       \/ status = "completed"
       \/ status = "rejected" /\ mode # "retry"
       \/ status \in PendingStatuses /\ mode = "retry"
       \/ status = "none" /\ ~(mode = "plain" /\ NativeClear)
    THEN "leave"
    ELSE CASE status = "none" -> "open_inspect"
           [] status = "rejected" -> "open_retry"
           [] status \in PendingStatuses ->
                IF mode = "recover" THEN "open_recover" ELSE "open_wait"

Begin(a) ==
    /\ pc[a] = "open_begin" /\ Free("operation")
    /\ IF NextOfOpen(a) = "leave" THEN Leave(a)
       ELSE Goto(a, NextOfOpen(a)) /\ UNCHANGED <<holder, call>>
    /\ UNCHANGED <<working, environment, journal, writes, services, history>>

\* What the UI shows is read without a lock and used under the next one.
See(a) ==
    call' = [call EXCEPT ![a].process = host.process, ![a].manager = InManager]

InspectOpen(a) ==
    /\ pc[a] = "open_inspect"
    /\ IF Running THEN See(a) /\ Goto(a, "open_prepare") /\ UNCHANGED holder
       ELSE Leave(a)
    /\ UNCHANGED <<working, environment, journal, writes, services, history>>

\* _retry_preflight: only a refusal that came before any open, in the same
\* process of Resolve, with its Project Manager in front again.
RetryOpen(a) ==
    /\ pc[a] = "open_retry" /\ Free("operation")
    /\ IF /\ Receipt(a).why = "window" /\ NativeClear
          /\ InManager /\ host.process = Receipt(a).process
       THEN See(a) /\ Goto(a, "open_prepare") /\ UNCHANGED holder
       ELSE Leave(a)
    /\ UNCHANGED <<working, environment, journal, writes, services, history>>

\* Seeded fault in RecoverOpen: the original process may still be there.
RecoverAnyway(a) ==
    /\ pc[a] = "open_recover" /\ Free("operation")
    /\ IF InWindow \/ ~NativeClear \/ ~Free("connection")
       THEN Leave(a)
       ELSE /\ holder' = [holder EXCEPT !.operation = a, !.connection = a]
            /\ Goto(a, "open_startup") /\ UNCHANGED call
    /\ UNCHANGED <<working, environment, journal, writes, services, history>>

\* _recover_exited: the original process must be gone; then Resolve is started
\* under operation.lock and connection.lock.
RecoverOpen(a) ==
    /\ pc[a] = "open_recover" /\ Free("operation")
    /\ IF Running /\ host.process = Receipt(a).process
       THEN Goto(a, "open_wait") /\ UNCHANGED <<holder, call>>
       ELSE IF InWindow \/ ~NativeClear \/ ~Free("connection")
       THEN Leave(a)
       ELSE /\ holder' = [holder EXCEPT !.operation = a, !.connection = a]
            /\ Goto(a, "open_startup") /\ UNCHANGED call
    /\ UNCHANGED <<working, environment, journal, writes, services, history>>

\* await_project_window: launches at most once, and never adopts a process that
\* replaced the one it saw.
LaunchOnce(a) ==
    /\ call[a].process = 0 /\ Launch
    /\ call' = [call EXCEPT ![a].process = started + 1]
    /\ UNCHANGED <<holder, pc>>

SameStart(a) == Running /\ call[a].process \in {0, host.process}

\* The locks are released with the candidate in memory: no receipt changed.
StartUp(a) ==
    /\ pc[a] = "open_startup"
    /\ \/ LaunchOnce(a)
       \/ /\ SameStart(a) /\ host.project \in {"none", "saved"}
          /\ call' = [call EXCEPT ![a].process = host.process,
                                  ![a].manager = InManager, ![a].attach = InWindow]
          /\ holder' = [holder EXCEPT !.operation = None, !.connection = None]
          /\ Goto(a, "open_prepare") /\ UNCHANGED <<host, started, loops>>
       \/ Leave(a) /\ UNCHANGED <<host, started, loops>>
    /\ UNCHANGED <<working, exited, journal, writes, services, history>>

ConnectedTo(process) == active.phase = "connected" /\ active.process = process

Completed(a) ==
    [status |-> "completed", process |-> call[a].process, bound |-> active.generation,
     why |-> "none"]

\* The second section: attach to the connected project, refuse, or record the
\* dispatch before it is made.
PrepareOpen(a) ==
    /\ pc[a] = "open_prepare" /\ Free("operation")
    /\ \/ /\ \/ ~NativeClear
             \/ ~ConnectedTo(call[a].process) /\ ~call[a].attach /\ ~call[a].manager
          /\ Leave(a) /\ UNCHANGED opens
       \/ /\ NativeClear /\ ConnectedTo(call[a].process) /\ Verified("saved")
          /\ Save(a, Completed(a))
          /\ Held("operation", a) /\ Goto(a, "open_release") /\ UNCHANGED call
       \/ /\ NativeClear /\ ConnectedTo(call[a].process)
          /\ Save(a, [status |-> "rejected", process |-> call[a].process,
                      bound |-> 0, why |-> "other"])
          /\ Leave(a)
       \/ /\ NativeClear /\ ~ConnectedTo(call[a].process)
          /\ call[a].attach \/ call[a].manager
          /\ LET status == IF call[a].attach THEN "awaiting_native"
                           ELSE "dispatch_started" IN
             Save(a, [status |-> status, process |-> call[a].process,
                      bound |-> 0, why |-> "none"])
          /\ Goto(a, IF call[a].attach THEN "open_wait" ELSE "open_invoke")
          /\ UNCHANGED <<holder, call>>
    /\ UNCHANGED <<working, environment, journal, writes, creation, routes, intent,
                   history>>

\* The driver checks the window again and selects the project, or is certain
\* that it requested nothing, or does not know.
UiOpen(a) ==
    /\ pc[a] = "open_invoke"
    /\ \/ /\ InManager /\ host.process = call[a].process
          /\ host' = [host EXCEPT !.project = "saved"] /\ shut' = FALSE
          /\ sent' = [sent EXCEPT ![call[a].key][call[a].process] = @ + 1]
          /\ Goto(a, "open_sent")
       \/ /\ sent' = [sent EXCEPT ![call[a].key][call[a].process] = @ + 1]
          /\ Goto(a, "open_sent") /\ UNCHANGED <<host, shut>>
       \/ Goto(a, "open_refused") /\ UNCHANGED <<host, shut, sent>>
    /\ UNCHANGED <<working, started, loops, exited, journal, writes, services,
                   holder, call, invoked, created, closed>>

\* Only a cause that the caller may try again is told apart from the others.
RetryCauses(a) ==
    IF a \notin Autos THEN {"window"}
    ELSE IF call[a].tries + 1 < Tries[a] THEN {"transient"} ELSE {}

\* _persist_rejected waits for operation.lock, or leaves the dispatch on record.
PersistRejected(a) ==
    /\ pc[a] = "open_refused"
    /\ \/ /\ Free("operation")
          /\ \E why \in RetryCauses(a) \cup {"other"} :
                Save(a, [Receipt(a) EXCEPT !.status = "rejected", !.why = why])
       \/ ~Free("operation") /\ UNCHANGED opens
    /\ Leave(a)
    /\ UNCHANGED <<working, environment, journal, writes, creation, routes, intent,
                   history>>

\* awaiting_native is saved if the lock is free at that moment.
PersistSent(a) ==
    /\ pc[a] = "open_sent"
    /\ IF Free("operation")
       THEN Save(a, [Receipt(a) EXCEPT !.status = "awaiting_native"])
       ELSE UNCHANGED opens
    /\ Goto(a, "open_wait") /\ Forget(a)
    /\ UNCHANGED <<working, environment, journal, writes, creation, routes, intent,
                   holder, history>>

\* The receipt is bound to a session that another one has replaced since.
Rebound(receipt) ==
    active.phase = "connected" /\ receipt.bound \notin {0, active.generation}

\* _wait: one round, which may end in an error or in the next round.  The watcher
\* or an own tick connects the process.
WaitOpen(a) ==
    /\ pc[a] = "open_wait"
    /\ LET receipt == Receipt(a) IN
       \/ /\ \/ host.process # receipt.process
             \/ Free("operation") /\ Rebound(receipt)
          /\ Leave(a) /\ UNCHANGED opens
       \/ /\ Free("operation") /\ ConnectedTo(receipt.process)
          /\ receipt.bound \in {0, active.generation}
          /\ \/ /\ Verified("saved")
                /\ Save(a, [receipt EXCEPT !.status = "completed",
                                           !.bound = active.generation])
                /\ Held("operation", a) /\ Goto(a, "open_release")
                /\ UNCHANGED call
             \/ /\ Save(a, [receipt EXCEPT !.status = "awaiting_native",
                                           !.bound = active.generation])
                /\ Leave(a) \/ UNCHANGED local
    /\ UNCHANGED <<working, environment, journal, writes, creation, routes, intent,
                   history>>

\* explicit_open_completed, after the receipt and still under operation.lock.
ReleaseHold(a) ==
    /\ pc[a] = "open_release"
    /\ intent' = IF intent.phase = "closed" THEN [phase |-> "none", by |-> None]
                 ELSE intent
    /\ Leave(a)
    /\ UNCHANGED <<working, environment, journal, writes, opens, creation, routes,
                   history>>

\* The deadline of a call passes while it waits for a lock or for Resolve.
GiveUp(a) ==
    /\ pc[a] \in {"open_begin", "open_prepare", "open_wait"}
    /\ Leave(a)
    /\ UNCHANGED <<working, environment, journal, writes, services, history>>

OpenStep(a) ==
    \/ BeginOpen(a) \/ Begin(a) \/ InspectOpen(a) \/ RetryOpen(a) \/ RecoverOpen(a)
    \/ StartUp(a) \/ PrepareOpen(a) \/ UiOpen(a) \/ PersistRejected(a)
    \/ PersistSent(a) \/ WaitOpen(a) \/ ReleaseHold(a) \/ GiveUp(a)

-----------------------------------------------------------------------------
(* Automatic connection: ensure and _open *)

\* An automatic open must not follow a close that the user asked for.
AutoBegin(a) ==
    /\ pc[a] = "idle" /\ ~PendingCreation /\ intent.phase # "pending"
    /\ intent.phase = "none" \/ InWindow
    /\ Free("connection") /\ Held("connection", a) /\ Goto(a, "auto_look")
    /\ UNCHANGED <<working, environment, journal, writes, services, call, history>>

\* Without a project the intent is read again, after the host was inspected.
AutoLook(a) ==
    /\ pc[a] = "auto_look"
    /\ \/ intent.phase = "none" /\ Launch /\ Return(a)
       \/ /\ intent.phase = "none" /\ InManager
          /\ See(a) /\ Goto(a, "auto_open")
          /\ UNCHANGED <<host, started, loops, holder>>
       \/ /\ intent.phase # "none" \/ InWindow
          /\ Return(a) /\ UNCHANGED <<host, started, loops>>
    /\ UNCHANGED <<working, exited, journal, writes, services, history>>

\* A connected session without an SDK channel, or one whose loop has exited, is
\* replaced in the same process after its loop left an exit record.
AutoRotate(a) ==
    /\ pc[a] = "auto_look" /\ InWindow /\ SameProcess /\ Free("operation")
    /\ active.phase = "connected" \/ exited
    /\ active.generation \in loops \/ exited
    /\ NewGeneration(host.process, FALSE)
    /\ loops' = loops \ {active.generation}
    /\ Return(a)
    /\ UNCHANGED <<working, host, started, writes, services, history>>

\* _last_project needs a completed open and no pending one; Past is completed.
AutoTarget(a) ==
    /\ pc[a] = "auto_open" /\ Free("operation")
    /\ IF PendingOpen \/ PendingCreation \/ ~Free("project_open")
       THEN Return(a)
       ELSE /\ Held("project_open", a) /\ Goto(a, "open_begin")
            /\ call' = [call EXCEPT ![a].key = <<call[a].process, call[a].tries>>]
    /\ UNCHANGED <<working, environment, journal, writes, services, history>>

\* Only a refusal that is known to be transient gets a new, linked attempt.
AutoNext(a) ==
    /\ pc[a] = "auto_next"
    /\ IF /\ Receipt(a).status = "rejected" /\ Receipt(a).why = "transient"
          /\ call[a].tries + 1 < Tries[a]
       THEN /\ Goto(a, "auto_open") /\ UNCHANGED holder
            /\ call' = [call EXCEPT ![a].tries = @ + 1, ![a].process = call[a].key[1]]
       ELSE Return(a)
    /\ UNCHANGED <<working, environment, journal, writes, services, history>>

AutoStep(a) ==
    \/ AutoBegin(a) \/ AutoLook(a) \/ AutoRotate(a) \/ AutoTarget(a) \/ AutoNext(a)
    \/ OpenStep(a)

-----------------------------------------------------------------------------
(* Create service: one call holds operation.lock to its end *)

SetPhaseOf(c, phase) == creation' = [creation EXCEPT ![c].phase = phase]

BeginCreate(c) ==
    /\ pc[c] = "idle" /\ Free("operation") /\ intent.phase # "pending"
    /\ \A other \in Creators \ {c} : creation[other].phase \in {"none", "completed"}
    /\ \/ /\ creation[c].phase = "none"
          /\ ~PendingOpen /\ NativeClear /\ Audited /\ Free("connection")
          /\ holder' = [holder EXCEPT !.operation = c, !.connection = c]
          /\ Goto(c, "create_startup")
       \/ /\ creation[c].phase = "dialog_pending"
          /\ Held("operation", c) /\ Goto(c, "create_restart")
       \/ /\ creation[c].phase \in {"create_pending", "bootstrapping"}
          /\ Held("operation", c) /\ Goto(c, "create_watch")
    /\ UNCHANGED <<working, environment, journal, writes, services, call, history>>

\* _restart_before_dialog: Create was never dispatched, the library is unchanged
\* and Resolve is gone; a replaced process that runs is not adopted.
RestartCreate(c) ==
    /\ pc[c] = "create_restart"
    /\ IF Running THEN Goto(c, "create_dialog") /\ UNCHANGED <<holder, call>>
       ELSE IF created[c] = 0 /\ Audited /\ Free("connection")
       THEN Held("connection", c) /\ Goto(c, "create_startup") /\ UNCHANGED call
       ELSE Return(c)
    /\ UNCHANGED <<working, environment, journal, writes, services, history>>

\* The receipt binds the creation to this process, before the dialog is opened.
StartCreate(c) ==
    /\ pc[c] = "create_startup"
    /\ \/ LaunchOnce(c) /\ UNCHANGED creation
       \/ /\ SameStart(c) /\ InManager
          /\ creation' = [creation EXCEPT ![c] =
                [phase |-> "dialog_pending", process |-> host.process, bound |-> 0]]
          /\ holder' = [holder EXCEPT !.connection = None]
          /\ Goto(c, "create_dialog")
          /\ UNCHANGED <<host, started, loops, call>>
       \/ Return(c) /\ UNCHANGED <<host, started, loops, creation>>
    /\ UNCHANGED <<working, exited, journal, writes, opens, routes, intent, history>>

\* The dialog of the original window is there and the library is unchanged:
\* create_pending is saved before Create is sent.
PrepareCreate(c) ==
    /\ pc[c] = "create_dialog"
    /\ \/ /\ InManager /\ host.process = creation[c].process /\ created[c] = 0
          /\ SetPhaseOf(c, "create_pending")
          /\ Goto(c, "create_send") /\ UNCHANGED <<holder, call>>
       \/ Return(c) /\ UNCHANGED creation
    /\ UNCHANGED <<working, environment, journal, writes, opens, routes, intent, history>>

SendCreate(c) ==
    /\ pc[c] = "create_send"
    /\ \/ /\ InManager /\ host.process = creation[c].process
          /\ host' = [host EXCEPT !.project = "new"] /\ shut' = FALSE
          /\ created' = [created EXCEPT ![c] = @ + 1]
       \/ UNCHANGED <<host, shut, created>>
    /\ \/ Goto(c, "create_watch") /\ UNCHANGED <<holder, call>>
       \/ Return(c)
    /\ UNCHANGED <<working, started, loops, exited, journal, writes, services,
                   invoked, sent, closed>>

\* No replay passes through Create again: it waits for a project window in the
\* original process and bootstraps one generation, which it names.
WatchCreate(c) ==
    /\ pc[c] = "create_watch"
    /\ IF host.process # creation[c].process \/ InManager
       THEN Return(c) /\ UNCHANGED creation
       ELSE IF creation[c].bound = 0
       THEN IF creation[c].phase = "bootstrapping"
            THEN Return(c) /\ UNCHANGED creation
            ELSE /\ SetPhaseOf(c, "bootstrapping")
                 /\ Goto(c, "create_new") /\ UNCHANGED <<holder, call>>
       ELSE IF active.generation # creation[c].bound
       THEN Return(c) /\ UNCHANGED creation
       ELSE Goto(c, "create_menu") /\ UNCHANGED <<holder, call, creation>>
    /\ UNCHANGED <<working, environment, journal, writes, opens, routes, intent, history>>

NewForCreate(c) ==
    /\ pc[c] = "create_new"
    /\ \/ /\ NewGeneration(creation[c].process, FALSE)
          /\ Goto(c, "create_bind") /\ UNCHANGED <<holder, call>>
       \/ Return(c) /\ UNCHANGED <<exited, journal>>
    /\ UNCHANGED <<working, host, started, loops, writes, services, history>>

BindCreate(c) ==
    /\ pc[c] = "create_bind"
    /\ creation' = [creation EXCEPT ![c].bound = active.generation]
    /\ Goto(c, "create_menu")
    /\ UNCHANGED <<working, environment, journal, writes, opens, routes, intent,
                   holder, call, history>>

DispatchCreate(c) ==
    /\ pc[c] = "create_menu"
    /\ IF active.dispatch_started
       THEN Goto(c, "create_verify") /\ UNCHANGED <<active, holder, call>>
       ELSE IF host.project = "new"
       THEN /\ active' = [active EXCEPT !.phase = "starting",
                                        !.dispatch_started = TRUE]
            /\ Goto(c, "create_invoke") /\ UNCHANGED <<holder, call>>
       ELSE Return(c) /\ UNCHANGED active
    /\ UNCHANGED <<working, environment, initial, writes, services, history>>

\* Whatever the bootstrap reports, the creation stays on record.
InvokeForCreate(c) ==
    /\ pc[c] = "create_invoke"
    /\ Invoke
    /\ \/ /\ active.generation \in loops'
          /\ Goto(c, "create_verify") /\ UNCHANGED <<holder, call>>
       \/ Return(c)
    /\ UNCHANGED <<working, host, started, exited, initial, writes, services,
                   sent, created, closed, shut>>

\* A fresh identity that was not in the library before, and the library with
\* exactly this project added.
VerifyCreate(c) ==
    /\ pc[c] = "create_verify"
    /\ \/ /\ Verified("new") /\ created[c] = 1
          /\ SetPhase("connected") /\ SetPhaseOf(c, "completed")
          /\ Goto(c, "create_release") /\ UNCHANGED <<holder, call>>
       \/ Return(c) /\ UNCHANGED <<active, creation>>
    /\ UNCHANGED <<working, environment, initial, writes, opens, routes, intent, history>>

ReleaseCreate(c) ==
    /\ pc[c] = "create_release"
    /\ intent' = IF intent.phase = "closed" THEN [phase |-> "none", by |-> None]
                 ELSE intent
    /\ Return(c)
    /\ UNCHANGED <<working, environment, journal, writes, opens, creation, routes,
                   history>>

CreateStep(c) ==
    \/ BeginCreate(c) \/ RestartCreate(c) \/ StartCreate(c) \/ PrepareCreate(c)
    \/ SendCreate(c) \/ WatchCreate(c) \/ NewForCreate(c) \/ BindCreate(c)
    \/ DispatchCreate(c) \/ InvokeForCreate(c) \/ VerifyCreate(c) \/ ReleaseCreate(c)

-----------------------------------------------------------------------------
(* Close: the managed SDK worker, the durable intent, and recovery *)

SaveRoute(c, route) == routes' = [routes EXCEPT ![c] = route]

\* One worker process (sdk-worker.lock) carries out one command after the other.
WorkerIdle == \A c \in Closers : pc[c] = "idle"

\* _replay_close for a completed route repeats only the end of the cleanup.
ReplayClose(c) ==
    /\ WorkerIdle /\ Free("operation")
    /\ routes[c].phase = "completed"
    /\ Held("operation", c) /\ Goto(c, "close_finish")
    /\ UNCHANGED <<working, environment, journal, writes, services, call, history>>

\* recover_acknowledged_close: the original acknowledgement is on record, and
\* its session, or the exit of its process, shows that no project is left open.
ReadBackClosed ==
    IF active.phase = "resolve_absent" THEN ~Running
    ELSE Answering /\ host.project \in {"none", "blank"}

Recoverable(c) ==
    /\ WorkerIdle /\ Free("operation")
    /\ routes[c].phase = "dispatch_started" /\ routes[c].generation = active.generation

\* The proof is archived before any record of the close is touched.
ArchiveClose(c) ==
    /\ Recoverable(c) /\ ~routes[c].archived /\ routes[c].acknowledged /\ ReadBackClosed
    /\ SaveRoute(c, [routes[c] EXCEPT !.archived = TRUE])
    /\ Held("operation", c) /\ Goto(c, "close_commit")
    /\ UNCHANGED <<working, environment, journal, writes, opens, creation, intent,
                   call, history>>

\* A recovery that died behind its archive goes on without a fresh readback.
RecoverArchived(c) ==
    /\ Recoverable(c) /\ routes[c].archived
    /\ Held("operation", c) /\ Goto(c, "close_commit")
    /\ UNCHANGED <<working, environment, journal, writes, services, call, history>>

\* _commit: receipt, response and ledger, and the owner record last.
CommitRecovery(c) ==
    /\ pc[c] = "close_commit"
    /\ SaveRoute(c, [routes[c] EXCEPT !.phase = "completed", !.ok = TRUE])
    /\ Goto(c, "close_finish")
    /\ UNCHANGED <<working, environment, journal, writes, opens, creation, intent,
                   holder, call, history>>

\* A close never opens a project, and no route may be unsettled.
EnsureForClose(c) ==
    /\ WorkerIdle /\ routes[c].phase = "none" /\ RoutesSettled
    /\ ~PendingCreation /\ intent.phase # "pending"
    /\ intent.phase = "none" \/ InWindow
    /\ Running /\ ConnectedTo(host.process) /\ ~exited
    /\ call' = [call EXCEPT ![c].generation = active.generation]
    /\ Goto(c, "close_claim")
    /\ UNCHANGED <<working, environment, journal, writes, services, holder, history>>

ClaimClose(c) ==
    /\ pc[c] = "close_claim" /\ Free("operation")
    /\ IF active.generation = call[c].generation /\ ~PendingOpen /\ ~PendingCreation
          /\ NativeSettled
       THEN /\ routes' = [other \in Closers |->
                IF other = c
                THEN [routes[c] EXCEPT !.phase = "dispatch_started", !.guard = TRUE,
                                       !.generation = active.generation]
                ELSE [routes[other] EXCEPT !.guard = FALSE]]
            /\ Held("operation", c) /\ Goto(c, "close_intend") /\ UNCHANGED call
       ELSE Return(c) /\ UNCHANGED routes
    /\ UNCHANGED <<working, environment, journal, writes, opens, creation, intent,
                   history>>

\* Seeded fault in IntendClose: the close is sent without a durable intent.
IntendNothing(c) ==
    /\ pc[c] = "close_intend" /\ intent.phase # "pending"
    /\ Goto(c, "close_send")
    /\ UNCHANGED <<working, environment, journal, writes, services, holder, call, history>>

\* prepare_close: the intent is durable before the close is sent.
IntendClose(c) ==
    /\ pc[c] = "close_intend" /\ intent.phase # "pending"
    /\ intent' = [phase |-> "pending", by |-> c]
    /\ Goto(c, "close_send")
    /\ UNCHANGED <<working, environment, journal, writes, opens, creation, routes,
                   holder, call, history>>

\* _execute_close_project: refused before CloseProject, closed and read back, or
\* of unknown outcome with or without an acknowledged CloseProject.
SendClose(c) ==
    /\ pc[c] = "close_send"
    /\ \/ /\ Goto(c, "close_refused") /\ UNCHANGED <<environment, history, routes, holder, call>>
       \/ /\ Return(c) /\ UNCHANGED <<environment, history, routes>>
       \/ /\ Verified("saved")
          /\ \E left \in {"none", "blank"} : host' = [host EXCEPT !.project = left]
          /\ closed' = [closed EXCEPT ![c] = @ + 1] /\ shut' = TRUE
          /\ \/ /\ Goto(c, "close_done") /\ UNCHANGED <<routes, holder, call>>
             \/ /\ Return(c)
                /\ \E seen \in BOOLEAN :
                    SaveRoute(c, [routes[c] EXCEPT !.acknowledged = seen])
          /\ UNCHANGED <<started, loops, exited, invoked, sent, created>>
    /\ UNCHANGED <<working, journal, writes, opens, creation, intent>>

\* Seeded fault in SettleClose: a refusal gets a phase that no reader knows.
SettleRefused(c) ==
    /\ pc[c] \in {"close_done", "close_refused"}
    /\ SaveRoute(c, [routes[c] EXCEPT
            !.phase = IF pc[c] = "close_done" THEN "completed" ELSE "rejected",
            !.ok = (pc[c] = "close_done")])
    /\ Goto(c, "close_finish")
    /\ UNCHANGED <<working, environment, journal, writes, opens, creation, intent,
                   holder, call, history>>

SettleClose(c) ==
    /\ pc[c] \in {"close_done", "close_refused"}
    /\ SaveRoute(c, [routes[c] EXCEPT !.phase = "completed",
                                      !.ok = (pc[c] = "close_done")])
    /\ Goto(c, "close_finish")
    /\ UNCHANGED <<working, environment, journal, writes, opens, creation, intent,
                   holder, call, history>>

\* finish_close for this command's own intent, then the guard is cleared.
FinishClose(c) ==
    /\ pc[c] = "close_finish"
    /\ intent' = IF intent.by # c THEN intent
                 ELSE IF routes[c].ok THEN [intent EXCEPT !.phase = "closed"]
                 ELSE [phase |-> "none", by |-> None]
    /\ SaveRoute(c, [routes[c] EXCEPT !.guard = FALSE])
    /\ Return(c)
    /\ UNCHANGED <<working, environment, journal, writes, opens, creation, history>>

CloseStep(c) ==
    \/ ReplayClose(c) \/ ArchiveClose(c) \/ RecoverArchived(c) \/ CommitRecovery(c)
    \/ EnsureForClose(c) \/ ClaimClose(c) \/ IntendClose(c) \/ SendClose(c)
    \/ SettleClose(c) \/ FinishClose(c)

-----------------------------------------------------------------------------

Next ==
    \/ HostStep
    \/ Watcher \in working /\ WatcherStep
    \/ \E w \in Writers \cap working : WriterStep(w)
    \/ \E a \in Openers \cap working : OpenStep(a)
    \/ \E a \in Autos \cap working : AutoStep(a)
    \/ \E c \in Creators \cap working : CreateStep(c)
    \/ \E c \in Closers \cap working : CloseStep(c)
    \/ \E a \in working : Crash(a)

Spec == Init /\ [][Next]_vars

-----------------------------------------------------------------------------
(* Safety *)

OpenLabels ==
    {"open_begin", "open_inspect", "open_retry", "open_recover", "open_startup",
     "open_prepare", "open_invoke", "open_refused", "open_sent", "open_wait",
     "open_release"}
AutoLabels == {"auto_look", "auto_open", "auto_next"}
CreateLabels ==
    {"create_startup", "create_restart", "create_dialog", "create_send", "create_watch",
     "create_new", "create_bind", "create_menu", "create_invoke", "create_verify",
     "create_release"}
CloseLabels ==
    {"close_claim", "close_intend", "close_send", "close_refused", "close_done",
     "close_commit", "close_finish"}
Labels == OpenLabels \cup AutoLabels \cup CreateLabels \cup CloseLabels
          \cup {"idle", "menu", "send"}

Phases == {"starting", "connected", "stopped", "resolve_absent"}

TypeOK ==
    /\ working \in Mixes
    /\ host \in [process: 0 .. MaxProcess, project: {"none", "saved", "new", "blank"}]
    /\ started \in 0 .. MaxProcess
    /\ loops \subseteq Generations /\ exited \in BOOLEAN
    /\ active \in [generation: 0 .. MaxGeneration, process: 0 .. MaxProcess,
                   phase: Phases, dispatch_started: BOOLEAN]
    /\ initial \in 0 .. MaxGeneration
    /\ receipts \in [Generations ->
                        [Writers -> {"none", "pending", "completed", "rejected"}]]
    /\ owners \in [Writers -> 0 .. MaxGeneration]
    /\ opens \in [OpenKeys ->
            [status: PendingStatuses \cup {"none", "rejected", "completed"},
             process: 0 .. MaxProcess, bound: 0 .. MaxGeneration,
             why: {"none", "window", "transient", "other"}]]
    /\ creation \in [Creators ->
            [phase: {"none", "dialog_pending", "create_pending", "bootstrapping",
                     "completed"},
             process: 0 .. MaxProcess, bound: 0 .. MaxGeneration]]
    /\ routes \in [Closers ->
            [phase: {"none", "dispatch_started", "completed"}, ok: BOOLEAN,
             generation: 0 .. MaxGeneration, acknowledged: BOOLEAN, archived: BOOLEAN,
             guard: BOOLEAN]]
    /\ intent \in [phase: {"none", "pending", "closed"}, by: Closers \cup {None}]
    /\ holder \in [{"operation", "project_open", "connection"} -> Actors \cup {None}]
    /\ pc \in [Actors -> Labels]
    /\ call \in [Actors ->
            [mode: {"plain", "recover", "retry"}, key: OpenKeys, process: 0 .. MaxProcess,
             generation: 0 .. MaxGeneration, manager: BOOLEAN, attach: BOOLEAN, tries: Nat]]

\* project_open_service.py: host receipts never replay an uncertain Open; and
\* marker_supervisor.py: once-only menu dispatch.  Whatever is repeated, recovered
\* or interrupted, an open or a menu dispatch that may have reached Resolve is not
\* made again in that process or generation, and one open at most is unsettled.
DispatchedOnce ==
    /\ \A k \in OpenKeys, p \in Processes : sent[k][p] <= 1
    /\ \A g \in Generations : invoked[g] <= 1
    /\ \A k, l \in OpenKeys :
        opens[k].status \in PendingStatuses /\ opens[l].status \in PendingStatuses
            => k = l

\* project_create_service.py: no creation action is repeated, and a completed
\* record is of exactly one new project, bootstrapped in the generation it names.
CreatedOnce ==
    \A c \in Creators :
        /\ created[c] <= 1
        /\ creation[c].phase = "completed" =>
            created[c] = 1 /\ invoked[creation[c].bound] = 1

\* No dialog or menu of Resolve is sent twice for one request, by an open
\* (project_open_service.py), a creation (project_create_service.py) or a
\* connection (marker_supervisor.py), whoever dies and whoever repeats it.
ActedOnce == DispatchedOnce /\ CreatedOnce

\* A settled close that the worker refused before it closed anything.
Refused(c) == routes[c].phase = "completed" /\ ~routes[c].ok

\* docs/close-project.md: a durable intent is published before native dispatch.
\* Once the worker closed the project, the intent stays until a project is open
\* again, whatever dies in between; and a settled close tells the truth.  What ends
\* the hold all the same is a close that was refused: its intent took the place of
\* the earlier one, and is removed.
ClosureIsHeld ==
    /\ shut => intent.phase # "none" \/ \E c \in Closers : Refused(c)
    /\ \A c \in Closers :
        /\ closed[c] <= 1
        /\ routes[c].phase = "completed" => closed[c] = (IF routes[c].ok THEN 1 ELSE 0)

\* A creation took a new runtime in the process that runs the loop of an old one.
Overtaken == \E c \in Creators : creation[c].phase \in {"bootstrapping", "completed"}

\* managed_marker.py: a rotation never resets the ownership of a key.  A key
\* changes Resolve at most once over all generations, for managed and static
\* clients together; but a creation does not end the loop that it overtakes, and a
\* static client that still has that loop knows no owners.
KeyInOneGeneration ==
    \A w \in Writers, g, h \in Generations :
        /\ applied[w][g] <= 1
        /\ applied[w][g] = 1 /\ applied[w][h] = 1 =>
              g = h \/ (initial \in {g, h} /\ Overtaken)
=============================================================================
