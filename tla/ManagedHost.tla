---------------------------- MODULE ManagedHost ----------------------------
(***************************************************************************)
(* What the processes of managed mode share on one machine: Resolve, the   *)
(* records in the profile's state directory with the advisory locks beside *)
(* them, the watcher that starts the native loop of a generation           *)
(* (marker_supervisor.py), and the writes that a key owns                  *)
(* (managed_marker.py).  ProjectLifecycle adds the services that open,     *)
(* create and close projects.                                              *)
(*                                                                         *)
(* An inspection of the host and the records written because of it are one *)
(* step while operation.lock is held; a UI dispatch is a step of its own,  *)
(* because the record that precedes it is there for a crash in between.    *)
(* One mailbox command (MarkerMailbox) is one step, with the outcomes its  *)
(* receipt can have.                                                       *)
(***************************************************************************)
EXTENDS Naturals, FiniteSets

CONSTANTS
    Openers,        \* keys of explicit open_existing calls
    Past,           \* the key of an open that was completed in an earlier run
    Autos,          \* processes that call AutomaticConnection.ensure
    Creators,       \* keys of create_project calls
    Closers,        \* keys of close_project commands
    Writers,        \* keys of native writes
    Watcher,        \* the supervisor process
    Mixes,          \* the sets of actors that are at work together
    None,           \* no holder of a lock
    MaxProcess,     \* bound on the processes of Resolve
    MaxGeneration,  \* bound on the prepared runtimes
    Tries           \* bound on the attempts of one automatic open, by process

Processes == 1 .. MaxProcess
Generations == 1 .. MaxGeneration

\* _open derives the key of an automatic open from the process and the attempt.
AutoKeys == UNION {Processes \X (0 .. Tries[a] - 1) : a \in Autos}
OpenKeys == Openers \cup {Past} \cup AutoKeys

Actors == Openers \cup Autos \cup Creators \cup Closers \cup Writers \cup {Watcher}

ASSUME BoundsAssumption ==
    /\ MaxProcess \in Nat \ {0} /\ MaxGeneration \in Nat \ {0}
    /\ Tries \in [Autos -> Nat \ {0}]
ASSUME MixesAssumption == \A mix \in Mixes : mix \subseteq Actors
ASSUME ActorsAssumption == None \notin Actors /\ Openers \cap Autos = {}

VARIABLES
    working,      \* the mix of this behaviour
    host,         \* Resolve: its process (0: not running) and its project
    started,      \* processes of Resolve so far
    loops,        \* the generations whose native loop runs
    exited,       \* the active generation's loop left an exit record
    active,       \* active.json; the generations before it are journaled
    initial,      \* the generation that adopted the static client's runtime
    receipts,     \* receipts/*.json of the writes in each runtime
    owners,       \* write-owners/*.json: the generation a key belongs to
    opens,        \* project-open-receipts/*.json
    creation,     \* project-create-receipts/*.json
    routes,       \* sdk-write-owners/*.json of the closes, and their guard
    intent,       \* project-close.json
    holder,       \* holders of operation.lock, project-open.lock, connection.lock
    pc, call,     \* where each actor is, and the local state of its call
    invoked,      \* history: menu dispatches of a generation, refused ones apart
    sent,         \* history: UI opens of a key per process, refused ones apart
    created,      \* history: projects added by each creation
    closed,       \* history: CloseProject calls that closed the project
    shut,         \* history: no project was opened since CloseProject
    applied       \* history: changes made by each key in each runtime

environment == <<host, started, loops, exited>>
journal == <<active, initial>>
writes == <<receipts, owners, applied>>
services == <<opens, creation, routes, intent>>
local == <<holder, pc, call>>
history == <<invoked, sent, created, closed, shut>>

vars == <<working, environment, journal, writes, services, local, history>>

NoCall ==
    [mode |-> "plain", key |-> Past, process |-> 0, generation |-> 0,
     manager |-> FALSE, attach |-> FALSE, tries |-> 0]

NoOpen == [status |-> "none", process |-> 0, bound |-> 0, why |-> "none"]

Opened == [NoOpen EXCEPT !.status = "completed"]

Init ==
    /\ working \in Mixes
    /\ host = [process |-> 0, project |-> "none"] /\ started = 0 /\ loops = {}
    /\ exited = FALSE
    /\ active = [generation |-> 0, process |-> 0, phase |-> "starting",
                 dispatch_started |-> FALSE]
    /\ initial = 0
    /\ receipts = [g \in Generations |-> [w \in Writers |-> "none"]]
    /\ owners = [w \in Writers |-> 0]
    /\ opens = [k \in OpenKeys |-> IF k = Past THEN Opened ELSE NoOpen]
    /\ creation = [c \in Creators |-> [phase |-> "none", process |-> 0, bound |-> 0]]
    /\ routes = [c \in Closers |->
                    [phase |-> "none", ok |-> FALSE, generation |-> 0,
                     acknowledged |-> FALSE, archived |-> FALSE, guard |-> FALSE]]
    /\ intent = [phase |-> "none", by |-> None]
    /\ holder = [operation |-> None, project_open |-> None, connection |-> None]
    /\ pc = [a \in Actors |-> "idle"] /\ call = [a \in Actors |-> NoCall]
    /\ invoked = [g \in Generations |-> 0]
    /\ sent = [k \in OpenKeys |-> [p \in Processes |-> 0]]
    /\ created = [c \in Creators |-> 0] /\ closed = [c \in Closers |-> 0]
    /\ shut = FALSE
    /\ applied = [w \in Writers |-> [g \in Generations |-> 0]]

-----------------------------------------------------------------------------
(* Helpers *)

Running == host.process # 0
InManager == Running /\ host.project = "none"
InWindow == Running /\ host.project # "none"
SameProcess == Running /\ active.process = host.process

Free(lock) == holder[lock] = None
Held(lock, a) == holder' = [holder EXCEPT ![lock] = a]
Goto(a, label) == pc' = [pc EXCEPT ![a] = label]

\* Closing the file handle releases the lock, whoever dies.
Released(a) == [lock \in DOMAIN holder |-> IF holder[lock] = a THEN None ELSE holder[lock]]

\* The call returns or its process dies.
Return(a) ==
    /\ holder' = Released(a)
    /\ Goto(a, "idle") /\ call' = [call EXCEPT ![a] = NoCall]

PendingStatuses == {"dispatch_started", "awaiting_native"}
PendingOpen == \E k \in OpenKeys : opens[k].status \in PendingStatuses
PendingCreation == \E c \in Creators : creation[c].phase \notin {"none", "completed"}

NativeSettled == \A g \in Generations, w \in Writers : receipts[g][w] # "pending"
NoGuard == \A c \in Closers : ~routes[c].guard
RoutesSettled == \A c \in Closers : routes[c].phase \in {"none", "completed"}

\* _native_clear: a key that may act on the host now cannot meet an
\* unfinished native operation.
NativeClear == ~PendingCreation /\ NativeSettled /\ NoGuard

Audited == RoutesSettled /\ NativeSettled /\ NoGuard

\* A prepared runtime becomes the active generation.  The first one adopts the
\* runtime of a static client if the profile names it.
NewGeneration(process, adopt) ==
    /\ Audited /\ active.generation < MaxGeneration
    /\ active' = [generation |-> active.generation + 1, process |-> process,
                  phase |-> "starting", dispatch_started |-> FALSE]
    /\ exited' = FALSE
    /\ initial' = IF adopt /\ active.generation = 0 THEN 1 ELSE initial

\* get_current_project and verify_project_context get an answer.
Answering == active.generation \in loops
Verified(project) == Answering /\ host.project = project

-----------------------------------------------------------------------------
(* Resolve and its user *)

Launch ==
    /\ ~Running /\ started < MaxProcess
    /\ started' = started + 1
    /\ host' = [process |-> started + 1, project |-> "none"]
    /\ loops' = {}

UserStarts ==
    /\ Launch
    /\ UNCHANGED <<working, exited, journal, writes, services, local, history>>

UserOpens ==
    /\ Running /\ host.project # "saved"
    /\ host' = [host EXCEPT !.project = "saved"] /\ shut' = FALSE
    /\ UNCHANGED <<working, started, loops, exited, journal, writes, services, local,
                   invoked, sent, created, closed>>

UserCloses ==
    /\ InWindow
    /\ host' = [host EXCEPT !.project = "none"]
    /\ UNCHANGED <<working, started, loops, exited, journal, writes, services, local, history>>

ResolveExits ==
    /\ Running
    /\ host' = [process |-> 0, project |-> "none"] /\ loops' = {}
    /\ UNCHANGED <<working, started, exited, journal, writes, services, local, history>>

\* The loop runs out of its lease (MarkerLease) and leaves an exit record.
LoopEnds(g) ==
    /\ g \in loops /\ loops' = loops \ {g} /\ exited' = (exited \/ g = active.generation)
    /\ UNCHANGED <<working, host, started, journal, writes, services, local, history>>

HostStep ==
    \/ UserStarts \/ UserOpens \/ UserCloses \/ ResolveExits
    \/ \E g \in Generations : LoopEnds(g)

-----------------------------------------------------------------------------
(* Marker supervisor *)

SetPhase(phase) == active' = [active EXCEPT !.phase = phase]

\* The phases are told apart as far as a later step does: "starting" stands for
\* prepared, dispatch_started, awaiting_native, waiting_project and
\* installation_failed, which differ in dispatch_started alone, and "stopped" for
\* dispatch_unverified, dispatch_failed and recovery_required, which leave the
\* generation to its recovery.
Observe ==
    \/ /\ ~Running /\ active.generation # 0
       /\ SetPhase("resolve_absent")
    \/ /\ Running /\ intent.phase # "pending"
       /\ ~(intent.phase = "closed" /\ InManager)
       /\ \/ /\ active.phase = "connected" /\ SameProcess /\ exited
             /\ SetPhase("stopped")
          \/ /\ InManager /\ active.generation # 0 /\ active.phase # "stopped"
             /\ ~(active.phase = "connected" /\ SameProcess)
             /\ SetPhase("starting")
          \/ /\ InWindow /\ SameProcess /\ active.phase = "starting"
             /\ \/ SetPhase("stopped")
                \/ active.dispatch_started /\ Answering /\ SetPhase("connected")

Watch ==
    /\ pc[Watcher] = "idle" /\ Free("operation") /\ ~PendingCreation
    /\ Observe
    /\ UNCHANGED <<working, environment, initial, writes, services, local, history>>

\* The process is not the one of the active generation: prepare a new one.
WatchNew ==
    /\ pc[Watcher] = "idle" /\ Free("operation") /\ ~PendingCreation
    /\ InWindow /\ ~SameProcess /\ intent.phase # "pending"
    /\ \E adopt \in BOOLEAN :
        /\ adopt => Writers \cap working # {}
        /\ NewGeneration(host.process, adopt)
    /\ UNCHANGED <<working, host, started, loops, writes, services, local, history>>

\* The dispatch is recorded before the menu is invoked.
WatchDispatch ==
    /\ pc[Watcher] = "idle" /\ Free("operation") /\ ~PendingCreation
    /\ InWindow /\ SameProcess /\ intent.phase # "pending"
    /\ ~active.dispatch_started /\ active.phase # "stopped"
    /\ active' = [active EXCEPT !.phase = "starting", !.dispatch_started = TRUE]
    /\ Held("operation", Watcher) /\ Goto(Watcher, "menu")
    /\ UNCHANGED <<working, environment, initial, writes, services, call, history>>

\* Seeded fault in Invoke: an uncertain outcome counts as nothing invoked.
InvokeAgain ==
    \/ /\ SameProcess
       /\ loops' = loops \cup {active.generation}
       /\ invoked' = [invoked EXCEPT ![active.generation] = @ + 1]
       /\ UNCHANGED active
    \/ /\ invoked' = [invoked EXCEPT ![active.generation] = @ + 1]
       /\ active' = [active EXCEPT !.phase = "starting", !.dispatch_started = FALSE]
       /\ UNCHANGED loops

\* invoke_managed_marker: the loop starts, the outcome is uncertain, or the
\* driver is certain that it invoked nothing.
Invoke ==
    \/ /\ SameProcess
       /\ loops' = loops \cup {active.generation}
       /\ invoked' = [invoked EXCEPT ![active.generation] = @ + 1]
       /\ UNCHANGED active
    \/ /\ invoked' = [invoked EXCEPT ![active.generation] = @ + 1]
       /\ UNCHANGED <<loops, active>>
    \/ /\ active' = [active EXCEPT !.phase = "starting", !.dispatch_started = FALSE]
       /\ UNCHANGED <<loops, invoked>>

WatchMenu ==
    /\ pc[Watcher] = "menu"
    /\ Invoke /\ Return(Watcher)
    /\ UNCHANGED <<working, host, started, exited, initial, writes, services,
                   sent, created, closed, shut>>

WatcherStep == Watch \/ WatchNew \/ WatchDispatch \/ WatchMenu

-----------------------------------------------------------------------------
(* Native writes and the ownership of their keys *)

\* Seeded fault in Claimable: the receipts of other runtimes are not read.
ClaimableByRecord(w) == owners[w] \in {0, active.generation}

\* claim_write_key: the key belongs to the generation that claimed it, and a
\* receipt in another runtime is a claim that was made without this record.
Claimable(w) ==
    IF owners[w] # 0 THEN owners[w] = active.generation
    ELSE \A g \in Generations \ {active.generation} : receipts[g][w] = "none"

Claim(w) ==
    /\ pc[w] = "idle" /\ Free("operation")
    /\ active.phase = "connected" /\ ~PendingOpen /\ ~PendingCreation
    /\ Claimable(w)
    /\ owners' = [owners EXCEPT ![w] = active.generation]
    /\ Held("operation", w) /\ Goto(w, "send")
    /\ UNCHANGED <<working, environment, journal, receipts, applied, services, call, history>>

\* A key without a receipt in runtime g is sent there once.  The receipt is
\* settled by the answer, or stays pending with the change made or not.
Request(w, g) ==
    /\ receipts[g][w] = "none"
    /\ \E status \in {"completed", "rejected", "pending"}, effect \in {0, 1} :
        /\ status = "completed" => effect = 1
        /\ status = "rejected" => effect = 0
        /\ status # "pending" \/ effect = 1 => g \in loops
        /\ receipts' = [receipts EXCEPT ![g][w] = status]
        /\ applied' = [applied EXCEPT ![w][g] = @ + effect]

Send(w) ==
    /\ pc[w] = "send"
    /\ Request(w, active.generation) \/ UNCHANGED <<receipts, applied>>
    /\ Return(w)
    /\ UNCHANGED <<working, environment, journal, owners, services, history>>

\* A static client writes into the runtime that was adopted, without the locks
\* and records of managed mode.
StaticSend(w) ==
    /\ pc[w] = "idle" /\ initial # 0 /\ NoGuard
    /\ Request(w, initial)
    /\ UNCHANGED <<working, environment, journal, owners, services, local, history>>

\* The owner of a pending receipt asks again; the answer settles it.
Settle(w, g) ==
    /\ receipts[g][w] = "pending" /\ g \in loops
    /\ receipts' = [receipts EXCEPT ![g][w] =
                        IF applied[w][g] = 1 THEN "completed" ELSE "rejected"]
    /\ UNCHANGED <<working, environment, journal, owners, applied, services, local, history>>

WriterStep(w) ==
    \/ Claim(w) \/ Send(w) \/ StaticSend(w)
    \/ \E g \in Generations : Settle(w, g)

-----------------------------------------------------------------------------

\* Any process may die between two of its steps.
Crash(a) ==
    /\ pc[a] # "idle" /\ Return(a)
    /\ UNCHANGED <<working, environment, journal, writes, services, history>>
=============================================================================
