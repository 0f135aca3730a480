---------------------- MODULE ProjectLifecycle_proofs ----------------------
(***************************************************************************)
(* That the managed services act once on Resolve, that a close is held,    *)
(* and that a key writes in one generation: for every mix of actors, and   *)
(* for every number of them, of processes of Resolve, of generations and   *)
(* of attempts.                                                            *)
(*                                                                         *)
(* The argument is about locks.  operation.lock and project-open.lock are  *)
(* held at the labels named below, so that what an actor has read of the   *)
(* shared records at such a label is still so when it acts on it; the      *)
(* labels outside are the ones where it must look again.  Each lemma named *)
(* ...Keeps is one action; it says what the action does to the parts that  *)
(* it can disturb, and the lemmas named ...Elsewhere and ...Stays do the   *)
(* rest.                                                                   *)
(***************************************************************************)
EXTENDS ProjectLifecycle, TLAPS

USE DEF environment, journal, writes, services, local, history

-----------------------------------------------------------------------------
(* Types, part by part *)

Locks == {"operation", "project_open", "connection"}
Serial == {"operation", "project_open"}
Calls ==
    [mode: {"plain", "recover", "retry"}, key: OpenKeys, process: 0 .. MaxProcess,
     generation: 0 .. MaxGeneration, manager: BOOLEAN, attach: BOOLEAN, tries: Nat]
Receipts ==
    [status: PendingStatuses \cup {"none", "rejected", "completed"},
     process: 0 .. MaxProcess, bound: 0 .. MaxGeneration,
     why: {"none", "window", "transient", "other"}]
Creations ==
    [phase: {"none", "dialog_pending", "create_pending", "bootstrapping", "completed"},
     process: 0 .. MaxProcess, bound: 0 .. MaxGeneration]
Routes ==
    [phase: {"none", "dispatch_started", "completed"}, ok: BOOLEAN,
     generation: 0 .. MaxGeneration, acknowledged: BOOLEAN, archived: BOOLEAN,
     guard: BOOLEAN]

HostOK ==
    /\ host \in [process: 0 .. MaxProcess, project: {"none", "saved", "new", "blank"}]
    /\ started \in 0 .. MaxProcess
    /\ loops \subseteq Generations /\ exited \in BOOLEAN
ActiveOK ==
    /\ active \in [generation: 0 .. MaxGeneration, process: 0 .. MaxProcess,
                   phase: Phases, dispatch_started: BOOLEAN]
    /\ initial \in 0 .. MaxGeneration
WritesOK ==
    /\ receipts \in [Generations ->
                        [Writers -> {"none", "pending", "completed", "rejected"}]]
    /\ owners \in [Writers -> 0 .. MaxGeneration]
    /\ applied \in [Writers -> [Generations -> Nat]]
OpensOK == opens \in [OpenKeys -> Receipts] /\ sent \in [OpenKeys -> [Processes -> Nat]]
CreationOK == creation \in [Creators -> Creations] /\ created \in [Creators -> Nat]
RoutesOK ==
    /\ routes \in [Closers -> Routes] /\ closed \in [Closers -> Nat]
    /\ intent \in [phase: {"none", "pending", "closed"}, by: Closers \cup {None}]
LocalOK ==
    /\ holder \in [Locks -> Actors \cup {None}]
    /\ pc \in [Actors -> Labels] /\ call \in [Actors -> Calls]
HistoryOK == working \in Mixes /\ invoked \in [Generations -> Nat] /\ shut \in BOOLEAN

Typed ==
    /\ HostOK /\ ActiveOK /\ WritesOK /\ OpensOK /\ CreationOK /\ RoutesOK
    /\ LocalOK /\ HistoryOK

-----------------------------------------------------------------------------
(* The invariant *)

\* Where an actor holds operation.lock.
OperationLabels ==
    {"open_startup", "open_release", "menu", "send"} \cup CreateLabels
        \cup (CloseLabels \ {"close_claim"})

LockInv ==
    \A a \in Actors :
        /\ pc[a] \in OperationLabels => holder.operation = a
        /\ pc[a] \in OpenLabels => holder.project_open = a

\* The key of an automatic open is one of its own; the process it saw is a process.
CallOf(a) ==
    /\ a \in Autos => call[a].tries \in 0 .. Tries[a] - 1
    /\ a \in Autos /\ pc[a] \in OpenLabels \cup {"auto_next"} =>
          call[a].key \in Processes \X (0 .. Tries[a] - 1)
    /\ pc[a] = "auto_open" => call[a].process # 0

CallInv == \A a \in Actors : CallOf(a)

\* One open at most is unsettled; a receipt names the last process its key was sent in,
\* and a refusal that may be tried again was sent in none.
Pending(k) == opens[k].status \in PendingStatuses

KeysInv ==
    /\ \A k, l \in OpenKeys : Pending(k) /\ Pending(l) => k = l
    /\ \A k \in OpenKeys :
        /\ opens[k].process <= started
        /\ opens[k].status = "none" => opens[k].process = 0
        /\ \A p \in Processes :
            /\ sent[k][p] \in {0, 1}
            /\ sent[k][p] = 1 => p <= opens[k].process
        /\ opens[k].status = "rejected" /\ opens[k].why = "window" /\ opens[k].process # 0
              => sent[k][opens[k].process] = 0

\* What a call has seen of its own key stays so, because project_open.lock is held.
OpenOf(a) ==
    LET k == call[a].key  p == call[a].process IN
    /\ pc[a] \in OpenLabels \ {"open_begin"} => \A l \in OpenKeys \ {k} : ~Pending(l)
    /\ pc[a] = "open_inspect" => opens[k].status = "none"
    /\ pc[a] = "open_retry" => opens[k].status = "rejected"
    /\ pc[a] = "open_startup" => ~Running \/ host.process # opens[k].process
    /\ pc[a] \in {"open_prepare", "open_invoke", "open_refused"} =>
          p # 0 /\ p <= started /\ sent[k][p] = 0
    /\ pc[a] = "open_prepare" => opens[k].process <= p
    /\ pc[a] = "open_invoke" => Pending(k)
    /\ pc[a] \in {"open_invoke", "open_refused", "open_sent"} =>
          opens[k].process = p /\ p # 0

OpenInv == \A a \in Actors : OpenOf(a)

\* Resolve is the process started last, and a closed project is not shown.
HostInv ==
    /\ Running => host.process = started
    /\ shut => host.project \in {"none", "blank"}

\* A menu dispatch is on record before it is made, and only its generation has a loop.
MenuInv ==
    /\ active.generation = 0 => active.process = 0
    /\ active.phase = "connected" => active.generation # 0
    /\ \A g \in Generations :
        /\ invoked[g] \in {0, 1}
        /\ g > active.generation => invoked[g] = 0
        /\ g = active.generation /\ ~active.dispatch_started => invoked[g] = 0
        /\ g \in loops => invoked[g] = 1
    /\ \A a \in Actors : pc[a] \in {"menu", "create_invoke"} =>
          active.generation # 0 /\ active.dispatch_started /\ invoked[active.generation] = 0

\* A creation goes forward: Create is not sent again, and a bound generation stays bound.
CreateOf(c) ==
    /\ created[c] \in {0, 1}
    /\ pc[c] = "create_startup" => creation[c].phase \in {"none", "dialog_pending"}
    /\ pc[c] \in {"create_restart", "create_dialog"} => creation[c].phase = "dialog_pending"
    /\ pc[c] = "create_send" => created[c] = 0 /\ creation[c].phase = "create_pending"
    /\ pc[c] \in {"create_new", "create_bind"} => creation[c].phase = "bootstrapping"
    /\ pc[c] = "create_bind" => active.generation # 0
    /\ pc[c] \in {"create_menu", "create_invoke", "create_verify"} =>
          active.generation # 0 /\ active.generation = creation[c].bound
    /\ creation[c].phase = "completed" =>
          creation[c].bound # 0 /\ created[c] = 1 /\ invoked[creation[c].bound] = 1

CreateInv == \A c \in Creators : CreateOf(c)

\* A route knows what was closed, and is settled last.
CloseOf(c) ==
    /\ closed[c] \in {0, 1}
    /\ routes[c].phase = "none" => closed[c] = 0
    /\ routes[c].phase = "completed" => closed[c] = (IF routes[c].ok THEN 1 ELSE 0)
    /\ routes[c].acknowledged \/ routes[c].archived => closed[c] = 1
    /\ pc[c] = "close_claim" => routes[c].phase = "none"
    /\ pc[c] \in {"close_intend", "close_send", "close_refused", "close_done",
                  "close_commit"} => routes[c].phase = "dispatch_started"
    /\ pc[c] = "close_finish" => routes[c].phase = "completed"
    /\ pc[c] \in {"close_intend", "close_send", "close_refused"} => closed[c] = 0
    /\ pc[c] = "close_send" => intent.phase = "pending"
    /\ pc[c] \in {"close_done", "close_commit"} => closed[c] = 1

\* The hold of a closed project, and who may end it.
HoldInv ==
    /\ shut => intent.phase # "none" \/ \E c \in Closers : Refused(c)
    /\ \A a \in Actors : pc[a] \in {"open_release", "create_release"} => ~shut

CloseInv == HoldInv /\ \A c \in Closers : CloseOf(c)

\* A key changes Resolve in the generation that owns it, or in the adopted one while its
\* loop is the only one: a rotation does not start before the old loop has ended.
WriteInv ==
    /\ initial \in {0, 1} /\ initial <= active.generation
    /\ ~Overtaken => loops \subseteq {active.generation}
    /\ ~Overtaken /\ loops # {} => SameProcess
    /\ \A w \in Writers :
        /\ owners[w] <= active.generation
        /\ pc[w] = "send" => owners[w] = active.generation /\ owners[w] # 0
        /\ \A g \in Generations :
            /\ applied[w][g] \in {0, 1}
            /\ receipts[g][w] = "none" => applied[w][g] = 0
            /\ applied[w][g] = 1 => g \in {owners[w], initial}
            /\ ~Overtaken /\ applied[w][g] = 1 /\ g = initial => owners[w] \in {0, g}

LifeInv ==
    /\ Typed /\ LockInv /\ CallInv /\ KeysInv /\ OpenInv /\ HostInv /\ MenuInv
    /\ CreateInv /\ CloseInv /\ WriteInv

-----------------------------------------------------------------------------
(* A step of one actor *)

\* Only a moves, and nobody else loses a lock that the invariant rests on.
Moves(a) ==
    /\ LocalOK'
    /\ \A b \in Actors \ {a} : pc'[b] = pc[b] /\ call'[b] = call[b]
    /\ \A b \in Actors \ {a}, l \in Serial : holder[l] = b => holder'[l] = b

\* None is not an actor.
LEMMA NoneIsNobody == None \notin Actors
  BY ActorsAssumption

LEMMA GotoMoves ==
    ASSUME LocalOK, NEW a \in Actors, NEW label \in Labels, Goto(a, label),
           UNCHANGED <<holder, call>>
    PROVE  Moves(a) /\ pc'[a] = label
  BY DEF LocalOK, Moves, Goto

LEMMA HeldMoves ==
    ASSUME LocalOK, NEW a \in Actors, NEW label \in Labels, Goto(a, label),
           NEW lock \in Locks, Free(lock), Held(lock, a), UNCHANGED call
    PROVE  /\ Moves(a) /\ pc'[a] = label /\ holder'[lock] = a
           /\ \A l \in Locks \ {lock} : holder'[l] = holder[l]
  BY NoneIsNobody DEF LocalOK, Moves, Goto, Held, Free, Locks, Serial

LEMMA ReleasedIsTyped ==
    ASSUME LocalOK, NEW a \in Actors
    PROVE  /\ Released(a) \in [Locks -> Actors \cup {None}]
           /\ \A b \in Actors \ {a}, l \in Serial : holder[l] = b => Released(a)[l] = b
  BY DEF LocalOK, Released, Locks, Serial

LEMMA NoCallIsACall == NoCall \in Calls /\ Past \in OpenKeys
  BY BoundsAssumption DEF NoCall, Calls, OpenKeys

LEMMA ReturnMoves ==
    ASSUME LocalOK, NEW a \in Actors, Return(a)
    PROVE  Moves(a) /\ pc'[a] = "idle" /\ call'[a] = NoCall
  BY ReleasedIsTyped, NoCallIsACall DEF LocalOK, Moves, Return, Goto, Labels

LEMMA ForgetIsTyped ==
    ASSUME LocalOK, NEW a \in Actors, Forget(a)
    PROVE  /\ call' \in [Actors -> Calls]
           /\ call'[a].key = call[a].key /\ call'[a].tries = call[a].tries
           /\ \A b \in Actors \ {a} : call'[b] = call[b]
  BY NoCallIsACall DEF LocalOK, Forget, Calls, NoCall

LEMMA LeaveMoves ==
    ASSUME LocalOK, NEW a \in Actors, Leave(a)
    PROVE  /\ Moves(a)
           /\ pc'[a] \in {"idle", "auto_next"}
           /\ pc'[a] = "auto_next" => call'[a].key = call[a].key
           /\ call'[a].tries \in {0, call[a].tries}
  <1>1. CASE a \in Autos
    <2>1. Goto(a, "auto_next") /\ Forget(a) /\ holder' = [Released(a) EXCEPT !.connection = a]
      BY <1>1 DEF Leave
    <2>2. /\ holder' \in [Locks -> Actors \cup {None}]
          /\ \A b \in Actors \ {a}, l \in Serial : holder[l] = b => holder'[l] = b
      BY <2>1, ReleasedIsTyped DEF Locks, Serial
    <2>3. /\ pc' \in [Actors -> Labels] /\ pc'[a] = "auto_next"
          /\ \A b \in Actors \ {a} : pc'[b] = pc[b]
      BY <2>1 DEF LocalOK, Goto, Labels, AutoLabels
    <2> QED
      BY <2>1, <2>2, <2>3, ForgetIsTyped DEF LocalOK, Moves
  <1>2. CASE a \notin Autos
    BY <1>2, ReturnMoves DEF Leave, NoCall
  <1> QED
    BY <1>1, <1>2

-----------------------------------------------------------------------------
(* What keeps each part where it has no business *)

\* Nobody comes to one of these labels.
Quiet(labels) ==
    \A b \in Actors : pc'[b] \in labels => pc'[b] = pc[b]
QuietCall(labels) ==
    \A b \in Actors : pc'[b] \in labels => pc'[b] = pc[b] /\ call'[b] = call[b]

LEMMA MovesQuiet ==
    ASSUME NEW a \in Actors, Moves(a), NEW labels, pc'[a] \notin labels
    PROVE  Quiet(labels) /\ QuietCall(labels)
  BY DEF Moves, Quiet, QuietCall

LEMMA NobodyMoves ==
    ASSUME UNCHANGED local, NEW labels
    PROVE  Quiet(labels) /\ QuietCall(labels)
  BY DEF Quiet, QuietCall

LEMMA LockKeeps ==
    ASSUME LocalOK, LockInv, NEW a \in Actors, Moves(a),
           pc'[a] \in OperationLabels => holder'["operation"] = a,
           pc'[a] \in OpenLabels => holder'["project_open"] = a
    PROVE  LockInv'
  <1> SUFFICES ASSUME NEW b \in Actors
               PROVE  /\ pc'[b] \in OperationLabels => holder'["operation"] = b
                      /\ pc'[b] \in OpenLabels => holder'["project_open"] = b
    BY DEF LockInv
  <1>1. CASE b = a
    BY <1>1
  <1>2. CASE b # a
    BY <1>2 DEF LockInv, Moves, Serial
  <1> QED
    BY <1>1, <1>2

\* The process may go, or come back as a new one.
HostMoves ==
    /\ started' \in Nat /\ started <= started'
    /\ host'.process \in {0, host.process} \/ host'.process > started

LEMMA HostStands ==
    ASSUME HostOK, UNCHANGED <<host, started>>
    PROVE  HostMoves
  BY DEF HostOK, HostMoves

CallLabels == OpenLabels \cup {"auto_next", "auto_open"}

LEMMA CallElsewhere ==
    ASSUME CallInv, QuietCall(CallLabels), \A b \in Actors : call'[b].tries \in {0, call[b].tries}
    PROVE  CallInv'
  BY BoundsAssumption DEF CallInv, CallOf, QuietCall, CallLabels

LEMMA OpenElsewhere ==
    ASSUME Typed, KeysInv, OpenInv, HostMoves, QuietCall(OpenLabels \ {"open_begin"}),
           UNCHANGED <<opens, sent>>
    PROVE  OpenInv'
  <1> SUFFICES ASSUME NEW b \in Actors PROVE OpenOf(b)'
    BY DEF OpenInv
  <1>1. OpenOf(b) /\ call[b].key \in OpenKeys /\ call[b].process \in Nat /\ started \in Nat
        /\ opens[call[b].key].process \in Nat /\ opens[call[b].key].process <= started
    BY DEF OpenInv, Typed, LocalOK, Calls, HostOK, OpensOK, Receipts, KeysInv
  <1>2. CASE pc'[b] \in OpenLabels \ {"open_begin"}
    BY <1>1, <1>2 DEF OpenOf, HostMoves, QuietCall, Running, Pending, OpenLabels
  <1>3. CASE pc'[b] \notin OpenLabels \ {"open_begin"}
    BY <1>3 DEF OpenOf, OpenLabels
  <1> QED
    BY <1>2, <1>3

LEMMA MenuElsewhere ==
    ASSUME MenuInv, Quiet({"menu", "create_invoke"}), loops' \subseteq loops,
           UNCHANGED <<active, invoked>>
    PROVE  MenuInv'
  BY DEF MenuInv, Quiet

LEMMA CreateElsewhere ==
    ASSUME CreateInv, Quiet(CreateLabels), UNCHANGED <<creation, created, active, invoked>>
    PROVE  CreateInv'
  BY DEF CreateInv, CreateOf, Quiet, CreateLabels, Actors

LEMMA CloseElsewhere ==
    ASSUME CloseInv, Quiet(CloseLabels \cup {"open_release", "create_release"}),
           shut' => shut, UNCHANGED <<routes, closed, intent>>
    PROVE  CloseInv'
  BY DEF CloseInv, CloseOf, HoldInv, Quiet, CloseLabels, Refused, Actors

LEMMA WriteElsewhere ==
    ASSUME WriteInv, Quiet({"send"}), loops' \subseteq loops,
           loops' # {} => host'.process = host.process,
           UNCHANGED <<active, initial, creation, writes>>
    PROVE  WriteInv'
  BY DEF WriteInv, Quiet, Overtaken, SameProcess, Running, Actors

LEMMA CallOfOne ==
    ASSUME CallInv, NEW a \in Actors, Moves(a), CallOf(a)'
    PROVE  CallInv'
  <1> SUFFICES ASSUME NEW b \in Actors PROVE CallOf(b)'
    BY DEF CallInv
  <1> QED
    BY DEF CallInv, CallOf, Moves

LEMMA OpenOfOne ==
    ASSUME Typed, KeysInv, OpenInv, HostMoves, NEW a \in Actors, Moves(a), OpenOf(a)',
           UNCHANGED <<opens, sent>>
    PROVE  OpenInv'
  <1> SUFFICES ASSUME NEW b \in Actors PROVE OpenOf(b)'
    BY DEF OpenInv
  <1>1. OpenOf(b) /\ call[b].key \in OpenKeys /\ call[b].process \in Nat /\ started \in Nat
        /\ opens[call[b].key].process \in Nat /\ opens[call[b].key].process <= started
    BY DEF OpenInv, Typed, LocalOK, Calls, HostOK, OpensOK, Receipts, KeysInv
  <1>2. CASE b = a
    BY <1>2
  <1>3. CASE b # a
    BY <1>1, <1>3 DEF OpenOf, HostMoves, Moves, Running, Pending
  <1> QED
    BY <1>2, <1>3

-----------------------------------------------------------------------------
(* Steps that change nothing but the call itself *)

Elsewhere == <<working, environment, journal, writes, services, history>>
Records == <<working, journal, writes, services, invoked, sent, created, closed>>

\* Resolve stands still, exits, is started, or its project is not left closed.
HostChange ==
    /\ HostOK' /\ HostInv' /\ HostMoves
    /\ loops' \subseteq loops
    /\ loops' # {} => host'.process = host.process
    /\ shut' \in BOOLEAN
    /\ shut' => shut

LEMMA NoHostChange ==
    ASSUME LifeInv, UNCHANGED <<environment, shut>>
    PROVE  HostChange
  BY HostStands DEF LifeInv, Typed, HostOK, HostInv, HistoryOK, HostChange, Running

LEMMA LaunchChange ==
    ASSUME LifeInv, Launch, UNCHANGED <<exited, shut>>
    PROVE  HostChange /\ ~Running
  <1>1. HostOK'
    <2>1. exited' \in BOOLEAN
      BY DEF LifeInv, Typed, HostOK
    <2>2. started' \in 0 .. MaxProcess /\ loops' \subseteq Generations
      BY BoundsAssumption DEF LifeInv, Typed, HostOK, Launch
    <2>3. host' \in [process: 0 .. MaxProcess, project: {"none", "saved", "new", "blank"}]
      BY <2>2 DEF Launch
    <2> QED
      BY <2>1, <2>2, <2>3 DEF HostOK
  <1>2. /\ HostMoves /\ host'.process = started' /\ host'.project = "none" /\ ~Running
        /\ started \in Nat
    BY DEF LifeInv, Typed, HostOK, HostMoves, Launch
  <1>3. shut' \in BOOLEAN /\ (shut' => shut) /\ loops' = {}
    BY DEF LifeInv, Typed, HistoryOK, Launch
  <1> QED
    BY <1>1, <1>2, <1>3 DEF HostInv, HostChange

\* A call goes on that is not in the middle of a creation, a close or a write.
LEMMA Turns ==
    ASSUME LifeInv, NEW a \in Actors, Moves(a), HostChange, UNCHANGED Records,
           pc'[a] \in OperationLabels => holder'["operation"] = a,
           pc'[a] \in OpenLabels => holder'["project_open"] = a,
           pc'[a] \in {"menu", "send", "open_release"} \cup CreateLabels \cup CloseLabels
              => pc'[a] = pc[a],
           CallOf(a)', OpenOf(a)'
    PROVE  LifeInv'
  <1> USE DEF Records
  <1>1. Typed'
    <2>1. HostOK' /\ LocalOK'
      BY DEF Moves, HostChange
    <2>2. HistoryOK'
      <3>1. shut' \in BOOLEAN
        BY DEF HostChange
      <3> QED
        BY <3>1 DEF LifeInv, Typed, HistoryOK
    <2>3. ActiveOK' /\ WritesOK' /\ OpensOK' /\ CreationOK' /\ RoutesOK'
      BY DEF LifeInv, Typed, ActiveOK, WritesOK, OpensOK, CreationOK, RoutesOK
    <2> QED
      BY <2>1, <2>2, <2>3 DEF Typed
  <1>2. LockInv'
    BY LockKeeps DEF LifeInv, Typed
  <1>3. CallInv'
    <2>1. CallInv
      BY DEF LifeInv
    <2> QED
      BY <2>1, CallOfOne
  <1>4. KeysInv'
    <2>1. /\ started \in Nat /\ started' \in Nat /\ started <= started'
          /\ \A k \in OpenKeys : opens[k].process \in Nat
      BY DEF HostChange, HostMoves, LifeInv, Typed, HostOK, OpensOK, Receipts
    <2> QED
      BY <2>1 DEF LifeInv, KeysInv, Pending
  <1>5. OpenInv'
    BY OpenOfOne DEF LifeInv, HostChange
  <1>6. HostInv'
    BY DEF HostChange
  <1>7. MenuInv'
    <2>1. Quiet({"menu", "create_invoke"})
      BY DEF Quiet, Moves, CreateLabels
    <2> QED
      BY <2>1, MenuElsewhere DEF LifeInv, HostChange
  <1>8. CreateInv'
    <2>1. Quiet(CreateLabels)
      BY DEF Quiet, Moves
    <2> QED
      BY <2>1, CreateElsewhere DEF LifeInv
  <1>9. CloseInv'
    <2>1. Quiet(CloseLabels \cup {"open_release", "create_release"})
      BY DEF Quiet, Moves, CreateLabels, CloseLabels
    <2> QED
      BY <2>1, CloseElsewhere DEF LifeInv, HostChange
  <1>10. WriteInv'
    <2>1. Quiet({"send"})
      BY DEF Quiet, Moves
    <2> QED
      BY <2>1, WriteElsewhere DEF LifeInv, HostChange
  <1> QED
    BY <1>1, <1>2, <1>3, <1>4, <1>5, <1>6, <1>7, <1>8, <1>9, <1>10 DEF LifeInv

\* A call of the open service or of the automatic connection goes on.
LEMMA OpenerTurns ==
    ASSUME LifeInv, NEW a \in Actors, Moves(a), UNCHANGED Elsewhere,
           pc'[a] \in {"idle"} \cup AutoLabels \cup (OpenLabels \ {"open_release"}),
           pc'[a] = "open_startup" => holder'["operation"] = a,
           pc'[a] \in OpenLabels => holder'["project_open"] = a,
           CallOf(a)', OpenOf(a)'
    PROVE  LifeInv'
  <1>1. UNCHANGED Records /\ HostChange
    BY NoHostChange DEF Elsewhere, Records
  <1>2. /\ pc'[a] \notin {"menu", "send", "open_release"} \cup CreateLabels \cup CloseLabels
        /\ pc'[a] \in OperationLabels => holder'["operation"] = a
    BY DEF AutoLabels, OpenLabels, CreateLabels, CloseLabels, OperationLabels
  <1> QED
    BY <1>1, <1>2, Turns

LEMMA ReturnKeeps ==
    ASSUME LifeInv, NEW a \in Actors, Return(a), UNCHANGED Elsewhere
    PROVE  LifeInv'
  <1>1. Moves(a) /\ pc'[a] = "idle" /\ call'[a] = NoCall
    BY ReturnMoves DEF LifeInv, Typed
  <1>2. CallOf(a)'
    BY <1>1, BoundsAssumption DEF CallOf, NoCall, OpenLabels
  <1>3. OpenOf(a)'
    BY <1>1 DEF OpenOf, OpenLabels
  <1> QED
    BY <1>1, <1>2, <1>3, OpenerTurns DEF OpenLabels

LEMMA LeaveKeeps ==
    ASSUME LifeInv, NEW a \in Actors, pc[a] \in OpenLabels, Leave(a), UNCHANGED Elsewhere
    PROVE  LifeInv'
  <1>1. /\ Moves(a) /\ pc'[a] \in {"idle", "auto_next"}
        /\ pc'[a] = "auto_next" => call'[a].key = call[a].key
        /\ call'[a].tries \in {0, call[a].tries}
    BY LeaveMoves DEF LifeInv, Typed
  <1>2. CallOf(a)'
    BY <1>1, BoundsAssumption DEF LifeInv, CallInv, CallOf, OpenLabels
  <1>3. OpenOf(a)'
    BY <1>1 DEF OpenOf, OpenLabels
  <1> QED
    BY <1>1, <1>2, <1>3, OpenerTurns DEF OpenLabels, AutoLabels

\* A lock that is free is held by nobody, at no label.
LEMMA FreeLocks ==
    ASSUME LifeInv
    PROVE  /\ Free("operation") => \A b \in Actors : pc[b] \notin OperationLabels
           /\ Free("project_open") => \A b \in Actors : pc[b] \notin OpenLabels
  BY NoneIsNobody DEF LifeInv, LockInv, Free

LEMMA CrashKeeps ==
    ASSUME LifeInv, NEW a \in Actors, Crash(a)
    PROVE  LifeInv'
  BY ReturnKeeps DEF Crash, Elsewhere

LEMMA GiveUpKeeps ==
    ASSUME LifeInv, NEW a \in Actors, GiveUp(a)
    PROVE  LifeInv'
  BY LeaveKeeps DEF GiveUp, Elsewhere, OpenLabels

LEMMA BeginOpenKeeps ==
    ASSUME LifeInv, NEW a \in Actors, BeginOpen(a)
    PROVE  LifeInv'
  <1>1. LocalOK /\ a \in Openers /\ a \notin Autos
    BY ActorsAssumption DEF LifeInv, Typed, BeginOpen
  <1>2. /\ call' \in [Actors -> Calls]
        /\ \A b \in Actors \ {a} : call'[b] = call[b]
    <2>1. PICK mode \in {"plain", "recover", "retry"} :
            call' = [call EXCEPT ![a].key = a, ![a].mode = mode]
      BY DEF BeginOpen
    <2> DEFINE asked == [call EXCEPT ![a].key = a]
    <2>2. asked \in [Actors -> Calls] /\ \A b \in Actors \ {a} : asked[b] = call[b]
      BY <1>1 DEF LocalOK, Calls, OpenKeys
    <2>3. call' = [asked EXCEPT ![a].mode = mode]
      BY <2>1
    <2> HIDE DEF asked
    <2> QED
      BY <2>2, <2>3 DEF Calls
  <1>3. Moves(a) /\ pc'[a] = "open_begin" /\ holder'["project_open"] = a
    BY <1>1, <1>2, NoneIsNobody
       DEF BeginOpen, LocalOK, Moves, Goto, Held, Free, Locks, Serial, Labels, OpenLabels
  <1>4. CallOf(a)' /\ OpenOf(a)'
    BY <1>1, <1>3 DEF CallOf, OpenOf, OpenLabels
  <1> QED
    BY <1>3, <1>4, OpenerTurns DEF BeginOpen, Elsewhere, OpenLabels

\* The receipt of a call, and the key it is kept under.
LEMMA ReceiptIsTyped ==
    ASSUME Typed, NEW a \in Actors
    PROVE  /\ call[a] \in Calls /\ call[a].key \in OpenKeys /\ call[a].process \in 0 .. MaxProcess
           /\ Receipt(a) \in Receipts /\ Receipt(a) = opens[call[a].key]
           /\ Receipt(a).status \in PendingStatuses \cup {"none", "rejected", "completed"}
           /\ Receipt(a).process \in 0 .. MaxProcess
  <1>1. call[a] \in Calls
    BY DEF Typed, LocalOK
  <1>2. call[a].key \in OpenKeys /\ call[a].process \in 0 .. MaxProcess
    BY <1>1 DEF Calls
  <1>3. Receipt(a) \in Receipts
    BY <1>2 DEF Typed, OpensOK, Receipt
  <1>4. /\ Receipt(a).status \in PendingStatuses \cup {"none", "rejected", "completed"}
        /\ Receipt(a).process \in 0 .. MaxProcess
    BY <1>3 DEF Receipts
  <1> QED
    BY <1>1, <1>2, <1>3, <1>4 DEF Receipt

\* What NextOfOpen lets through has no other open pending, and the status it needs.
LEMMA WhereTo ==
    ASSUME Typed, NEW a \in Actors, NextOfOpen(a) # "leave"
    PROVE  /\ NextOfOpen(a) \in {"open_inspect", "open_retry", "open_recover", "open_wait"}
           /\ ~OtherOpenPending(call[a].key)
           /\ NextOfOpen(a) = "open_inspect" => Receipt(a).status = "none"
           /\ NextOfOpen(a) = "open_retry" => Receipt(a).status = "rejected"
  <1>1. Receipt(a).status \in PendingStatuses \cup {"none", "rejected", "completed"}
    BY ReceiptIsTyped
  <1> QED
    BY <1>1 DEF NextOfOpen, PendingStatuses

LEMMA BeginKeeps ==
    ASSUME LifeInv, NEW a \in Actors, Begin(a)
    PROVE  LifeInv'
  <1>1. CASE NextOfOpen(a) = "leave"
    BY <1>1, LeaveKeeps DEF Begin, Elsewhere, OpenLabels
  <1>2. CASE NextOfOpen(a) # "leave"
    <2>1. /\ Moves(a) /\ pc'[a] = NextOfOpen(a) /\ UNCHANGED <<holder, call>>
          /\ pc'[a] \in {"open_inspect", "open_retry", "open_recover", "open_wait"}
      BY <1>2, WhereTo, GotoMoves DEF Begin, LifeInv, Typed, Labels, OpenLabels
    <2>2. holder["project_open"] = a
      BY DEF Begin, LifeInv, LockInv, OpenLabels
    <2>3. CallOf(a)'
      BY <2>1 DEF LifeInv, CallInv, CallOf, Begin, OpenLabels
    <2>4. UNCHANGED opens /\ UNCHANGED call
      BY <2>1 DEF Begin
    <2>5. OpenOf(a)'
      BY <1>2, <2>1, <2>4, WhereTo
         DEF LifeInv, OpenOf, OtherOpenPending, Pending, Receipt, OpenLabels
    <2> QED
      BY <2>1, <2>2, <2>3, <2>5, OpenerTurns DEF Begin, Elsewhere, OpenLabels
  <1> QED
    BY <1>1, <1>2

\* What is seen of a running Resolve.
LEMMA SeeMoves ==
    ASSUME LifeInv, NEW a \in Actors, NEW label \in Labels, See(a), Goto(a, label),
           UNCHANGED holder, Running
    PROVE  /\ Moves(a) /\ pc'[a] = label
           /\ call'[a].process = host.process /\ host.process # 0 /\ host.process = started
           /\ call'[a].key = call[a].key /\ call'[a].tries = call[a].tries
  <1>1. LocalOK /\ HostOK /\ InManager \in BOOLEAN
    BY DEF LifeInv, Typed, InManager
  <1>2. /\ call' \in [Actors -> Calls] /\ \A b \in Actors \ {a} : call'[b] = call[b]
        /\ call'[a].process = host.process /\ call'[a].key = call[a].key
        /\ call'[a].tries = call[a].tries
    <2> DEFINE seen == [call[a] EXCEPT !.process = host.process, !.manager = InManager]
    <2>1. call[a] \in Calls /\ DOMAIN call = Actors /\ host.process \in 0 .. MaxProcess
      BY <1>1 DEF LocalOK, HostOK
    <2>2. /\ seen \in Calls /\ seen.process = host.process
          /\ seen.key = call[a].key /\ seen.tries = call[a].tries
      BY <1>1, <2>1 DEF Calls
    <2>3. call' = [call EXCEPT ![a] = seen]
      BY <2>1 DEF See
    <2> HIDE DEF seen
    <2> QED
      BY <1>1, <2>1, <2>2, <2>3 DEF LocalOK
  <1>3. host.process # 0 /\ host.process = started
    BY DEF Running, LifeInv, HostInv
  <1> QED
    BY <1>1, <1>2, <1>3 DEF LocalOK, Moves, Goto

LEMMA InspectOpenKeeps ==
    ASSUME LifeInv, NEW a \in Actors, InspectOpen(a)
    PROVE  LifeInv'
  <1>1. CASE ~Running
    BY <1>1, LeaveKeeps DEF InspectOpen, Elsewhere, OpenLabels
  <1>2. CASE Running
    <2>1. /\ Moves(a) /\ pc'[a] = "open_prepare" /\ UNCHANGED holder
          /\ call'[a].process = started /\ started # 0
          /\ call'[a].key = call[a].key /\ call'[a].tries = call[a].tries
      BY <1>2, SeeMoves DEF InspectOpen, Labels, OpenLabels
    <2>2. /\ holder["project_open"] = a /\ call[a].key \in OpenKeys
          /\ opens[call[a].key].status = "none"
          /\ \A l \in OpenKeys \ {call[a].key} : ~Pending(l)
      BY DEF InspectOpen, LifeInv, LockInv, OpenInv, OpenOf, OpenLabels, Typed, LocalOK, Calls
    <2>3. CallOf(a)'
      BY <2>1 DEF LifeInv, CallInv, CallOf, InspectOpen, OpenLabels
    <2>4. opens[call[a].key].process = 0 /\ sent[call[a].key][started] = 0
      <3>1. started \in Processes
        BY <2>1 DEF LifeInv, Typed, HostOK, Processes
      <3>2. opens[call[a].key].process = 0
        BY <2>2 DEF LifeInv, KeysInv
      <3> QED
        BY <2>2, <3>1, <3>2 DEF LifeInv, KeysInv, Processes
    <2>5. OpenOf(a)'
      BY <2>1, <2>2, <2>4 DEF OpenOf, InspectOpen, Pending, LifeInv, Typed, HostOK, OpenLabels
    <2> QED
      BY <2>1, <2>2, <2>3, <2>5, OpenerTurns DEF InspectOpen, Elsewhere, OpenLabels
  <1> QED
    BY <1>1, <1>2

LEMMA RetryOpenKeeps ==
    ASSUME LifeInv, NEW a \in Actors, RetryOpen(a)
    PROVE  LifeInv'
  <1> DEFINE again == /\ Receipt(a).why = "window" /\ NativeClear
                      /\ InManager /\ host.process = Receipt(a).process
  <1>1. CASE ~again
    BY <1>1, LeaveKeeps DEF RetryOpen, Elsewhere, OpenLabels
  <1>2. CASE again
    <2>1. /\ Moves(a) /\ pc'[a] = "open_prepare" /\ UNCHANGED holder
          /\ call'[a].process = started /\ started # 0 /\ host.process = started
          /\ call'[a].key = call[a].key /\ call'[a].tries = call[a].tries
      BY <1>2, SeeMoves DEF RetryOpen, Labels, OpenLabels, InManager
    <2>2. /\ holder["project_open"] = a /\ call[a].key \in OpenKeys
          /\ opens[call[a].key].status = "rejected"
          /\ \A l \in OpenKeys \ {call[a].key} : ~Pending(l)
      BY DEF RetryOpen, LifeInv, LockInv, OpenInv, OpenOf, OpenLabels, Typed, LocalOK, Calls
    <2>3. CallOf(a)'
      BY <2>1 DEF LifeInv, CallInv, CallOf, RetryOpen, OpenLabels
    <2>4. opens[call[a].key].process = started /\ sent[call[a].key][started] = 0
      <3>1. opens[call[a].key].process = started /\ opens[call[a].key].why = "window"
        BY <1>2, <2>1 DEF Receipt
      <3> QED
        BY <2>1, <2>2, <3>1 DEF LifeInv, KeysInv
    <2>5. OpenOf(a)'
      BY <2>1, <2>2, <2>4 DEF OpenOf, RetryOpen, Pending, LifeInv, Typed, HostOK, OpenLabels
    <2> QED
      BY <2>1, <2>2, <2>3, <2>5, OpenerTurns DEF RetryOpen, Elsewhere, OpenLabels
  <1> QED
    BY <1>1, <1>2

LEMMA RecoverOpenKeeps ==
    ASSUME LifeInv, NEW a \in Actors, RecoverOpen(a)
    PROVE  LifeInv'
  <1>1. LocalOK /\ holder["project_open"] = a /\ CallOf(a) /\ OpenOf(a)
    BY DEF RecoverOpen, LifeInv, Typed, LockInv, CallInv, OpenInv, OpenLabels
  <1>2. CASE Running /\ host.process = Receipt(a).process
    <2>1. Moves(a) /\ pc'[a] = "open_wait" /\ UNCHANGED <<holder, call>>
      BY <1>1, <1>2, GotoMoves DEF RecoverOpen, Labels, OpenLabels
    <2>2. CallOf(a)'
      BY <1>1, <2>1 DEF RecoverOpen, CallOf, OpenLabels
    <2>3. OpenOf(a)'
      BY <1>1, <2>1 DEF RecoverOpen, OpenOf, Pending, OpenLabels
    <2> QED
      BY <1>1, <2>1, <2>2, <2>3, OpenerTurns DEF RecoverOpen, Elsewhere, OpenLabels
  <1>3. CASE /\ ~(Running /\ host.process = Receipt(a).process)
             /\ InWindow \/ ~NativeClear \/ ~Free("connection")
    BY <1>3, LeaveKeeps DEF RecoverOpen, Elsewhere, OpenLabels
  <1>4. CASE /\ ~(Running /\ host.process = Receipt(a).process)
             /\ ~(InWindow \/ ~NativeClear \/ ~Free("connection"))
    <2>1. /\ holder' = [holder EXCEPT !.operation = a, !.connection = a]
          /\ Goto(a, "open_startup") /\ UNCHANGED call /\ Free("operation")
      BY <1>4 DEF RecoverOpen
    <2>2. /\ holder' \in [Locks -> Actors \cup {None}]
          /\ holder'["operation"] = a /\ holder'["project_open"] = a
      BY <1>1, <2>1 DEF LocalOK, Locks
    <2>3. Moves(a) /\ pc'[a] = "open_startup"
      BY <1>1, <2>1, <2>2, NoneIsNobody
         DEF LocalOK, Moves, Goto, Free, Locks, Serial, Labels, OpenLabels
    <2>4. CallOf(a)'
      BY <1>1, <2>1, <2>3 DEF RecoverOpen, CallOf, OpenLabels
    <2>5. OpenOf(a)'
      BY <1>1, <1>4, <2>1, <2>3
         DEF RecoverOpen, OpenOf, Pending, OpenLabels, Running, Receipt
    <2> QED
      BY <2>2, <2>3, <2>4, <2>5, OpenerTurns DEF RecoverOpen, Elsewhere, OpenLabels
  <1> QED
    BY <1>2, <1>3, <1>4

\* LaunchOnce, in an open or in a creation.
LEMMA LaunchOnceMoves ==
    ASSUME LifeInv, NEW a \in Actors, LaunchOnce(a), UNCHANGED <<exited, shut>>
    PROVE  /\ Moves(a) /\ HostChange /\ UNCHANGED <<holder, pc>>
           /\ host'.process > started
           /\ call'[a].key = call[a].key /\ call'[a].tries = call[a].tries
           /\ call'[a].process # 0
  <1>1. LocalOK /\ HostOK
    BY DEF LifeInv, Typed
  <1>2. HostChange /\ host'.process = started + 1 /\ started + 1 \in 1 .. MaxProcess
    BY <1>1, LaunchChange, BoundsAssumption DEF LaunchOnce, Launch, HostOK
  <1>3. /\ call' \in [Actors -> Calls] /\ \A b \in Actors \ {a} : call'[b] = call[b]
        /\ call'[a].process # 0 /\ call'[a].key = call[a].key
        /\ call'[a].tries = call[a].tries
    BY <1>1, <1>2 DEF LaunchOnce, LocalOK, Calls
  <1> QED
    BY <1>1, <1>2, <1>3 DEF LaunchOnce, LocalOK, Moves, HostOK

LEMMA StartUpKeeps ==
    ASSUME LifeInv, NEW a \in Actors, StartUp(a)
    PROVE  LifeInv'
  <1>1. /\ LocalOK /\ holder["project_open"] = a /\ holder["operation"] = a
        /\ CallOf(a) /\ OpenOf(a) /\ pc[a] = "open_startup"
    BY DEF StartUp, LifeInv, Typed, LockInv, CallInv, OpenInv, OpenLabels, OperationLabels
  <1>2. UNCHANGED Records /\ UNCHANGED <<exited, shut>>
    BY DEF StartUp, Records
  <1>3. CASE LaunchOnce(a)
    <2>1. /\ Moves(a) /\ HostChange /\ UNCHANGED <<holder, pc>>
          /\ host'.process > started
          /\ call'[a].key = call[a].key /\ call'[a].tries = call[a].tries
      BY <1>2, <1>3, LaunchOnceMoves
    <2>2. CallOf(a)'
      BY <1>1, <2>1 DEF CallOf, OpenLabels
    <2>3. OpenOf(a)'
      <3>1. /\ opens[call[a].key].process \in Nat /\ opens[call[a].key].process <= started
            /\ started \in Nat
        BY ReceiptIsTyped DEF LifeInv, KeysInv, Typed, HostOK, Receipt
      <3>2. host'.process # opens[call[a].key].process
        BY <2>1, <3>1
      <3> QED
        BY <1>1, <1>2, <2>1, <3>2 DEF Records, OpenOf, Pending, OpenLabels
    <2> QED
      BY <1>1, <1>2, <2>1, <2>2, <2>3, Turns
  <1>4. CASE /\ SameStart(a) /\ host.project \in {"none", "saved"}
             /\ call' = [call EXCEPT ![a].process = host.process,
                                     ![a].manager = InManager, ![a].attach = InWindow]
             /\ holder' = [holder EXCEPT !.operation = None, !.connection = None]
             /\ Goto(a, "open_prepare") /\ UNCHANGED <<host, started, loops>>
    <2>1. /\ holder' \in [Locks -> Actors \cup {None}] /\ holder'["project_open"] = a
          /\ \A b \in Actors \ {a}, l \in Serial : holder[l] = b => holder'[l] = b
      BY <1>1, <1>4 DEF LocalOK, Locks, Serial
    <2>2. /\ call' \in [Actors -> Calls] /\ \A b \in Actors \ {a} : call'[b] = call[b]
          /\ call'[a].process = host.process
          /\ call'[a].key = call[a].key /\ call'[a].tries = call[a].tries
      <3>1. host.process \in 0 .. MaxProcess /\ InManager \in BOOLEAN /\ InWindow \in BOOLEAN
        BY DEF LifeInv, Typed, HostOK, InManager, InWindow
      <3> DEFINE one == [call EXCEPT ![a].process = host.process]
                 two == [one EXCEPT ![a].manager = InManager]
      <3>2. /\ one \in [Actors -> Calls] /\ \A b \in Actors \ {a} : one[b] = call[b]
            /\ one[a].process = host.process
            /\ one[a].key = call[a].key /\ one[a].tries = call[a].tries
        BY <1>1, <3>1 DEF LocalOK, Calls
      <3>3. /\ two \in [Actors -> Calls] /\ \A b \in Actors \ {a} : two[b] = one[b]
            /\ two[a].process = one[a].process
            /\ two[a].key = one[a].key /\ two[a].tries = one[a].tries
        <4> HIDE DEF one
        <4> QED
          BY <3>1, <3>2 DEF Calls
      <3>4. call' = [two EXCEPT ![a].attach = InWindow]
        BY <1>4
      <3>5. /\ call' \in [Actors -> Calls] /\ \A b \in Actors \ {a} : call'[b] = two[b]
            /\ call'[a].process = two[a].process
            /\ call'[a].key = two[a].key /\ call'[a].tries = two[a].tries
        <4> HIDE DEF one, two
        <4> QED
          BY <3>1, <3>3, <3>4 DEF Calls
      <3> HIDE DEF one, two
      <3> QED
        BY <3>2, <3>3, <3>5
    <2>3. Moves(a) /\ pc'[a] = "open_prepare"
      BY <1>1, <1>4, <2>1, <2>2 DEF LocalOK, Moves, Goto, Labels, OpenLabels
    <2>4. CallOf(a)'
      BY <1>1, <2>2, <2>3 DEF CallOf, OpenLabels
    <2>5. /\ host.process = started /\ started # 0 /\ started \in Processes
          /\ opens[call[a].key].process < started
      <3>1. opens[call[a].key].process \in Nat /\ opens[call[a].key].process <= started
        BY ReceiptIsTyped DEF LifeInv, KeysInv, Receipt
      <3>2. Running /\ host.process = started /\ started \in 0 .. MaxProcess
        BY <1>4 DEF SameStart, LifeInv, HostInv, Typed, HostOK
      <3> QED
        BY <1>1, <3>1, <3>2 DEF OpenOf, Running, Processes
    <2>6. sent[call[a].key][started] = 0
      <3>1. call[a].key \in OpenKeys /\ opens[call[a].key].process \in Nat
        BY ReceiptIsTyped DEF LifeInv, Receipt
      <3> QED
        BY <2>5, <3>1 DEF LifeInv, KeysInv, Processes
    <2>7. opens[call[a].key].process \in Nat /\ started \in Nat
      BY ReceiptIsTyped DEF LifeInv, Receipt, Typed, HostOK
    <2>8. OpenOf(a)'
      BY <1>1, <1>2, <1>4, <2>2, <2>3, <2>5, <2>6, <2>7
         DEF Records, OpenOf, Pending, OpenLabels
    <2>9. UNCHANGED Elsewhere
      BY <1>2, <1>4 DEF Records, Elsewhere
    <2> QED
      BY <2>1, <2>3, <2>4, <2>8, <2>9, OpenerTurns DEF OpenLabels
  <1>5. CASE Leave(a) /\ UNCHANGED <<host, started, loops>>
    BY <1>1, <1>2, <1>5, LeaveKeeps DEF Records, Elsewhere, OpenLabels
  <1> QED
    BY <1>3, <1>4, <1>5 DEF StartUp

\* The receipt of a key changes only under project_open.lock, and never goes back.
LEMMA SaveKeeps ==
    ASSUME LifeInv, NEW a \in Actors, NEW receipt \in Receipts, Save(a, receipt),
           pc[a] \in OpenLabels \ {"open_begin"}, Moves(a),
           UNCHANGED <<working, environment, journal, writes, creation, routes, intent,
                       history>>,
           receipt.status # "none",
           receipt.process <= started, opens[call[a].key].process <= receipt.process,
           receipt.status = "rejected" /\ receipt.why = "window" /\ receipt.process # 0
              => sent[call[a].key][receipt.process] = 0,
           pc'[a] \in {"idle", "auto_next"} \cup (OpenLabels \ {"open_startup"}),
           pc'[a] \in OpenLabels => holder'["project_open"] = a,
           pc'[a] = "open_release" => holder'["operation"] = a /\ ~shut,
           CallOf(a)', OpenOf(a)'
    PROVE  LifeInv'
  <1>1. /\ holder["project_open"] = a /\ OpenOf(a) /\ call[a].key \in OpenKeys
        /\ LocalOK /\ OpensOK
    BY ReceiptIsTyped DEF LifeInv, Typed, LockInv, OpenInv
  <1> DEFINE key == call[a].key
  <1>2. opens' = [opens EXCEPT ![key] = receipt]
    BY DEF Save
  <1>3. /\ opens' \in [OpenKeys -> Receipts] /\ opens'[key] = receipt
        /\ \A k \in OpenKeys \ {key} : opens'[k] = opens[k]
    BY <1>1, <1>2 DEF OpensOK
  <1>4. \A k \in OpenKeys \ {key} : ~Pending(k) /\ ~Pending(k)'
    BY <1>1, <1>3 DEF OpenOf, Pending
  <1>5. Typed'
    <2>1. OpensOK'
      BY <1>1, <1>3 DEF OpensOK
    <2>2. LocalOK' /\ HostOK' /\ HistoryOK'
      BY DEF Moves, LifeInv, Typed, HostOK, HistoryOK
    <2>3. ActiveOK' /\ WritesOK' /\ CreationOK' /\ RoutesOK'
      BY DEF LifeInv, Typed, ActiveOK, WritesOK, CreationOK, RoutesOK
    <2> QED
      BY <2>1, <2>2, <2>3 DEF Typed
  <1>6. LockInv'
    BY <1>1, LockKeeps DEF LifeInv, OperationLabels, OpenLabels, CreateLabels, CloseLabels
  <1>7. CallInv'
    BY CallOfOne DEF LifeInv
  <1>8. KeysInv'
    <2>1. \A k, l \in OpenKeys : Pending(k)' /\ Pending(l)' => k = l
      BY <1>4
    <2>2. ASSUME NEW k \in OpenKeys
          PROVE  /\ opens'[k].process <= started
                 /\ opens'[k].status = "none" => opens'[k].process = 0
                 /\ \A p \in Processes :
                     /\ sent[k][p] \in {0, 1}
                     /\ sent[k][p] = 1 => p <= opens'[k].process
                 /\ opens'[k].status = "rejected" /\ opens'[k].why = "window"
                    /\ opens'[k].process # 0 => sent[k][opens'[k].process] = 0
      <3>1. CASE k = key
        <4>1. /\ opens[key].process \in Nat /\ receipt.process \in Nat
              /\ opens[key].process <= receipt.process
          BY <1>1 DEF OpensOK, Receipts
        <4>2. \A p \in Processes : p \in Nat /\ sent[key][p] \in {0, 1}
                 /\ (sent[key][p] = 1 => p <= opens[key].process)
          BY <1>1 DEF LifeInv, KeysInv, Processes
        <4> QED
          BY <1>3, <3>1, <4>1, <4>2
      <3>2. CASE k # key
        BY <1>3, <3>2 DEF LifeInv, KeysInv
      <3> QED
        BY <3>1, <3>2
    <2> QED
      BY <2>1, <2>2 DEF KeysInv
  <1>9. OpenInv'
    <2> SUFFICES ASSUME NEW b \in Actors, b # a PROVE OpenOf(b)'
      BY DEF OpenInv
    <2>1. pc'[b] \notin OpenLabels
      BY <1>1 DEF LifeInv, LockInv, Moves
    <2> QED
      BY <2>1 DEF OpenOf, OpenLabels
  <1>10. HostInv'
    BY DEF LifeInv, HostInv, Running
  <1>11. MenuInv'
    <2>1. Quiet({"menu", "create_invoke"})
      BY MovesQuiet DEF OpenLabels
    <2> QED
      BY <2>1, MenuElsewhere DEF LifeInv
  <1>12. CreateInv'
    <2>1. Quiet(CreateLabels)
      BY MovesQuiet DEF OpenLabels, CreateLabels
    <2> QED
      BY <2>1, CreateElsewhere DEF LifeInv
  <1>13. CloseInv'
    <2>1. CASE pc'[a] # "open_release"
      <3>1. Quiet(CloseLabels \cup {"open_release", "create_release"})
        BY <2>1, MovesQuiet DEF OpenLabels, CloseLabels
      <3> QED
        BY <3>1, CloseElsewhere DEF LifeInv
    <2>2. CASE pc'[a] = "open_release"
      <3>1. ~shut
        BY <2>2
      <3>2. Quiet(CloseLabels)
        BY <2>2, MovesQuiet DEF CloseLabels
      <3> QED
        BY <3>1, <3>2 DEF LifeInv, CloseInv, CloseOf, HoldInv, Quiet, CloseLabels, Refused, Actors
    <2> QED
      BY <2>1, <2>2
  <1>14. WriteInv'
    <2>1. Quiet({"send"})
      BY MovesQuiet DEF OpenLabels
    <2> QED
      BY <2>1, WriteElsewhere DEF LifeInv
  <1> QED
    BY <1>5, <1>6, <1>7, <1>8, <1>9, <1>10, <1>11, <1>12, <1>13, <1>14 DEF LifeInv

Refusal(r, why) == [r EXCEPT !.status = "rejected", !.why = why]
Waiting(r, g, status) == [r EXCEPT !.status = status, !.bound = g]

LEMMA RejectedReceipt ==
    ASSUME NEW r \in Receipts, NEW why \in {"none", "window", "transient", "other"}
    PROVE  /\ Refusal(r, why) \in Receipts /\ Refusal(r, why).process = r.process
           /\ Refusal(r, why).status = "rejected"
  BY DEF Receipts, Refusal

LEMMA SentReceipt ==
    ASSUME NEW r \in Receipts
    PROVE  /\ [r EXCEPT !.status = "awaiting_native"] \in Receipts
           /\ [r EXCEPT !.status = "awaiting_native"].process = r.process
           /\ [r EXCEPT !.status = "awaiting_native"].status = "awaiting_native"
  BY DEF Receipts, PendingStatuses

LEMMA BoundReceipt ==
    ASSUME NEW r \in Receipts, NEW g \in 0 .. MaxGeneration,
           NEW status \in {"awaiting_native", "completed"}
    PROVE  /\ Waiting(r, g, status) \in Receipts /\ Waiting(r, g, status).process = r.process
           /\ Waiting(r, g, status).status = status
  BY DEF Receipts, PendingStatuses, Waiting

\* A receipt that is saved for a call leaves the other keys alone.
LEMMA Saved ==
    ASSUME LifeInv, NEW a \in Actors, NEW receipt, Save(a, receipt),
           pc[a] \in OpenLabels \ {"open_begin"}
    PROVE  /\ opens'[call[a].key] = receipt
           /\ \A l \in OpenKeys \ {call[a].key} : ~Pending(l) /\ ~Pending(l)'
  BY ReceiptIsTyped DEF Save, LifeInv, Typed, OpensOK, OpenInv, OpenOf, Pending

LEMMA PrepareOpenKeeps ==
    ASSUME LifeInv, NEW a \in Actors, PrepareOpen(a)
    PROVE  LifeInv'
  <1> DEFINE key == call[a].key
             process == call[a].process
             Rest == UNCHANGED <<working, environment, journal, writes, creation, routes,
                                 intent, history>>
  <1>1. /\ holder["project_open"] = a /\ OpenOf(a) /\ CallOf(a) /\ LocalOK
        /\ pc[a] = "open_prepare" /\ Free("operation") /\ Rest
        /\ pc[a] \in OpenLabels \ {"open_begin"}
    BY DEF PrepareOpen, LifeInv, Typed, LockInv, OpenInv, CallInv, OpenLabels
  <1>2. /\ process \in 0 .. MaxProcess /\ process # 0 /\ process <= started
        /\ sent[key][process] = 0 /\ opens[key].process <= process
        /\ active.generation \in 0 .. MaxGeneration
    BY <1>1, ReceiptIsTyped DEF OpenOf, LifeInv, Typed, ActiveOK
  <1>3. CASE Leave(a) /\ UNCHANGED opens
    BY <1>1, <1>3, LeaveKeeps DEF Elsewhere
  <1>4. CASE /\ Verified("saved") /\ Save(a, Completed(a))
             /\ Held("operation", a) /\ Goto(a, "open_release") /\ UNCHANGED call
    <2>1. Completed(a) \in Receipts /\ Completed(a).process = process
          /\ Completed(a).status = "completed"
      BY <1>2 DEF Completed, Receipts
    <2>2. /\ Moves(a) /\ pc'[a] = "open_release" /\ holder'["operation"] = a
          /\ holder'["project_open"] = a
      BY <1>1, <1>4, HeldMoves DEF Locks, Labels, OpenLabels
    <2>3. ~shut
      BY <1>4 DEF Verified, LifeInv, HostInv
    <2>4. CallOf(a)'
      BY <1>1, <1>4, <2>2 DEF CallOf, OpenLabels
    <2>5. OpenOf(a)'
      BY <1>1, <1>4, <2>2, Saved DEF OpenOf
    <2> QED
      BY <1>1, <1>2, <1>4, <2>1, <2>2, <2>3, <2>4, <2>5, SaveKeeps DEF OpenLabels
  <1>5. CASE /\ Save(a, [status |-> "rejected", process |-> process, bound |-> 0,
                         why |-> "other"])
             /\ Leave(a)
    <2> DEFINE receipt == [status |-> "rejected", process |-> process, bound |-> 0,
                           why |-> "other"]
    <2>1. receipt \in Receipts
      BY <1>2, BoundsAssumption DEF Receipts
    <2>2. /\ Moves(a) /\ pc'[a] \in {"idle", "auto_next"}
          /\ pc'[a] = "auto_next" => call'[a].key = call[a].key
          /\ call'[a].tries \in {0, call[a].tries}
      BY <1>1, <1>5, LeaveMoves
    <2>3. CallOf(a)'
      BY <1>1, <2>2, BoundsAssumption DEF CallOf, OpenLabels
    <2>4. OpenOf(a)'
      BY <2>2 DEF OpenOf, OpenLabels
    <2> QED
      BY <1>1, <1>2, <1>5, <2>1, <2>2, <2>3, <2>4, SaveKeeps DEF OpenLabels
  <1>6. CASE \E status \in {"awaiting_native", "dispatch_started"},
                next \in {"open_wait", "open_invoke"} :
               /\ Save(a, [status |-> status, process |-> process, bound |-> 0,
                           why |-> "none"])
               /\ Goto(a, next) /\ UNCHANGED <<holder, call>>
    <2>1. PICK status \in {"awaiting_native", "dispatch_started"},
               next \in {"open_wait", "open_invoke"} :
               /\ Save(a, [status |-> status, process |-> process, bound |-> 0,
                           why |-> "none"])
               /\ Goto(a, next) /\ UNCHANGED <<holder, call>>
      BY <1>6
    <2> DEFINE receipt == [status |-> status, process |-> process, bound |-> 0,
                           why |-> "none"]
    <2>2. receipt \in Receipts
      BY <1>2, BoundsAssumption DEF Receipts, PendingStatuses
    <2>3. Moves(a) /\ pc'[a] = next
      BY <1>1, <2>1, GotoMoves DEF Labels, OpenLabels
    <2>4. CallOf(a)'
      BY <1>1, <2>1, <2>3 DEF CallOf, OpenLabels
    <2>5. /\ opens'[key] = receipt /\ key' = key
          /\ \A l \in OpenKeys \ {key} : ~Pending(l) /\ ~Pending(l)'
      BY <1>1, <2>1, Saved
    <2>6. OpenOf(a)'
      BY <1>1, <1>2, <2>1, <2>3, <2>5 DEF OpenOf, Pending, PendingStatuses
    <2> QED
      BY <1>1, <1>2, <2>1, <2>2, <2>3, <2>4, <2>6, SaveKeeps DEF OpenLabels
  <1> QED
    BY <1>3, <1>4, <1>5, <1>6 DEF PrepareOpen

LEMMA PersistRejectedKeeps ==
    ASSUME LifeInv, NEW a \in Actors, PersistRejected(a)
    PROVE  LifeInv'
  <1> DEFINE key == call[a].key
             Rest == UNCHANGED <<working, environment, journal, writes, creation, routes,
                                 intent, history>>
  <1>1. /\ OpenOf(a) /\ CallOf(a) /\ LocalOK /\ Rest /\ Leave(a)
        /\ pc[a] = "open_refused" /\ pc[a] \in OpenLabels \ {"open_begin"}
    BY DEF PersistRejected, LifeInv, Typed, OpenInv, CallInv, OpenLabels
  <1>2. CASE UNCHANGED opens
    BY <1>1, <1>2, LeaveKeeps DEF Elsewhere
  <1>3. CASE \E why \in RetryCauses(a) \cup {"other"} :
                Save(a, [Receipt(a) EXCEPT !.status = "rejected", !.why = why])
    <2>1. PICK why \in {"window", "transient", "other"} : Save(a, Refusal(Receipt(a), why))
      BY <1>3 DEF RetryCauses, Refusal
    <2> DEFINE receipt == Refusal(Receipt(a), why)
    <2>2. /\ receipt \in Receipts /\ receipt.status = "rejected"
          /\ receipt.process = opens[key].process
      BY ReceiptIsTyped, RejectedReceipt DEF LifeInv
    <2>3. /\ opens[key].process = call[a].process /\ call[a].process <= started
          /\ sent[key][call[a].process] = 0 /\ opens[key].process \in Nat
      BY <1>1, ReceiptIsTyped DEF OpenOf, LifeInv
    <2>4. /\ Moves(a) /\ pc'[a] \in {"idle", "auto_next"}
          /\ pc'[a] = "auto_next" => call'[a].key = call[a].key
          /\ call'[a].tries \in {0, call[a].tries}
      BY <1>1, LeaveMoves
    <2>5. CallOf(a)'
      BY <1>1, <2>4, BoundsAssumption DEF CallOf, OpenLabels
    <2>6. OpenOf(a)'
      BY <2>4 DEF OpenOf, OpenLabels
    <2> HIDE DEF receipt
    <2>7. Save(a, receipt)
      BY <2>1 DEF receipt
    <2> QED
      BY <1>1, <2>2, <2>3, <2>4, <2>5, <2>6, <2>7, SaveKeeps DEF OpenLabels
  <1> QED
    BY <1>2, <1>3 DEF PersistRejected

LEMMA PersistSentKeeps ==
    ASSUME LifeInv, NEW a \in Actors, PersistSent(a)
    PROVE  LifeInv'
  <1> DEFINE key == call[a].key
             Rest == UNCHANGED <<working, environment, journal, writes, creation, routes,
                                 intent, holder, history>>
  <1>1. /\ holder["project_open"] = a /\ OpenOf(a) /\ CallOf(a) /\ LocalOK /\ Rest
        /\ Goto(a, "open_wait") /\ Forget(a)
        /\ pc[a] = "open_sent" /\ pc[a] \in OpenLabels \ {"open_begin"}
    BY DEF PersistSent, LifeInv, Typed, LockInv, OpenInv, CallInv, OpenLabels
  <1>2. /\ Moves(a) /\ pc'[a] = "open_wait" /\ call'[a].key = call[a].key
        /\ call'[a].tries = call[a].tries
    BY <1>1, ForgetIsTyped DEF LocalOK, Moves, Goto, Labels, OpenLabels
  <1>3. CallOf(a)'
    BY <1>1, <1>2 DEF CallOf, OpenLabels
  <1>4. CASE UNCHANGED opens
    <2>1. OpenOf(a)'
      BY <1>1, <1>2, <1>4 DEF OpenOf, Pending, OpenLabels
    <2> QED
      BY <1>1, <1>2, <1>3, <1>4, <2>1, OpenerTurns DEF Elsewhere, OpenLabels
  <1>5. CASE Save(a, [Receipt(a) EXCEPT !.status = "awaiting_native"])
    <2> DEFINE receipt == [Receipt(a) EXCEPT !.status = "awaiting_native"]
    <2>1. /\ receipt \in Receipts /\ receipt.status = "awaiting_native"
          /\ receipt.process = opens[key].process
      <3>1. Receipt(a) \in Receipts /\ Receipt(a).process = opens[key].process
        BY ReceiptIsTyped DEF LifeInv
      <3> QED
        BY <3>1, SentReceipt, Zenon
    <2>2. opens[key].process \in Nat /\ opens[key].process <= started
      BY ReceiptIsTyped DEF LifeInv, KeysInv, Receipt
    <2> HIDE DEF receipt
    <2>3. Save(a, receipt)
      BY <1>5 DEF receipt
    <2>4. OpenOf(a)'
      BY <1>1, <1>2, <2>3, Saved DEF OpenOf
    <2> QED
      BY <1>1, <1>2, <1>3, <2>1, <2>2, <2>3, <2>4, SaveKeeps DEF OpenLabels
  <1> QED
    BY <1>4, <1>5 DEF PersistSent

LEMMA WaitOpenKeeps ==
    ASSUME LifeInv, NEW a \in Actors, WaitOpen(a)
    PROVE  LifeInv'
  <1> DEFINE key == call[a].key
             Rest == UNCHANGED <<working, environment, journal, writes, creation, routes,
                                 intent, history>>
             Waits(status) == Waiting(Receipt(a), active.generation, status)
  <1>1. /\ holder["project_open"] = a /\ OpenOf(a) /\ CallOf(a) /\ LocalOK /\ Rest
        /\ pc[a] = "open_wait" /\ pc[a] \in OpenLabels \ {"open_begin"}
    BY DEF WaitOpen, LifeInv, Typed, LockInv, OpenInv, CallInv, OpenLabels
  <1>2. ASSUME NEW status \in {"awaiting_native", "completed"}
        PROVE  /\ Waits(status) \in Receipts /\ Waits(status).status = status
               /\ Waits(status).process = opens[key].process
    <2>1. active.generation \in 0 .. MaxGeneration
      BY DEF LifeInv, Typed, ActiveOK
    <2> QED
      BY <2>1, ReceiptIsTyped, BoundReceipt DEF LifeInv
  <1>3. opens[key].process \in Nat /\ opens[key].process <= started
    BY ReceiptIsTyped DEF LifeInv, KeysInv, Receipt
  <1> HIDE DEF Waits
  <1>4. CASE Leave(a) /\ UNCHANGED opens
    BY <1>1, <1>4, LeaveKeeps DEF Elsewhere
  <1>5. CASE /\ Verified("saved") /\ Save(a, Waits("completed"))
             /\ Free("operation") /\ Held("operation", a)
             /\ Goto(a, "open_release") /\ UNCHANGED call
    <2>1. /\ Moves(a) /\ pc'[a] = "open_release" /\ holder'["operation"] = a
          /\ holder'["project_open"] = a
      BY <1>1, <1>5, HeldMoves DEF Locks, Labels, OpenLabels
    <2>2. ~shut
      BY <1>5 DEF Verified, LifeInv, HostInv
    <2>3. CallOf(a)'
      BY <1>1, <1>5, <2>1 DEF CallOf, OpenLabels
    <2>4. OpenOf(a)'
      BY <1>1, <1>5, <2>1, Saved DEF OpenOf
    <2> QED
      BY <1>1, <1>2, <1>3, <1>5, <2>1, <2>2, <2>3, <2>4, SaveKeeps DEF OpenLabels
  <1>6. CASE Save(a, Waits("awaiting_native")) /\ Leave(a)
    <2>1. /\ Moves(a) /\ pc'[a] \in {"idle", "auto_next"}
          /\ pc'[a] = "auto_next" => call'[a].key = call[a].key
          /\ call'[a].tries \in {0, call[a].tries}
      BY <1>1, <1>6, LeaveMoves
    <2>2. CallOf(a)'
      BY <1>1, <2>1, BoundsAssumption DEF CallOf, OpenLabels
    <2>3. OpenOf(a)'
      BY <2>1 DEF OpenOf, OpenLabels
    <2> QED
      BY <1>1, <1>2, <1>3, <1>6, <2>1, <2>2, <2>3, SaveKeeps DEF OpenLabels
  <1>7. CASE Save(a, Waits("awaiting_native")) /\ UNCHANGED local
    <2>1. Moves(a) /\ pc'[a] = "open_wait"
      BY <1>1, <1>7 DEF Moves, LocalOK
    <2>2. CallOf(a)'
      BY <1>1, <1>7 DEF CallOf
    <2>3. OpenOf(a)'
      BY <1>1, <1>7, Saved DEF OpenOf
    <2> QED
      BY <1>1, <1>2, <1>3, <1>7, <2>1, <2>2, <2>3, SaveKeeps DEF OpenLabels
  <1> QED
    BY <1>4, <1>5, <1>6, <1>7 DEF WaitOpen, Waits, Waiting

\* The hold of a closed project ends while a project is known to be open.
LEMMA ReleaseKeeps ==
    ASSUME LifeInv, NEW a \in Actors, pc[a] \in {"open_release", "create_release"}, Moves(a),
           pc'[a] \in {"idle", "auto_next"}, CallOf(a)',
           intent' = IF intent.phase = "closed" THEN [phase |-> "none", by |-> None] ELSE intent,
           UNCHANGED <<working, environment, journal, writes, opens, creation, routes, history>>
    PROVE  LifeInv'
  <1>1. /\ intent' \in [phase: {"none", "pending", "closed"}, by: Closers \cup {None}]
        /\ intent.phase = "pending" => intent'.phase = "pending"
        /\ ~shut
    BY DEF LifeInv, Typed, RoutesOK, CloseInv, CloseOf, HoldInv
  <1>2. Typed'
    BY <1>1 DEF LifeInv, Typed, Moves, HostOK, ActiveOK, WritesOK, OpensOK,
       CreationOK, RoutesOK, HistoryOK
  <1>3. LockInv'
    BY LockKeeps DEF LifeInv, Typed, OperationLabels, OpenLabels, CreateLabels, CloseLabels
  <1>4. CallInv'
    BY CallOfOne DEF LifeInv
  <1>5. KeysInv' /\ HostInv'
    BY DEF LifeInv, KeysInv, HostInv, Pending, Running
  <1>6. OpenInv'
    <2>1. OpenOf(a)' /\ HostMoves
      BY HostStands DEF OpenOf, OpenLabels, LifeInv, Typed
    <2> QED
      BY <2>1, OpenOfOne DEF LifeInv
  <1>7. MenuInv' /\ CreateInv' /\ WriteInv'
    <2>1. Quiet({"menu", "create_invoke"}) /\ Quiet(CreateLabels) /\ Quiet({"send"})
      BY MovesQuiet DEF CreateLabels
    <2> QED
      BY <2>1, MenuElsewhere, CreateElsewhere, WriteElsewhere DEF LifeInv
  <1>8. CloseInv'
    <2>1. Quiet(CloseLabels)
      BY MovesQuiet DEF CloseLabels
    <2> QED
      BY <1>1, <2>1 DEF LifeInv, CloseInv, CloseOf, HoldInv, Quiet, CloseLabels, Refused, Actors
  <1> QED
    BY <1>2, <1>3, <1>4, <1>5, <1>6, <1>7, <1>8 DEF LifeInv

LEMMA ReleaseHoldKeeps ==
    ASSUME LifeInv, NEW a \in Actors, ReleaseHold(a)
    PROVE  LifeInv'
  <1>1. /\ CallOf(a) /\ LocalOK /\ Leave(a) /\ pc[a] = "open_release"
        /\ UNCHANGED <<working, environment, journal, writes, opens, creation, routes, history>>
    BY DEF ReleaseHold, LifeInv, Typed, CallInv
  <1>2. /\ Moves(a) /\ pc'[a] \in {"idle", "auto_next"}
        /\ pc'[a] = "auto_next" => call'[a].key = call[a].key
        /\ call'[a].tries \in {0, call[a].tries}
    BY <1>1, LeaveMoves
  <1>3. CallOf(a)'
    BY <1>1, <1>2, BoundsAssumption DEF CallOf, OpenLabels
  <1> QED
    BY <1>1, <1>2, <1>3, ReleaseKeeps DEF ReleaseHold

\* A dispatch that may have reached Resolve is counted once for its key and process.
LEMMA UiOpenKeeps ==
    ASSUME LifeInv, NEW a \in Actors, UiOpen(a)
    PROVE  LifeInv'
  <1> DEFINE key == call[a].key
             process == call[a].process
  <1>1. /\ holder["project_open"] = a /\ OpenOf(a) /\ CallOf(a) /\ LocalOK
        /\ pc[a] = "open_invoke" /\ key \in OpenKeys /\ process \in Processes
        /\ UNCHANGED <<working, started, loops, exited, journal, writes, services,
                       holder, call, invoked, created, closed>>
    <2>1. process \in 0 .. MaxProcess /\ key \in OpenKeys
      BY ReceiptIsTyped DEF LifeInv
    <2> QED
      BY <2>1 DEF UiOpen, LifeInv, Typed, LockInv, OpenInv, CallInv, OpenLabels, OpenOf,
         Processes
  <1>2. CASE Goto(a, "open_refused") /\ UNCHANGED <<host, shut, sent>>
    <2>1. Moves(a) /\ pc'[a] = "open_refused"
      BY <1>1, <1>2, GotoMoves DEF Labels, OpenLabels
    <2>2. CallOf(a)'
      BY <1>1, <1>2, <2>1 DEF CallOf, OpenLabels
    <2>3. OpenOf(a)'
      BY <1>1, <1>2, <2>1 DEF OpenOf, Pending, OpenLabels
    <2> QED
      BY <1>1, <1>2, <2>1, <2>2, <2>3, OpenerTurns DEF Elsewhere, OpenLabels
  <1>3. CASE /\ sent' = [sent EXCEPT ![key][process] = @ + 1] /\ Goto(a, "open_sent")
             /\ host'.process = host.process /\ HostChange
    <2>1. Moves(a) /\ pc'[a] = "open_sent"
      BY <1>1, <1>3, GotoMoves DEF Labels, OpenLabels
    <2>2. /\ opens[key].process = process /\ sent[key][process] = 0 /\ Pending(key)
          /\ \A l \in OpenKeys \ {key} : ~Pending(l)
      BY <1>1 DEF OpenOf, OpenLabels
    <2>3. /\ sent' \in [OpenKeys -> [Processes -> Nat]] /\ sent'[key][process] = 1
          /\ \A k \in OpenKeys, p \in Processes :
                <<k, p>> # <<key, process>> => sent'[k][p] = sent[k][p]
      BY <1>1, <1>3, <2>2 DEF LifeInv, Typed, OpensOK
    <2>4. Typed'
      <3>1. LocalOK' /\ HostOK' /\ OpensOK'
        BY <1>1, <1>3, <2>1, <2>3 DEF Moves, HostChange, LifeInv, Typed, OpensOK
      <3>2. HistoryOK'
        <4>1. shut' \in BOOLEAN
          BY <1>3 DEF HostChange
        <4> QED
          BY <1>1, <4>1 DEF LifeInv, Typed, HistoryOK
      <3>3. ActiveOK' /\ WritesOK' /\ CreationOK' /\ RoutesOK'
        BY <1>1 DEF LifeInv, Typed, ActiveOK, WritesOK, CreationOK, RoutesOK
      <3> QED
        BY <3>1, <3>2, <3>3 DEF Typed
    <2>5. LockInv'
      BY <1>1, <2>1, LockKeeps DEF LifeInv, OperationLabels, OpenLabels, CreateLabels,
         CloseLabels
    <2>6. CallInv'
      <3>1. CallOf(a)'
        BY <1>1, <2>1 DEF CallOf, OpenLabels
      <3> QED
        BY <2>1, <3>1, CallOfOne DEF LifeInv
    <2>7. KeysInv'
      <3>1. \A k, l \in OpenKeys : Pending(k)' /\ Pending(l)' => k = l
        BY <1>1 DEF LifeInv, KeysInv, Pending
      <3>2. ASSUME NEW k \in OpenKeys
            PROVE  /\ opens'[k].process <= started'
                   /\ opens'[k].status = "none" => opens'[k].process = 0
                   /\ opens'[k].status = "rejected" /\ opens'[k].why = "window"
                      /\ opens'[k].process # 0 => sent'[k][opens'[k].process] = 0
        <4>1. /\ opens'[k].process <= started'
              /\ opens'[k].status = "none" => opens'[k].process = 0
          BY <1>1 DEF LifeInv, KeysInv
        <4>2. ASSUME opens[k].status = "rejected", opens[k].why = "window",
                     opens[k].process # 0
              PROVE  sent'[k][opens[k].process] = 0
          <5>1. opens[k].process \in Processes /\ sent[k][opens[k].process] = 0
            BY <4>2 DEF LifeInv, KeysInv, Typed, OpensOK, Receipts, Processes
          <5>2. k # key
            BY <2>2, <4>2 DEF Pending, PendingStatuses
          <5> QED
            BY <2>3, <5>1, <5>2
        <4> QED
          BY <1>1, <4>1, <4>2
      <3>3. ASSUME NEW k \in OpenKeys, NEW p \in Processes
            PROVE  /\ sent'[k][p] \in {0, 1}
                   /\ sent'[k][p] = 1 => p <= opens'[k].process
        <4>1. CASE k = key /\ p = process
          BY <1>1, <2>2, <2>3, <4>1 DEF Processes
        <4>2. CASE ~(k = key /\ p = process)
          BY <1>1, <2>3, <4>2 DEF LifeInv, KeysInv
        <4> QED
          BY <4>1, <4>2
      <3> QED
        BY <3>1, <3>2, <3>3 DEF KeysInv
    <2>8. OpenInv'
      <3> SUFFICES ASSUME NEW b \in Actors PROVE OpenOf(b)'
        BY DEF OpenInv
      <3>1. CASE b = a
        BY <1>1, <2>1, <2>2, <3>1 DEF OpenOf, Pending, OpenLabels, Processes
      <3>2. CASE b # a
        <4>1. pc'[b] \notin OpenLabels
          BY <1>1, <2>1, <3>2 DEF LifeInv, LockInv, Moves
        <4> QED
          BY <4>1 DEF OpenOf, OpenLabels
      <3> QED
        BY <3>1, <3>2
    <2>9. HostInv'
      BY <1>3 DEF HostChange
    <2>10. Quiet({"menu", "create_invoke"}) /\ Quiet(CreateLabels) /\ Quiet({"send"})
           /\ Quiet(CloseLabels \cup {"open_release", "create_release"})
      BY <2>1, MovesQuiet DEF CreateLabels, CloseLabels
    <2>11. shut' => shut
      BY <1>3 DEF HostChange
    <2>12. MenuInv' /\ CreateInv' /\ CloseInv'
      BY <1>1, <2>10, <2>11, MenuElsewhere, CreateElsewhere, CloseElsewhere DEF LifeInv
    <2>13. WriteInv'
      BY <1>1, <1>3, <2>10, WriteElsewhere DEF LifeInv
    <2> QED
      BY <2>4, <2>5, <2>6, <2>7, <2>8, <2>9, <2>12, <2>13 DEF LifeInv
  <1>4. CASE /\ InManager /\ host.process = process
             /\ host' = [host EXCEPT !.project = "saved"] /\ shut' = FALSE
             /\ sent' = [sent EXCEPT ![key][process] = @ + 1]
             /\ Goto(a, "open_sent")
    <2>1. HostChange /\ host'.process = host.process
      <3>1. HostOK' /\ host'.process = host.process
        BY <1>1, <1>4 DEF LifeInv, Typed, HostOK
      <3>2. HostMoves
        BY <1>1, <3>1 DEF LifeInv, Typed, HostOK, HostMoves
      <3>3. HostInv'
        BY <1>1, <1>4, <3>1 DEF LifeInv, HostInv, Running
      <3> QED
        BY <1>1, <1>4, <3>1, <3>2, <3>3 DEF HostChange
    <2> QED
      BY <1>3, <1>4, <2>1
  <1>5. CASE /\ sent' = [sent EXCEPT ![key][process] = @ + 1]
             /\ Goto(a, "open_sent") /\ UNCHANGED <<host, shut>>
    <2>1. HostChange
      BY <1>1, <1>5, NoHostChange
    <2> QED
      BY <1>3, <1>5, <2>1
  <1> QED
    BY <1>2, <1>4, <1>5 DEF UiOpen

LEMMA OpenStepKeeps ==
    ASSUME LifeInv, NEW a \in Actors, OpenStep(a)
    PROVE  LifeInv'
  BY BeginOpenKeeps, BeginKeeps, InspectOpenKeeps, RetryOpenKeeps, RecoverOpenKeeps,
     StartUpKeeps, PrepareOpenKeeps, UiOpenKeeps, PersistRejectedKeeps, PersistSentKeeps,
     WaitOpenKeeps, ReleaseHoldKeeps, GiveUpKeeps
     DEF OpenStep

-----------------------------------------------------------------------------
(* Automatic connection, and a new generation *)

LEMMA AutoBeginKeeps ==
    ASSUME LifeInv, NEW a \in Autos, AutoBegin(a)
    PROVE  LifeInv'
  <1>1. a \in Actors /\ LocalOK /\ CallOf(a)
    BY DEF LifeInv, Typed, Actors, CallInv
  <1>2. Moves(a) /\ pc'[a] = "auto_look" /\ UNCHANGED call
    BY <1>1, HeldMoves DEF AutoBegin, Locks, Labels, AutoLabels
  <1>3. CallOf(a)' /\ OpenOf(a)'
    BY <1>1, <1>2 DEF CallOf, OpenOf, OpenLabels
  <1> QED
    BY <1>1, <1>2, <1>3, OpenerTurns DEF AutoBegin, Elsewhere, AutoLabels, OpenLabels

LEMMA AutoLookKeeps ==
    ASSUME LifeInv, NEW a \in Autos, AutoLook(a)
    PROVE  LifeInv'
  <1>1. a \in Actors /\ LocalOK /\ CallOf(a)
    BY DEF LifeInv, Typed, Actors, CallInv
  <1>2. CASE Launch /\ Return(a)
    <2>1. Moves(a) /\ pc'[a] = "idle" /\ call'[a] = NoCall
      BY <1>1, <1>2, ReturnMoves
    <2>2. HostChange /\ UNCHANGED Records
      BY <1>2, LaunchChange DEF AutoLook, Records
    <2>3. CallOf(a)' /\ OpenOf(a)'
      BY <2>1, BoundsAssumption DEF CallOf, OpenOf, NoCall, OpenLabels
    <2> QED
      BY <1>1, <2>1, <2>2, <2>3, Turns
         DEF OperationLabels, OpenLabels, CreateLabels, CloseLabels
  <1>3. CASE /\ InManager /\ See(a) /\ Goto(a, "auto_open")
             /\ UNCHANGED <<host, started, loops, holder>>
    <2>1. /\ Moves(a) /\ pc'[a] = "auto_open" /\ call'[a].process # 0
          /\ call'[a].tries = call[a].tries
      BY <1>1, <1>3, SeeMoves DEF InManager, Labels, AutoLabels
    <2>2. CallOf(a)' /\ OpenOf(a)'
      BY <1>1, <2>1 DEF CallOf, OpenOf, OpenLabels
    <2>3. UNCHANGED Elsewhere
      BY <1>3 DEF AutoLook, Elsewhere
    <2> QED
      BY <1>1, <2>1, <2>2, <2>3, OpenerTurns DEF AutoLabels, OpenLabels
  <1>4. CASE Return(a) /\ UNCHANGED <<host, started, loops>>
    BY <1>1, <1>4, ReturnKeeps DEF AutoLook, Elsewhere
  <1> QED
    BY <1>2, <1>3, <1>4 DEF AutoLook

LEMMA AutoTargetKeeps ==
    ASSUME LifeInv, NEW a \in Autos, AutoTarget(a)
    PROVE  LifeInv'
  <1>1. a \in Actors /\ LocalOK /\ CallOf(a) /\ pc[a] = "auto_open"
    BY DEF LifeInv, Typed, Actors, CallInv, AutoTarget
  <1>2. CASE Return(a)
    BY <1>1, <1>2, ReturnKeeps DEF AutoTarget, Elsewhere
  <1>3. CASE /\ Free("project_open") /\ Held("project_open", a) /\ Goto(a, "open_begin")
             /\ call' = [call EXCEPT ![a].key = <<call[a].process, call[a].tries>>]
    <2>1. /\ <<call[a].process, call[a].tries>> \in Processes \X (0 .. Tries[a] - 1)
          /\ <<call[a].process, call[a].tries>> \in OpenKeys
      <3>1. call[a].process \in Processes /\ call[a].tries \in 0 .. Tries[a] - 1
        BY <1>1, ReceiptIsTyped DEF CallOf, LifeInv, Processes
      <3> QED
        BY <3>1 DEF OpenKeys, AutoKeys
    <2>2. /\ call' \in [Actors -> Calls] /\ \A b \in Actors \ {a} : call'[b] = call[b]
          /\ call'[a].key = <<call[a].process, call[a].tries>>
          /\ call'[a].tries = call[a].tries
      BY <1>1, <1>3, <2>1 DEF LocalOK, Calls
    <2>3. /\ holder' \in [Locks -> Actors \cup {None}] /\ holder'["project_open"] = a
          /\ \A b \in Actors \ {a}, l \in Serial : holder[l] = b => holder'[l] = b
      BY <1>1, <1>3, NoneIsNobody DEF LocalOK, Held, Free, Locks, Serial
    <2>4. Moves(a) /\ pc'[a] = "open_begin"
      BY <1>1, <1>3, <2>2, <2>3 DEF LocalOK, Moves, Goto, Labels, OpenLabels
    <2>5. CallOf(a)' /\ OpenOf(a)'
      BY <1>1, <2>1, <2>2, <2>4 DEF CallOf, OpenOf, OpenLabels
    <2> QED
      BY <1>1, <2>3, <2>4, <2>5, OpenerTurns DEF AutoTarget, Elsewhere, OpenLabels
  <1> QED
    BY <1>2, <1>3 DEF AutoTarget

LEMMA AutoNextKeeps ==
    ASSUME LifeInv, NEW a \in Autos, AutoNext(a)
    PROVE  LifeInv'
  <1>1. a \in Actors /\ LocalOK /\ CallOf(a) /\ pc[a] = "auto_next"
    BY DEF LifeInv, Typed, Actors, CallInv, AutoNext
  <1>2. CASE Return(a)
    BY <1>1, <1>2, ReturnKeeps DEF AutoNext, Elsewhere
  <1>3. CASE /\ call[a].tries + 1 < Tries[a] /\ Goto(a, "auto_open") /\ UNCHANGED holder
             /\ call' = [call EXCEPT ![a].tries = @ + 1, ![a].process = call[a].key[1]]
    <2>1. call[a].key[1] \in Processes /\ call[a].tries \in Nat
      BY <1>1 DEF CallOf, LocalOK, Calls
    <2> DEFINE again == [call EXCEPT ![a].tries = @ + 1]
    <2>2. /\ again \in [Actors -> Calls] /\ \A b \in Actors \ {a} : again[b] = call[b]
          /\ again[a].tries = call[a].tries + 1
      BY <1>1, <2>1 DEF LocalOK, Calls
    <2>3. call' = [again EXCEPT ![a].process = call[a].key[1]]
      BY <1>3
    <2>4. /\ call' \in [Actors -> Calls] /\ \A b \in Actors \ {a} : call'[b] = call[b]
          /\ call'[a].tries = call[a].tries + 1 /\ call'[a].process # 0
      <3> HIDE DEF again
      <3> QED
        BY <1>1, <2>1, <2>2, <2>3 DEF Calls, Processes
    <2> HIDE DEF again
    <2>5. Moves(a) /\ pc'[a] = "auto_open"
      BY <1>1, <1>3, <2>4 DEF LocalOK, Moves, Goto, Labels, AutoLabels
    <2>6. Tries[a] \in Nat
      BY BoundsAssumption
    <2>7. CallOf(a)' /\ OpenOf(a)'
      BY <1>1, <1>3, <2>1, <2>4, <2>5, <2>6 DEF CallOf, OpenOf, OpenLabels
    <2> QED
      BY <1>1, <2>5, <2>7, OpenerTurns DEF AutoNext, Elsewhere, AutoLabels, OpenLabels
  <1> QED
    BY <1>2, <1>3 DEF AutoNext

\* Nothing was invoked in a generation that is new, and no loop is left behind but by
\* a creation.
LEMMA Rotation ==
    ASSUME LifeInv, NEW p \in 0 .. MaxProcess, NEW adopt \in BOOLEAN,
           NewGeneration(p, adopt), UNCHANGED <<invoked, writes>>,
           \A b \in Actors : pc'[b] \notin {"menu", "create_invoke", "send"},
           loops' \subseteq loops, Overtaken' \/ loops' = {}, Overtaken => Overtaken'
    PROVE  ActiveOK' /\ exited' = FALSE /\ active'.generation # 0 /\ MenuInv' /\ WriteInv'
  <1>1. /\ active.generation \in 0 .. MaxGeneration /\ initial \in {0, 1}
        /\ initial <= active.generation /\ active.generation < MaxGeneration
        /\ MaxGeneration \in Nat
    BY BoundsAssumption DEF LifeInv, Typed, ActiveOK, WriteInv, NewGeneration
  <1>2. /\ active'.generation = active.generation + 1 /\ active'.dispatch_started = FALSE
        /\ active'.phase = "starting"
        /\ active' \in [generation: 0 .. MaxGeneration, process: 0 .. MaxProcess,
                        phase: Phases, dispatch_started: BOOLEAN]
    BY <1>1 DEF NewGeneration, Phases
  <1>3. /\ initial' \in {0, 1} /\ initial' <= active'.generation
        /\ initial' = initial \/ (initial = 0 /\ active.generation = 0)
    BY <1>1, <1>2 DEF NewGeneration
  <1>4. ActiveOK' /\ exited' = FALSE
    BY <1>1, <1>2, <1>3, BoundsAssumption DEF ActiveOK, NewGeneration
  <1>5. MenuInv'
    <2>1. \A g \in Generations : g \in Nat
      BY DEF Generations
    <2> QED
      BY <1>1, <1>2, <2>1 DEF LifeInv, MenuInv
  <1>6. WriteInv'
    <2>1. ASSUME NEW w \in Writers
          PROVE  /\ owners'[w] <= active'.generation
                 /\ pc'[w] = "send" => owners'[w] = active'.generation /\ owners'[w] # 0
      BY <1>1, <1>2 DEF LifeInv, WriteInv, Typed, WritesOK, Actors
    <2>2. ASSUME NEW w \in Writers, NEW g \in Generations
          PROVE  /\ applied'[w][g] \in {0, 1}
                 /\ receipts'[g][w] = "none" => applied'[w][g] = 0
                 /\ applied'[w][g] = 1 => g \in {owners'[w], initial'}
                 /\ ~Overtaken' /\ applied'[w][g] = 1 /\ g = initial' => owners'[w] \in {0, g}
      <3>1. g \in Nat \ {0} /\ owners[w] \in Nat /\ owners[w] <= active.generation
        BY DEF Generations, LifeInv, WriteInv, Typed, WritesOK
      <3>2. CASE initial' = initial
        BY <3>2 DEF LifeInv, WriteInv
      <3>3. CASE initial = 0 /\ active.generation = 0
        <4>1. applied[w][g] # 1
          BY <3>1, <3>3 DEF LifeInv, WriteInv
        <4>2. applied[w][g] \in {0, 1} /\ (receipts[g][w] = "none" => applied[w][g] = 0)
          BY DEF LifeInv, WriteInv
        <4> QED
          BY <4>1, <4>2
      <3> QED
        BY <1>3, <3>2, <3>3
    <2> QED
      BY <1>3, <2>1, <2>2 DEF WriteInv
  <1> QED
    BY <1>2, <1>1, <1>4, <1>5, <1>6

LEMMA AutoRotateKeeps ==
    ASSUME LifeInv, NEW a \in Autos, AutoRotate(a)
    PROVE  LifeInv'
  <1>1. /\ a \in Actors /\ LocalOK /\ CallOf(a) /\ Return(a)
        /\ UNCHANGED <<working, host, started, writes, services, history>>
        /\ NewGeneration(host.process, FALSE) /\ loops' = loops \ {active.generation}
        /\ \A b \in Actors : pc[b] \notin OperationLabels
    BY FreeLocks DEF LifeInv, Typed, Actors, CallInv, AutoRotate
  <1>2. Moves(a) /\ pc'[a] = "idle" /\ call'[a] = NoCall
    BY <1>1, ReturnMoves
  <1>3. \A b \in Actors : pc'[b] \notin OperationLabels
    BY <1>1, <1>2 DEF Moves, OperationLabels, CreateLabels, CloseLabels
  <1>4. ActiveOK' /\ exited' = FALSE /\ MenuInv' /\ WriteInv'
    <2>1. Overtaken' = Overtaken /\ (Overtaken \/ loops' = {})
      BY <1>1 DEF Overtaken, LifeInv, WriteInv
    <2>2. host.process \in 0 .. MaxProcess
      BY DEF LifeInv, Typed, HostOK
    <2>3. \A b \in Actors : pc'[b] \notin {"menu", "create_invoke", "send"}
      BY <1>3 DEF OperationLabels, CreateLabels
    <2> QED
      BY <1>1, <2>1, <2>2, <2>3, Rotation
  <1>5. Typed'
    BY <1>1, <1>2, <1>4 DEF LifeInv, Typed, Moves, HostOK, WritesOK, OpensOK, CreationOK,
       RoutesOK, HistoryOK
  <1>6. LockInv'
    <2>1. LockInv /\ pc'[a] \notin OperationLabels /\ pc'[a] \notin OpenLabels
      BY <1>1, <1>2, <1>3 DEF LifeInv, OpenLabels
    <2> QED
      BY <1>1, <1>2, <2>1, LockKeeps
  <1>7. CallInv'
    <2>1. CallOf(a)'
      BY <1>2, BoundsAssumption DEF CallOf, NoCall, OpenLabels
    <2> QED
      BY <1>1, <1>2, <2>1, CallOfOne DEF LifeInv
  <1>8. KeysInv' /\ HostInv'
    BY <1>1 DEF LifeInv, KeysInv, HostInv, Pending, Running
  <1>9. OpenInv'
    <2>1. OpenOf(a)' /\ HostMoves
      BY <1>1, <1>2, HostStands DEF OpenOf, OpenLabels, LifeInv, Typed
    <2> QED
      BY <1>1, <1>2, <2>1, OpenOfOne DEF LifeInv
  <1>10. CreateInv'
    <2>1. ASSUME NEW c \in Creators PROVE pc'[c] \notin CreateLabels
      BY <1>3, c \in Actors DEF OperationLabels, Actors
    <2> QED
      BY <1>1, <2>1 DEF LifeInv, CreateInv, CreateOf, CreateLabels
  <1>11. CloseInv'
    <2>1. Quiet(CloseLabels \cup {"open_release", "create_release"})
      BY <1>1, <1>2, MovesQuiet DEF CloseLabels
    <2> QED
      BY <1>1, <2>1, CloseElsewhere DEF LifeInv
  <1> QED
    BY <1>4, <1>5, <1>6, <1>7, <1>8, <1>9, <1>10, <1>11 DEF LifeInv

LEMMA AutoStepKeeps ==
    ASSUME LifeInv, NEW a \in Autos, AutoStep(a)
    PROVE  LifeInv'
  <1>1. a \in Actors
    BY DEF Actors
  <1> QED
    BY <1>1, AutoBeginKeeps, AutoLookKeeps, AutoRotateKeeps, AutoTargetKeeps, AutoNextKeeps,
       OpenStepKeeps
       DEF AutoStep

-----------------------------------------------------------------------------
(* Resolve, its user and the supervisor *)

LEMMA HostStepKeeps ==
    ASSUME LifeInv, HostStep
    PROVE  LifeInv'
  <1>1. UNCHANGED Records /\ UNCHANGED local
    BY DEF HostStep, UserStarts, UserOpens, UserCloses, ResolveExits, LoopEnds, Records
  <1>2. HostChange
    <2>1. CASE UserStarts
      BY <2>1, LaunchChange DEF UserStarts
    <2>2. CASE \E g \in Generations : LoopEnds(g)
      <3>1. exited' \in BOOLEAN
        BY <2>2 DEF LoopEnds
      <3>2. UNCHANGED <<host, started, shut>> /\ loops' \subseteq loops
        BY <2>2 DEF LoopEnds
      <3> QED
        BY <3>1, <3>2, HostStands
           DEF LifeInv, Typed, HostOK, HostInv, HistoryOK, HostChange, Running
    <2>3. CASE UserOpens \/ UserCloses \/ ResolveExits
      <3>0. shut \in BOOLEAN
        BY DEF LifeInv, Typed, HistoryOK
      <3>1. /\ UNCHANGED <<started, exited>> /\ (shut' = shut \/ shut' = FALSE)
            /\ loops' = loops \/ loops' = {}
            /\ loops' # {} => host'.process = host.process
            /\ host'.process \in {0, host.process}
            /\ host' \in [process: 0 .. MaxProcess, project: {"none", "saved", "new", "blank"}]
            /\ ~shut' \/ host'.project = "none"
        <4>1. CASE UserOpens
          BY <4>1 DEF UserOpens, LifeInv, Typed, HostOK
        <4>2. CASE UserCloses
          BY <4>2 DEF UserCloses, LifeInv, Typed, HostOK
        <4>3. CASE ResolveExits
          BY <4>3, BoundsAssumption DEF ResolveExits
        <4> QED
          BY <2>3, <4>1, <4>2, <4>3
      <3>2. HostOK'
        BY <3>1 DEF LifeInv, Typed, HostOK
      <3>3. HostMoves
        BY <3>1 DEF LifeInv, Typed, HostOK, HostMoves
      <3>4. HostInv'
        BY <3>1 DEF LifeInv, HostInv, Running
      <3>5. shut' \in BOOLEAN /\ (shut' => shut)
        <4>1. CASE shut' = shut
          BY <3>0, <4>1, Zenon
        <4>2. CASE shut' = FALSE
          BY <4>2, Zenon
        <4> QED
          BY <3>1, <4>1, <4>2, Zenon
      <3> QED
        BY <3>1, <3>2, <3>3, <3>4, <3>5 DEF HostChange
    <2> QED
      BY <2>1, <2>2, <2>3 DEF HostStep
  <1>3. ASSUME NEW labels PROVE Quiet(labels) /\ QuietCall(labels)
    BY <1>1 DEF Quiet, QuietCall
  <1>4. Typed'
    <2>1. HostOK' /\ LocalOK'
      BY <1>1, <1>2 DEF HostChange, LifeInv, Typed, LocalOK
    <2>2. HistoryOK'
      <3>1. shut' \in BOOLEAN
        BY <1>2 DEF HostChange
      <3> QED
        BY <1>1, <3>1 DEF Records, LifeInv, Typed, HistoryOK
    <2>3. ActiveOK' /\ WritesOK' /\ OpensOK' /\ CreationOK' /\ RoutesOK'
      BY <1>1 DEF Records, LifeInv, Typed, ActiveOK, WritesOK, OpensOK, CreationOK, RoutesOK
    <2> QED
      BY <2>1, <2>2, <2>3 DEF Typed
  <1>5. LockInv' /\ CallInv'
    BY <1>1 DEF LifeInv, LockInv, CallInv, CallOf
  <1>6. KeysInv'
    <2>1. /\ started \in Nat /\ started' \in Nat /\ started <= started'
          /\ \A k \in OpenKeys : opens[k].process \in Nat
      BY <1>2 DEF HostChange, HostMoves, LifeInv, Typed, HostOK, OpensOK, Receipts
    <2> QED
      BY <1>1, <2>1 DEF Records, LifeInv, KeysInv, Pending
  <1>7. OpenInv'
    BY <1>1, <1>2, <1>3, OpenElsewhere DEF Records, LifeInv, HostChange
  <1>8. HostInv'
    BY <1>2 DEF HostChange
  <1>9. MenuInv' /\ CreateInv'
    BY <1>1, <1>2, <1>3, MenuElsewhere, CreateElsewhere DEF Records, LifeInv, HostChange
  <1>10. CloseInv'
    BY <1>1, <1>2, <1>3, CloseElsewhere DEF Records, LifeInv, HostChange
  <1>11. WriteInv'
    BY <1>1, <1>2, <1>3, WriteElsewhere DEF Records, LifeInv, HostChange
  <1> QED
    BY <1>4, <1>5, <1>6, <1>7, <1>8, <1>9, <1>10, <1>11 DEF LifeInv

\* A step of an actor outside the open service: the other calls do not notice it.
LEMMA Others ==
    ASSUME LifeInv, NEW a \in Actors, Moves(a), HostMoves, UNCHANGED <<opens, sent>>,
           pc'[a] \in {"idle", "menu", "send"} \cup CreateLabels \cup CloseLabels,
           pc'[a] \in OperationLabels => holder'["operation"] = a,
           call'[a].tries \in {0, call[a].tries}
    PROVE  /\ LockInv' /\ CallInv' /\ OpenInv'
           /\ started' \in Nat => KeysInv'
  <1>1. pc'[a] \notin OpenLabels \cup {"auto_next", "auto_open"}
    BY DEF OpenLabels, CreateLabels, CloseLabels
  <1>2. LockInv'
    BY <1>1, LockKeeps DEF LifeInv, Typed
  <1>3. CallInv'
    <2>1. CallOf(a)'
      BY <1>1, BoundsAssumption DEF LifeInv, CallInv, CallOf
    <2> QED
      BY <2>1, CallOfOne DEF LifeInv
  <1>4. OpenInv'
    <2>1. OpenOf(a)'
      BY <1>1 DEF OpenOf, OpenLabels
    <2> QED
      BY <2>1, OpenOfOne DEF LifeInv
  <1>5. ASSUME started' \in Nat PROVE KeysInv'
    <2>1. /\ started \in Nat /\ started' \in Nat /\ started <= started'
          /\ \A k \in OpenKeys : opens[k].process \in Nat
      BY DEF HostMoves, LifeInv, Typed, HostOK, OpensOK, Receipts
    <2> QED
      BY <2>1 DEF LifeInv, KeysInv, Pending
  <1> QED
    BY <1>2, <1>3, <1>4, <1>5

\* The active generation stays the one it is, in its process.
SameGeneration ==
    active'.generation = active.generation /\ active'.process = active.process

LEMMA MenuStays ==
    ASSUME MenuInv, Quiet({"menu", "create_invoke"}), loops' \subseteq loops, SameGeneration,
           active'.dispatch_started = active.dispatch_started \/ active'.dispatch_started,
           active'.phase = "connected" => active.generation # 0, UNCHANGED invoked
    PROVE  MenuInv'
  <1>1. active.dispatch_started => active'.dispatch_started
    OBVIOUS
  <1> QED
    BY <1>1 DEF MenuInv, Quiet, SameGeneration

LEMMA CreateStays ==
    ASSUME CreateInv, Quiet(CreateLabels), UNCHANGED <<creation, created, invoked>>,
           SameGeneration
    PROVE  CreateInv'
  BY DEF CreateInv, CreateOf, Quiet, CreateLabels, Actors, SameGeneration

LEMMA WriteStays ==
    ASSUME WriteInv, Quiet({"send"}), loops' \subseteq loops,
           loops' # {} => host'.process = host.process, SameGeneration,
           UNCHANGED <<initial, writes>>, Overtaken => Overtaken'
    PROVE  WriteInv'
  BY DEF WriteInv, Quiet, SameProcess, Running, Actors, SameGeneration

LEMMA SetPhaseIsTyped ==
    ASSUME ActiveOK, NEW phase \in Phases, SetPhase(phase), UNCHANGED initial
    PROVE  /\ ActiveOK' /\ SameGeneration /\ active'.phase = phase
           /\ active'.dispatch_started = active.dispatch_started
  BY DEF ActiveOK, SetPhase, SameGeneration, Phases

LEMMA DispatchIsTyped ==
    ASSUME ActiveOK, NEW dispatched \in BOOLEAN, UNCHANGED initial,
           active' = [active EXCEPT !.phase = "starting", !.dispatch_started = dispatched]
    PROVE  /\ ActiveOK' /\ SameGeneration /\ active'.phase = "starting"
           /\ active'.dispatch_started = dispatched
  <1> DEFINE one == [active EXCEPT !.phase = "starting"]
  <1>1. /\ one \in [generation: 0 .. MaxGeneration, process: 0 .. MaxProcess,
                   phase: Phases, dispatch_started: BOOLEAN]
        /\ one.generation = active.generation /\ one.process = active.process
        /\ one.phase = "starting"
    BY DEF ActiveOK, Phases
  <1>2. active' = [one EXCEPT !.dispatch_started = dispatched]
    OBVIOUS
  <1> HIDE DEF one
  <1> QED
    BY <1>1, <1>2 DEF ActiveOK, SameGeneration

LEMMA WatchKeeps ==
    ASSUME LifeInv, Watch
    PROVE  LifeInv'
  <1>1. /\ UNCHANGED <<working, environment, initial, writes, services, local, history>>
        /\ Observe
    BY DEF Watch
  <1>2. PICK phase \in Phases : SetPhase(phase) /\ (phase = "connected" => SameProcess)
    BY <1>1 DEF Observe, Phases
  <1>3. /\ ActiveOK' /\ SameGeneration /\ active'.phase = phase
        /\ active'.dispatch_started = active.dispatch_started
    BY <1>1, <1>2, SetPhaseIsTyped DEF LifeInv, Typed
  <1>4. Typed'
    BY <1>1, <1>3 DEF LifeInv, Typed, HostOK, WritesOK, OpensOK, CreationOK, RoutesOK,
       LocalOK, HistoryOK
  <1>5. LockInv' /\ CallInv'
    BY <1>1 DEF LifeInv, LockInv, CallInv, CallOf
  <1>6. KeysInv' /\ HostInv'
    BY <1>1 DEF LifeInv, KeysInv, HostInv, Pending, Running
  <1>7. OpenInv'
    BY <1>1 DEF LifeInv, OpenInv, OpenOf, Pending, Running
  <1>8. MenuInv'
    <2>1. phase = "connected" => active.generation # 0
      BY <1>2 DEF SameProcess, Running, LifeInv, MenuInv
    <2> QED
      BY <1>1, <1>3, <2>1, NobodyMoves, MenuStays DEF LifeInv
  <1>9. CreateInv'
    BY <1>1, <1>3, NobodyMoves, CreateStays DEF LifeInv
  <1>10. CloseInv'
    BY <1>1, NobodyMoves, CloseElsewhere DEF LifeInv
  <1>11. WriteInv'
    BY <1>1, <1>3, NobodyMoves, WriteStays DEF LifeInv, Overtaken
  <1> QED
    BY <1>4, <1>5, <1>6, <1>7, <1>8, <1>9, <1>10, <1>11 DEF LifeInv

LEMMA WatchNewKeeps ==
    ASSUME LifeInv, WatchNew
    PROVE  LifeInv'
  <1>1. PICK adopt \in BOOLEAN : NewGeneration(host.process, adopt)
    BY DEF WatchNew
  <1>2. /\ UNCHANGED <<working, host, started, loops, writes, services, local, history>>
        /\ ~SameProcess /\ \A b \in Actors : pc[b] \notin OperationLabels
    BY FreeLocks DEF WatchNew
  <1>3. ActiveOK' /\ exited' = FALSE /\ MenuInv' /\ WriteInv'
    <2>1. Overtaken' = Overtaken /\ (Overtaken \/ loops' = {})
      BY <1>2 DEF Overtaken, LifeInv, WriteInv
    <2>2. host.process \in 0 .. MaxProcess
      BY DEF LifeInv, Typed, HostOK
    <2>3. \A b \in Actors : pc'[b] \notin {"menu", "create_invoke", "send"}
      BY <1>2 DEF OperationLabels, CreateLabels
    <2> QED
      BY <1>1, <1>2, <2>1, <2>2, <2>3, Rotation
  <1>4. Typed'
    BY <1>2, <1>3 DEF LifeInv, Typed, HostOK, WritesOK, OpensOK, CreationOK, RoutesOK,
       LocalOK, HistoryOK
  <1>5. LockInv' /\ CallInv'
    BY <1>2 DEF LifeInv, LockInv, CallInv, CallOf
  <1>6. KeysInv' /\ HostInv'
    BY <1>2 DEF LifeInv, KeysInv, HostInv, Pending, Running
  <1>7. OpenInv'
    BY <1>2 DEF LifeInv, OpenInv, OpenOf, Pending, Running
  <1>8. CreateInv'
    <2>1. ASSUME NEW c \in Creators PROVE pc'[c] \notin CreateLabels
      BY <1>2, c \in Actors DEF OperationLabels, Actors
    <2> QED
      BY <1>2, <2>1 DEF LifeInv, CreateInv, CreateOf, CreateLabels
  <1>9. CloseInv'
    BY <1>2, NobodyMoves, CloseElsewhere DEF LifeInv
  <1> QED
    BY <1>3, <1>4, <1>5, <1>6, <1>7, <1>8, <1>9 DEF LifeInv

LEMMA WatchDispatchKeeps ==
    ASSUME LifeInv, WatchDispatch
    PROVE  LifeInv'
  <1>1. /\ UNCHANGED <<working, environment, initial, writes, services, call, history>>
        /\ SameProcess /\ ~active.dispatch_started /\ LocalOK /\ Watcher \in Actors
        /\ Held("operation", Watcher) /\ Goto(Watcher, "menu") /\ Free("operation")
        /\ active' = [active EXCEPT !.phase = "starting", !.dispatch_started = TRUE]
        /\ \A b \in Actors : pc[b] \notin OperationLabels
    BY FreeLocks DEF WatchDispatch, LifeInv, Typed, Actors
  <1>2. /\ Moves(Watcher) /\ pc'[Watcher] = "menu" /\ holder'["operation"] = Watcher
    BY <1>1, HeldMoves DEF Locks, Labels
  <1>3. /\ ActiveOK' /\ SameGeneration /\ active'.phase = "starting"
        /\ active'.dispatch_started
    BY <1>1, DispatchIsTyped DEF LifeInv, Typed
  <1>4. Typed'
    BY <1>1, <1>2, <1>3 DEF LifeInv, Typed, HostOK, WritesOK, OpensOK, CreationOK, RoutesOK,
       Moves, HistoryOK
  <1>5. LockInv' /\ CallInv' /\ OpenInv' /\ KeysInv'
    <2>1. HostMoves /\ started' \in Nat
      BY <1>1, HostStands DEF LifeInv, Typed, HostMoves
    <2> QED
      BY <1>1, <1>2, <2>1, Others
  <1>6. HostInv'
    BY <1>1 DEF LifeInv, HostInv, Running
  <1>7. MenuInv'
    <2>1. active.generation # 0 /\ active.generation \in Generations
      BY <1>1 DEF SameProcess, Running, LifeInv, MenuInv, Typed, ActiveOK, Generations
    <2>2. invoked[active.generation] = 0
      BY <1>1, <2>1 DEF LifeInv, MenuInv
    <2> QED
      BY <1>1, <1>2, <1>3, <2>1, <2>2 DEF LifeInv, MenuInv, SameGeneration
  <1>8. Quiet(CreateLabels) /\ Quiet({"send"})
        /\ Quiet(CloseLabels \cup {"open_release", "create_release"})
    BY <1>1, <1>2, MovesQuiet DEF CreateLabels, CloseLabels
  <1>9. CreateInv'
    BY <1>1, <1>3, <1>8, CreateStays DEF LifeInv
  <1>10. CloseInv'
    BY <1>1, <1>8, CloseElsewhere DEF LifeInv
  <1>11. WriteInv'
    BY <1>1, <1>3, <1>8, WriteStays DEF LifeInv, Overtaken
  <1> QED
    BY <1>4, <1>5, <1>6, <1>7, <1>9, <1>10, <1>11 DEF LifeInv

\* A menu dispatch that may have reached Resolve is counted once for its generation.
LEMMA InvokeKeeps ==
    ASSUME LifeInv, NEW a \in Actors, pc[a] \in {"menu", "create_invoke"}, Invoke,
           Moves(a), pc'[a] \notin {"menu", "create_invoke", "send"},
           UNCHANGED <<host, started, exited, initial, writes>>, Overtaken => Overtaken'
    PROVE  /\ HostOK' /\ ActiveOK' /\ invoked' \in [Generations -> Nat] /\ SameGeneration
           /\ \A g \in Generations : invoked[g] = 1 => invoked'[g] = 1
           /\ MenuInv' /\ WriteInv'
  <1> DEFINE gen == active.generation
  <1>1. /\ gen \in Generations /\ active.dispatch_started /\ invoked[gen] = 0
        /\ \A b \in Actors : pc'[b] \notin {"menu", "create_invoke", "send"}
    <2>1. \A b \in Actors \ {a} : pc[b] \notin OperationLabels
      BY DEF LifeInv, LockInv, OperationLabels, CreateLabels
    <2>2. \A b \in Actors \ {a} : pc'[b] \notin {"menu", "create_invoke", "send"}
      BY <2>1 DEF Moves, OperationLabels, CreateLabels
    <2>3. gen # 0 /\ active.dispatch_started /\ invoked[gen] = 0
      BY DEF LifeInv, MenuInv
    <2>4. gen \in Generations
      BY <2>3 DEF LifeInv, Typed, ActiveOK, Generations
    <2> QED
      BY <2>2, <2>3, <2>4
  <1>2. /\ ActiveOK' /\ SameGeneration
        /\ active'.phase = "connected" => active.phase = "connected"
    <2>1. CASE UNCHANGED active
      BY <2>1 DEF LifeInv, Typed, ActiveOK, SameGeneration
    <2>2. CASE active' = [active EXCEPT !.phase = "starting", !.dispatch_started = FALSE]
      BY <2>2, DispatchIsTyped DEF LifeInv, Typed
    <2> QED
      BY <2>1, <2>2 DEF Invoke
  <1>3. /\ invoked' \in [Generations -> Nat]
        /\ \A g \in Generations : invoked'[g] \in {0, 1} /\ (g # gen => invoked'[g] = invoked[g])
        /\ invoked'[gen] = 1 \/ (invoked'[gen] = 0 /\ UNCHANGED <<loops, invoked>>)
        /\ invoked'[gen] = 1 => active'.dispatch_started
        /\ \A g \in Generations : invoked[g] = 1 => invoked'[g] = 1
    <2>1. /\ invoked \in [Generations -> Nat]
          /\ \A g \in Generations : invoked[g] \in {0, 1}
      BY DEF LifeInv, Typed, HistoryOK, MenuInv
    <2>2. CASE invoked' = [invoked EXCEPT ![gen] = @ + 1] /\ UNCHANGED active
      BY <1>1, <2>1, <2>2
    <2>3. CASE UNCHANGED <<loops, invoked>>
      BY <1>1, <2>1, <2>3
    <2> QED
      BY <2>2, <2>3 DEF Invoke
  <1>4. /\ loops' = loops \/ (loops' = loops \cup {gen} /\ SameProcess /\ invoked'[gen] = 1)
    BY <1>1, <1>3 DEF Invoke
  <1>5. HostOK'
    BY <1>1, <1>4 DEF LifeInv, Typed, HostOK
  <1>6. MenuInv'
    <2>1. ASSUME NEW g \in Generations
          PROVE  /\ g > active'.generation => invoked'[g] = 0
                 /\ g = active'.generation /\ ~active'.dispatch_started => invoked'[g] = 0
                 /\ g \in loops' => invoked'[g] = 1
      <3>1. g \in Nat /\ gen \in Nat
        BY <1>1 DEF Generations
      <3>2. CASE g = gen
        BY <1>1, <1>2, <1>3, <1>4, <3>1, <3>2 DEF LifeInv, MenuInv, SameGeneration
      <3>3. CASE g # gen
        BY <1>1, <1>2, <1>3, <1>4, <3>1, <3>3 DEF LifeInv, MenuInv, SameGeneration
      <3> QED
        BY <3>2, <3>3
    <2> QED
      BY <1>1, <1>2, <1>3, <2>1 DEF LifeInv, MenuInv, SameGeneration
  <1>7. WriteInv'
    <2>1. /\ ~Overtaken' => loops' \subseteq {active'.generation}
          /\ ~Overtaken' /\ loops' # {} => SameProcess'
      BY <1>2, <1>4 DEF LifeInv, WriteInv, SameGeneration, SameProcess, Running
    <2>2. /\ initial' \in {0, 1} /\ initial' <= active'.generation
          /\ \A w \in Writers :
                /\ owners'[w] <= active'.generation
                /\ pc'[w] # "send"
      BY <1>1, <1>2 DEF LifeInv, WriteInv, SameGeneration, Actors
    <2> QED
      BY <2>1, <2>2 DEF LifeInv, WriteInv
  <1> QED
    BY <1>2, <1>3, <1>5, <1>6, <1>7

LEMMA WatchMenuKeeps ==
    ASSUME LifeInv, WatchMenu
    PROVE  LifeInv'
  <1>1. /\ UNCHANGED <<working, host, started, exited, initial, writes, services,
                       sent, created, closed, shut>>
        /\ Invoke /\ Return(Watcher) /\ pc[Watcher] = "menu" /\ LocalOK /\ Watcher \in Actors
    BY DEF WatchMenu, LifeInv, Typed, Actors
  <1>2. Moves(Watcher) /\ pc'[Watcher] = "idle" /\ call'[Watcher] = NoCall
    BY <1>1, ReturnMoves
  <1>3. /\ HostOK' /\ ActiveOK' /\ invoked' \in [Generations -> Nat] /\ SameGeneration
        /\ \A g \in Generations : invoked[g] = 1 => invoked'[g] = 1
        /\ MenuInv' /\ WriteInv'
    BY <1>1, <1>2, InvokeKeeps DEF Overtaken
  <1>4. Typed'
    BY <1>1, <1>2, <1>3 DEF LifeInv, Typed, WritesOK, OpensOK, CreationOK, RoutesOK,
       Moves, HistoryOK
  <1>5. LockInv' /\ CallInv' /\ OpenInv' /\ KeysInv'
    <2>1. HostMoves /\ started' \in Nat
      BY <1>1, HostStands DEF LifeInv, Typed, HostMoves
    <2>2. call'[Watcher].tries = 0 /\ pc'[Watcher] \notin OperationLabels
      BY <1>2 DEF NoCall, OperationLabels, CreateLabels, CloseLabels
    <2> QED
      BY <1>1, <1>2, <2>1, <2>2, Others
  <1>6. HostInv'
    BY <1>1 DEF LifeInv, HostInv, Running
  <1>7. CreateInv'
    <2>1. Quiet(CreateLabels)
      BY <1>1, <1>2, MovesQuiet DEF CreateLabels
    <2>2. ASSUME NEW c \in Creators, creation[c].phase = "completed"
          PROVE  invoked'[creation[c].bound] = 1
      <3>1. /\ creation[c].bound \in Generations /\ invoked[creation[c].bound] = 1
        BY <2>2 DEF LifeInv, CreateInv, CreateOf, Typed, CreationOK, Creations, Generations
      <3> QED
        BY <1>3, <3>1
    <2> QED
      BY <1>1, <1>3, <2>1, <2>2
         DEF LifeInv, CreateInv, CreateOf, Quiet, CreateLabels, Actors, SameGeneration
  <1>8. CloseInv'
    <2>1. Quiet(CloseLabels \cup {"open_release", "create_release"})
      BY <1>1, <1>2, MovesQuiet DEF CloseLabels
    <2> QED
      BY <1>1, <2>1, CloseElsewhere DEF LifeInv
  <1> QED
    BY <1>3, <1>4, <1>5, <1>6, <1>7, <1>8 DEF LifeInv

LEMMA WatcherStepKeeps ==
    ASSUME LifeInv, WatcherStep
    PROVE  LifeInv'
  BY WatchKeeps, WatchNewKeeps, WatchDispatchKeeps, WatchMenuKeeps DEF WatcherStep

-----------------------------------------------------------------------------
(* Writes and the owners of their keys *)

\* What a write leaves alone.
WriterElsewhere == <<working, environment, journal, services, history>>

LEMMA WriterTurns ==
    ASSUME LifeInv, NEW w \in Actors, Moves(w), UNCHANGED WriterElsewhere,
           pc'[w] \in {"idle", "send"}, pc'[w] = "send" => holder'["operation"] = w,
           call'[w].tries \in {0, call[w].tries}, WritesOK', WriteInv'
    PROVE  LifeInv'
  <1>1. UNCHANGED <<working, environment, journal, services, history>>
    BY DEF WriterElsewhere
  <1>2. Typed'
    BY <1>1 DEF LifeInv, Typed, HostOK, ActiveOK, OpensOK, CreationOK, RoutesOK, Moves,
       HistoryOK
  <1>3. LockInv' /\ CallInv' /\ OpenInv' /\ KeysInv'
    <2>1. HostMoves /\ started' \in Nat
      BY <1>1, HostStands DEF LifeInv, Typed, HostMoves
    <2>2. pc'[w] \in OperationLabels => holder'["operation"] = w
      BY DEF OperationLabels, CreateLabels, CloseLabels
    <2> QED
      BY <1>1, <2>1, <2>2, Others
  <1>4. HostInv'
    BY <1>1 DEF LifeInv, HostInv, Running
  <1>5. Quiet({"menu", "create_invoke"}) /\ Quiet(CreateLabels)
        /\ Quiet(CloseLabels \cup {"open_release", "create_release"})
    BY MovesQuiet DEF CreateLabels, CloseLabels
  <1>6. MenuInv' /\ CreateInv' /\ CloseInv'
    BY <1>1, <1>5, MenuElsewhere, CreateElsewhere, CloseElsewhere DEF LifeInv
  <1> QED
    BY <1>2, <1>3, <1>4, <1>6 DEF LifeInv

LEMMA ClaimKeeps ==
    ASSUME LifeInv, NEW w \in Writers, Claim(w)
    PROVE  LifeInv'
  <1> DEFINE gen == active.generation
  <1>1. /\ w \in Actors /\ LocalOK /\ WritesOK /\ Free("operation") /\ Held("operation", w)
        /\ Goto(w, "send") /\ owners' = [owners EXCEPT ![w] = gen] /\ gen # 0
        /\ Claimable(w)
        /\ UNCHANGED <<working, environment, journal, receipts, applied, services, call,
                       history>>
    BY DEF Claim, LifeInv, Typed, MenuInv, Actors
  <1>2. /\ Moves(w) /\ pc'[w] = "send" /\ holder'["operation"] = w
    BY <1>1, HeldMoves DEF Locks, Labels
  <1>3. gen \in Generations
    BY <1>1 DEF LifeInv, Typed, ActiveOK, Generations
  <1>4. WritesOK'
    BY <1>1, <1>3 DEF WritesOK, Generations
  <1>5. WriteInv'
    <2>1. /\ owners' \in [Writers -> 0 .. MaxGeneration] /\ owners'[w] = gen
          /\ \A v \in Writers \ {w} : owners'[v] = owners[v] /\ pc'[v] = pc[v]
      BY <1>1, <1>2, <1>4 DEF WritesOK, Moves, Actors
    <2>2. ASSUME NEW g \in Generations
          PROVE  /\ applied[w][g] \in {0, 1}
                 /\ receipts[g][w] = "none" => applied[w][g] = 0
                 /\ applied[w][g] = 1 => g \in {gen, initial}
                 /\ ~Overtaken /\ applied[w][g] = 1 /\ g = initial => gen \in {0, g}
      <3>1. CASE owners[w] # 0
        BY <1>1, <3>1 DEF Claimable, LifeInv, WriteInv
      <3>2. CASE owners[w] = 0
        BY <1>1, <3>2 DEF Claimable, LifeInv, WriteInv
      <3> QED
        BY <3>1, <3>2
    <2>3. gen <= gen
      BY <1>3 DEF Generations
    <2> QED
      BY <1>1, <1>2, <2>1, <2>2, <2>3 DEF LifeInv, WriteInv, Overtaken, SameProcess, Running
  <1> QED
    BY <1>1, <1>2, <1>4, <1>5, WriterTurns DEF WriterElsewhere

\* A request of w in a runtime that its key belongs to, or that was adopted.
LEMMA RequestKeeps ==
    ASSUME LifeInv, NEW w \in Writers, NEW g \in Generations, Request(w, g),
           g = initial \/ g = owners[w], Quiet({"send"}),
           UNCHANGED <<environment, journal, owners, services>>
    PROVE  WritesOK' /\ WriteInv'
  <1>1. PICK status \in {"completed", "rejected", "pending"}, effect \in {0, 1} :
            /\ receipts[g][w] = "none"
            /\ status # "pending" \/ effect = 1 => g \in loops
            /\ receipts' = [receipts EXCEPT ![g][w] = status]
            /\ applied' = [applied EXCEPT ![w][g] = @ + effect]
    BY DEF Request
  <1>2. WritesOK /\ applied[w][g] = 0
    BY <1>1 DEF LifeInv, Typed, WriteInv
  <1>3. /\ receipts' \in [Generations ->
                          [Writers -> {"none", "pending", "completed", "rejected"}]]
        /\ receipts'[g][w] = status
        /\ \A h \in Generations, v \in Writers :
              <<h, v>> # <<g, w>> => receipts'[h][v] = receipts[h][v]
    BY <1>1, <1>2 DEF WritesOK
  <1>4. /\ applied' \in [Writers -> [Generations -> Nat]] /\ applied'[w][g] = effect
        /\ \A h \in Generations, v \in Writers :
              <<h, v>> # <<g, w>> => applied'[v][h] = applied[v][h]
    BY <1>1, <1>2 DEF WritesOK
  <1>5. WritesOK'
    BY <1>2, <1>3, <1>4 DEF WritesOK
  <1>6. WriteInv'
    <2>1. ASSUME NEW v \in Writers, NEW h \in Generations
          PROVE  /\ applied'[v][h] \in {0, 1}
                 /\ receipts'[h][v] = "none" => applied'[v][h] = 0
                 /\ applied'[v][h] = 1 => h \in {owners[v], initial}
                 /\ ~Overtaken /\ applied'[v][h] = 1 /\ h = initial => owners[v] \in {0, h}
      <3>1. CASE v = w /\ h = g
        <4>1. ASSUME ~Overtaken, effect = 1, g = initial PROVE owners[w] \in {0, g}
          <5>1. g = active.generation /\ g = 1
            BY <1>1, <4>1 DEF LifeInv, WriteInv, Generations
          <5>2. owners[w] \in Nat /\ owners[w] <= 1
            BY <5>1 DEF LifeInv, WriteInv, Typed, WritesOK
          <5> QED
            BY <5>1, <5>2
        <4> QED
          BY <1>3, <1>4, <3>1, <4>1
      <3>2. CASE ~(v = w /\ h = g)
        BY <1>3, <1>4, <3>2 DEF LifeInv, WriteInv
      <3> QED
        BY <3>1, <3>2
    <2>2. \A v \in Writers : pc'[v] = "send" => pc[v] = "send"
      BY DEF Quiet, Actors
    <2> QED
      BY <2>1, <2>2 DEF LifeInv, WriteInv, Overtaken, SameProcess, Running
  <1> QED
    BY <1>5, <1>6

LEMMA SendKeeps ==
    ASSUME LifeInv, NEW w \in Writers, Send(w)
    PROVE  LifeInv'
  <1> DEFINE gen == active.generation
  <1>1. /\ w \in Actors /\ LocalOK /\ WritesOK /\ Return(w) /\ owners[w] = gen /\ gen # 0
        /\ UNCHANGED <<working, environment, journal, owners, services, history>>
        /\ Request(w, gen) \/ UNCHANGED <<receipts, applied>>
    BY DEF Send, LifeInv, Typed, WriteInv, Actors
  <1>2. Moves(w) /\ pc'[w] = "idle" /\ call'[w] = NoCall /\ Quiet({"send"})
    BY <1>1, ReturnMoves, MovesQuiet
  <1>3. gen \in Generations
    BY <1>1 DEF LifeInv, Typed, ActiveOK, Generations
  <1>4. WritesOK' /\ WriteInv'
    <2>1. CASE Request(w, gen)
      BY <1>1, <1>2, <1>3, <2>1, RequestKeeps
    <2>2. CASE UNCHANGED <<receipts, applied>>
      BY <1>1, <1>2, <2>2, WriteElsewhere DEF LifeInv, WritesOK
    <2> QED
      BY <1>1, <2>1, <2>2
  <1> QED
    BY <1>1, <1>2, <1>4, WriterTurns DEF WriterElsewhere, NoCall

LEMMA StaticSendKeeps ==
    ASSUME LifeInv, NEW w \in Writers, StaticSend(w)
    PROVE  LifeInv'
  <1>1. /\ w \in Actors /\ LocalOK /\ initial # 0 /\ Request(w, initial)
        /\ UNCHANGED <<working, environment, journal, owners, services, local, history>>
        /\ pc[w] = "idle"
    BY DEF StaticSend, LifeInv, Typed, Actors
  <1>2. Moves(w) /\ pc'[w] = "idle" /\ call'[w] = call[w] /\ Quiet({"send"})
    BY <1>1, NobodyMoves DEF LocalOK, Moves
  <1>3. initial \in Generations
    BY <1>1 DEF LifeInv, Typed, ActiveOK, Generations
  <1>4. WritesOK' /\ WriteInv'
    BY <1>1, <1>2, <1>3, RequestKeeps
  <1> QED
    BY <1>1, <1>2, <1>4, WriterTurns DEF WriterElsewhere

LEMMA SettleKeeps ==
    ASSUME LifeInv, NEW w \in Writers, NEW g \in Generations, Settle(w, g)
    PROVE  LifeInv'
  <1>1. /\ w \in Actors /\ LocalOK /\ WritesOK /\ receipts[g][w] = "pending"
        /\ UNCHANGED <<working, environment, journal, owners, applied, services, local, history>>
    BY DEF Settle, LifeInv, Typed, Actors
  <1>2. PICK status \in {"completed", "rejected"} :
            receipts' = [receipts EXCEPT ![g][w] = status]
    BY DEF Settle
  <1>3. /\ receipts' \in [Generations ->
                          [Writers -> {"none", "pending", "completed", "rejected"}]]
        /\ \A h \in Generations, v \in Writers :
              receipts'[h][v] = "none" => receipts[h][v] = "none"
    BY <1>1, <1>2 DEF WritesOK
  <1>4. WritesOK'
    BY <1>1, <1>3 DEF WritesOK
  <1>5. WriteInv'
    BY <1>1, <1>3 DEF LifeInv, WriteInv, Overtaken, SameProcess, Running
  <1>6. Typed'
    BY <1>1, <1>4 DEF LifeInv, Typed, HostOK, ActiveOK, OpensOK, CreationOK, RoutesOK,
       LocalOK, HistoryOK
  <1>7. LockInv' /\ CallInv'
    BY <1>1 DEF LifeInv, LockInv, CallInv, CallOf
  <1>8. KeysInv' /\ HostInv'
    BY <1>1 DEF LifeInv, KeysInv, HostInv, Pending, Running
  <1>9. OpenInv'
    BY <1>1 DEF LifeInv, OpenInv, OpenOf, Pending, Running
  <1>10. MenuInv' /\ CreateInv' /\ CloseInv'
    BY <1>1, NobodyMoves, MenuElsewhere, CreateElsewhere, CloseElsewhere DEF LifeInv
  <1> QED
    BY <1>5, <1>6, <1>7, <1>8, <1>9, <1>10 DEF LifeInv

LEMMA WriterStepKeeps ==
    ASSUME LifeInv, NEW w \in Writers, WriterStep(w)
    PROVE  LifeInv'
  BY ClaimKeeps, SendKeeps, StaticSendKeeps, SettleKeeps DEF WriterStep

-----------------------------------------------------------------------------
(* Creations *)

\* A step of a creation, as far as it can disturb anything but itself.
LEMMA CreatorSteps ==
    ASSUME LifeInv, NEW c \in Creators, Moves(c),
           UNCHANGED <<working, writes, opens, routes, intent, sent, closed>>,
           HostOK', HostInv', HostMoves, shut' \in BOOLEAN, shut' => shut,
           ActiveOK', invoked' \in [Generations -> Nat], MenuInv', WriteInv',
           pc'[c] \in {"idle"} \cup CreateLabels,
           pc'[c] # "idle" => holder'["operation"] = c,
           pc'[c] = "create_release" => ~shut', call'[c].tries \in {0, call[c].tries},
           CreationOK', CreateInv'
    PROVE  LifeInv'
  <1>1. c \in Actors
    BY DEF Actors
  <1>2. Typed'
    <2>1. WritesOK' /\ OpensOK' /\ RoutesOK' /\ LocalOK'
      BY DEF LifeInv, Typed, WritesOK, OpensOK, RoutesOK, Moves
    <2>2. HistoryOK'
      BY DEF LifeInv, Typed, HistoryOK
    <2> QED
      BY <2>1, <2>2 DEF Typed
  <1>3. LockInv' /\ CallInv' /\ OpenInv' /\ KeysInv'
    <2>1. started' \in Nat
      BY DEF HostMoves
    <2>2. pc'[c] \in OperationLabels => holder'["operation"] = c
      BY DEF OperationLabels, CreateLabels, CloseLabels
    <2> QED
      BY <1>1, <2>1, <2>2, Others
  <1>4. CloseInv'
    <2>1. Quiet(CloseLabels \cup {"open_release"})
      BY <1>1, MovesQuiet DEF CreateLabels, CloseLabels
    <2>2. \A a \in Actors : pc'[a] = "create_release" => ~shut'
      BY <1>1 DEF LifeInv, CloseInv, CloseOf, HoldInv, Moves
    <2> QED
      BY <2>1, <2>2 DEF LifeInv, CloseInv, CloseOf, HoldInv, Quiet, CloseLabels, Refused, Actors
  <1> QED
    BY <1>2, <1>3, <1>4 DEF LifeInv

\* A step of a creation that leaves the journal alone.
LEMMA CreatorTurns ==
    ASSUME LifeInv, NEW c \in Creators, Moves(c), HostChange,
           UNCHANGED <<working, journal, writes, opens, routes, intent, invoked, sent, closed>>,
           pc'[c] \in {"idle"} \cup (CreateLabels \ {"create_invoke", "create_release"}),
           pc'[c] # "idle" => holder'["operation"] = c,
           call'[c].tries \in {0, call[c].tries},
           CreationOK', CreateInv', Overtaken => Overtaken'
    PROVE  LifeInv'
  <1>1. Quiet({"menu", "create_invoke"}) /\ Quiet({"send"})
    BY c \in Actors, MovesQuiet DEF CreateLabels, Actors
  <1>2. MenuInv'
    BY <1>1, MenuElsewhere DEF HostChange, LifeInv
  <1>3. WriteInv'
    BY <1>1, WriteStays DEF LifeInv, HostChange, SameGeneration
  <1>4. ActiveOK' /\ invoked' \in [Generations -> Nat]
    BY DEF LifeInv, Typed, ActiveOK, HistoryOK
  <1>5. HostOK' /\ HostInv' /\ HostMoves /\ shut' \in BOOLEAN /\ (shut' => shut)
    BY DEF HostChange
  <1> QED
    BY <1>1, <1>2, <1>3, <1>4, <1>5, CreatorSteps

\* While one creation has operation.lock no other one is inside.
LEMMA OneCreates ==
    ASSUME LifeInv, NEW c \in Creators, pc[c] \in CreateLabels \/ Free("operation"), Moves(c)
    PROVE  \A d \in Creators \ {c} : pc[d] \notin CreateLabels /\ pc'[d] \notin CreateLabels
  <1>1. \A d \in Creators \ {c} : pc[d] \notin CreateLabels
    BY FreeLocks DEF LifeInv, LockInv, OperationLabels, Actors
  <1> QED
    BY <1>1 DEF Moves, Actors

LEMMA CreateOfOne ==
    ASSUME LifeInv, NEW c \in Creators, pc[c] \in CreateLabels \/ Free("operation"), Moves(c),
           \A d \in Creators \ {c} : creation'[d] = creation[d] /\ created'[d] = created[d],
           \A g \in Generations : invoked[g] = 1 => invoked'[g] = 1,
           CreateOf(c)'
    PROVE  CreateInv'
  <1> SUFFICES ASSUME NEW d \in Creators PROVE CreateOf(d)'
    BY DEF CreateInv, CreateOf
  <1>1. CASE d = c
    BY <1>1
  <1>2. CASE d # c
    <2>1. pc'[d] \notin CreateLabels /\ creation'[d] = creation[d] /\ created'[d] = created[d]
      BY <1>2, OneCreates
    <2>2. /\ created[d] \in {0, 1}
          /\ creation[d].phase = "completed" =>
                creation[d].bound # 0 /\ created[d] = 1 /\ invoked[creation[d].bound] = 1
      BY DEF LifeInv, CreateInv, CreateOf
    <2>3. creation[d].bound # 0 => creation[d].bound \in Generations
      BY DEF LifeInv, Typed, CreationOK, Creations, Generations
    <2> QED
      BY <2>1, <2>2, <2>3 DEF CreateOf, CreateLabels
  <1> QED
    BY <1>1, <1>2

LEMMA RecordIsTyped ==
    ASSUME CreationOK, NEW c \in Creators, UNCHANGED created, SetPhaseOf(c, creation'[c].phase),
           creation'[c].phase
              \in {"none", "dialog_pending", "create_pending", "bootstrapping", "completed"}
    PROVE  /\ CreationOK' /\ creation'[c].bound = creation[c].bound
           /\ \A d \in Creators \ {c} : creation'[d] = creation[d]
  BY DEF CreationOK, Creations, SetPhaseOf

\* What has been overtaken stays overtaken while a record goes forward.
LEMMA OvertakenStays ==
    ASSUME NEW c \in Creators, \A d \in Creators \ {c} : creation'[d] = creation[d],
           creation[c].phase \in {"bootstrapping", "completed"}
              => creation'[c].phase \in {"bootstrapping", "completed"}
    PROVE  Overtaken => Overtaken'
  BY DEF Overtaken

LEMMA CreatorIsAt ==
    ASSUME LifeInv, NEW c \in Creators
    PROVE  /\ c \in Actors /\ LocalOK /\ CreationOK /\ CreateOf(c)
           /\ pc[c] \in CreateLabels => holder["operation"] = c
  BY DEF LifeInv, Typed, CreateInv, LockInv, OperationLabels, Actors

LEMMA BeginCreateKeeps ==
    ASSUME LifeInv, NEW c \in Creators, BeginCreate(c)
    PROVE  LifeInv'
  <1>1. /\ c \in Actors /\ LocalOK /\ CreateOf(c) /\ Free("operation") /\ UNCHANGED call
        /\ UNCHANGED <<working, environment, journal, writes, services, history>>
    BY CreatorIsAt DEF BeginCreate
  <1>2. /\ Moves(c) /\ holder'["operation"] = c
        /\ \/ pc'[c] = "create_startup" /\ creation[c].phase = "none"
           \/ pc'[c] = "create_restart" /\ creation[c].phase = "dialog_pending"
           \/ pc'[c] = "create_watch"
    <2>1. CASE /\ creation[c].phase = "none" /\ Goto(c, "create_startup")
               /\ holder' = [holder EXCEPT !.operation = c, !.connection = c]
      <3>1. /\ holder' \in [Locks -> Actors \cup {None}] /\ holder'["operation"] = c
            /\ \A b \in Actors \ {c}, l \in Serial : holder[l] = b => holder'[l] = b
        BY <1>1, <2>1, NoneIsNobody DEF LocalOK, Free, Locks, Serial
      <3>2. pc' \in [Actors -> Labels] /\ pc'[c] = "create_startup"
            /\ \A b \in Actors \ {c} : pc'[b] = pc[b]
        BY <1>1, <2>1 DEF LocalOK, Goto, Labels, CreateLabels
      <3> QED
        BY <1>1, <2>1, <3>1, <3>2 DEF Moves, LocalOK
    <2>2. CASE /\ creation[c].phase = "dialog_pending"
               /\ Held("operation", c) /\ Goto(c, "create_restart")
      BY <1>1, <2>2, HeldMoves DEF Locks, Labels, CreateLabels
    <2>3. CASE Held("operation", c) /\ Goto(c, "create_watch")
      BY <1>1, <2>3, HeldMoves DEF Locks, Labels, CreateLabels
    <2> QED
      BY <2>1, <2>2, <2>3 DEF BeginCreate
  <1>3. CreationOK' /\ HostChange
    BY <1>1, NoHostChange DEF LifeInv, Typed, CreationOK
  <1>4. CreateOf(c)'
    BY <1>1, <1>2 DEF CreateOf
  <1>5. CreateInv'
    BY <1>1, <1>2, <1>4, CreateOfOne
  <1> QED
    BY <1>1, <1>2, <1>3, <1>5, CreatorTurns DEF CreateLabels, Overtaken

LEMMA RestartCreateKeeps ==
    ASSUME LifeInv, NEW c \in Creators, RestartCreate(c)
    PROVE  LifeInv'
  <1>1. /\ c \in Actors /\ LocalOK /\ CreateOf(c) /\ holder["operation"] = c
        /\ pc[c] = "create_restart" /\ pc[c] \in CreateLabels
        /\ UNCHANGED <<working, environment, journal, writes, services, history>>
    BY CreatorIsAt DEF RestartCreate, CreateLabels
  <1>2. CASE Return(c)
    BY <1>1, <1>2, ReturnKeeps DEF Elsewhere
  <1>3. CASE Moves(c) /\ holder'["operation"] = c /\ UNCHANGED call
             /\ pc'[c] \in {"create_dialog", "create_startup"}
    <2>1. CreationOK' /\ HostChange
      BY <1>1, NoHostChange DEF LifeInv, Typed, CreationOK
    <2>2. CreateOf(c)'
      BY <1>1, <1>3 DEF CreateOf
    <2>3. CreateInv'
      BY <1>1, <1>3, <2>2, CreateOfOne
    <2> QED
      BY <1>1, <1>3, <2>1, <2>3, CreatorTurns DEF CreateLabels, Overtaken
  <1>4. CASE Goto(c, "create_dialog") /\ UNCHANGED <<holder, call>>
    BY <1>1, <1>3, <1>4, GotoMoves DEF Labels, CreateLabels
  <1>5. CASE Free("connection") /\ Held("connection", c) /\ Goto(c, "create_startup")
             /\ UNCHANGED call
    BY <1>1, <1>3, <1>5, HeldMoves DEF Locks, Labels, CreateLabels
  <1> QED
    BY <1>2, <1>4, <1>5 DEF RestartCreate

LEMMA StartCreateKeeps ==
    ASSUME LifeInv, NEW c \in Creators, StartCreate(c)
    PROVE  LifeInv'
  <1>1. /\ c \in Actors /\ LocalOK /\ CreationOK /\ CreateOf(c) /\ holder["operation"] = c
        /\ pc[c] = "create_startup" /\ pc[c] \in CreateLabels
        /\ UNCHANGED <<working, exited, journal, writes, opens, routes, intent, history>>
    BY CreatorIsAt DEF StartCreate, CreateLabels
  <1>2. CASE LaunchOnce(c) /\ UNCHANGED creation
    <2>1. /\ Moves(c) /\ HostChange /\ UNCHANGED <<holder, pc>>
          /\ call'[c].tries = call[c].tries
      BY <1>1, <1>2, LaunchOnceMoves
    <2>2. CreateOf(c)' /\ CreationOK'
      BY <1>1, <1>2, <2>1 DEF CreateOf, CreationOK
    <2>3. CreateInv'
      BY <1>1, <1>2, <2>1, <2>2, CreateOfOne
    <2> QED
      BY <1>1, <1>2, <2>1, <2>2, <2>3, CreatorTurns DEF CreateLabels, Overtaken
  <1>3. CASE /\ creation' = [creation EXCEPT ![c] =
                   [phase |-> "dialog_pending", process |-> host.process, bound |-> 0]]
             /\ holder' = [holder EXCEPT !.connection = None]
             /\ Goto(c, "create_dialog") /\ UNCHANGED <<host, started, loops, call>>
    <2>1. /\ holder' \in [Locks -> Actors \cup {None}] /\ holder'["operation"] = c
          /\ \A b \in Actors \ {c}, l \in Serial : holder[l] = b => holder'[l] = b
      BY <1>1, <1>3 DEF LocalOK, Locks, Serial
    <2>2. Moves(c) /\ pc'[c] = "create_dialog"
      BY <1>1, <1>3, <2>1 DEF LocalOK, Moves, Goto, Labels, CreateLabels
    <2>3. /\ CreationOK' /\ creation'[c].phase = "dialog_pending"
          /\ \A d \in Creators \ {c} : creation'[d] = creation[d]
      <3>1. host.process \in 0 .. MaxProcess /\ 0 \in 0 .. MaxGeneration
        BY BoundsAssumption DEF LifeInv, Typed, HostOK
      <3> QED
        BY <1>1, <1>3, <3>1 DEF CreationOK, Creations
    <2>4. creation[c].phase \in {"none", "dialog_pending"}
      BY <1>1 DEF CreateOf
    <2>5. CreateOf(c)'
      BY <1>1, <2>2, <2>3 DEF CreateOf
    <2>6. CreateInv'
      BY <1>1, <2>2, <2>3, <2>5, CreateOfOne
    <2>7. HostChange
      BY <1>1, <1>3, NoHostChange
    <2>8. Overtaken => Overtaken'
      BY <2>3, <2>4, OvertakenStays
    <2> QED
      BY <1>1, <1>3, <2>1, <2>2, <2>3, <2>6, <2>7, <2>8, CreatorTurns DEF CreateLabels
  <1>4. CASE Return(c) /\ UNCHANGED <<host, started, loops, creation>>
    BY <1>1, <1>4, ReturnKeeps DEF Elsewhere
  <1> QED
    BY <1>2, <1>3, <1>4 DEF StartCreate

LEMMA PrepareCreateKeeps ==
    ASSUME LifeInv, NEW c \in Creators, PrepareCreate(c)
    PROVE  LifeInv'
  <1>1. /\ c \in Actors /\ LocalOK /\ CreationOK /\ CreateOf(c) /\ holder["operation"] = c
        /\ pc[c] = "create_dialog" /\ pc[c] \in CreateLabels
        /\ UNCHANGED <<working, environment, journal, writes, opens, routes, intent, history>>
    BY CreatorIsAt DEF PrepareCreate, CreateLabels
  <1>2. CASE Return(c) /\ UNCHANGED creation
    BY <1>1, <1>2, ReturnKeeps DEF Elsewhere
  <1>3. CASE /\ created[c] = 0 /\ SetPhaseOf(c, "create_pending")
             /\ Goto(c, "create_send") /\ UNCHANGED <<holder, call>>
    <2>1. Moves(c) /\ pc'[c] = "create_send"
      BY <1>1, <1>3, GotoMoves DEF Labels, CreateLabels
    <2>2. creation'[c].phase = "create_pending"
      BY <1>1, <1>3 DEF CreationOK, SetPhaseOf
    <2>3. /\ CreationOK' /\ \A d \in Creators \ {c} : creation'[d] = creation[d]
      BY <1>1, <1>3, <2>2, RecordIsTyped
    <2>4. CreateOf(c)'
      BY <1>1, <1>3, <2>1, <2>2 DEF CreateOf
    <2>5. CreateInv'
      BY <1>1, <2>1, <2>3, <2>4, CreateOfOne
    <2>6. HostChange
      BY <1>1, NoHostChange
    <2>7. Overtaken => Overtaken'
      BY <1>1, <2>3, OvertakenStays DEF CreateOf
    <2> QED
      BY <1>1, <1>3, <2>1, <2>3, <2>5, <2>6, <2>7, CreatorTurns DEF CreateLabels
  <1> QED
    BY <1>2, <1>3 DEF PrepareCreate

LEMMA SendCreateKeeps ==
    ASSUME LifeInv, NEW c \in Creators, SendCreate(c)
    PROVE  LifeInv'
  <1>1. /\ c \in Actors /\ LocalOK /\ CreationOK /\ CreateOf(c) /\ holder["operation"] = c
        /\ pc[c] = "create_send" /\ pc[c] \in CreateLabels
        /\ UNCHANGED <<working, started, loops, exited, journal, writes, services,
                       invoked, sent, closed>>
    BY CreatorIsAt DEF SendCreate, CreateLabels
  <1>2. /\ Moves(c) /\ pc'[c] \in {"idle", "create_watch"}
        /\ pc'[c] # "idle" => holder'["operation"] = c
        /\ call'[c].tries \in {0, call[c].tries}
    <2>1. CASE Goto(c, "create_watch") /\ UNCHANGED <<holder, call>>
      BY <1>1, <2>1, GotoMoves DEF Labels, CreateLabels
    <2>2. CASE Return(c)
      BY <1>1, <2>2, ReturnMoves DEF NoCall
    <2> QED
      BY <2>1, <2>2 DEF SendCreate
  <1>3. /\ created'[c] \in {0, 1} /\ created' \in [Creators -> Nat]
        /\ \A d \in Creators \ {c} : created'[d] = created[d]
    <2>1. created[c] = 0
      BY <1>1 DEF CreateOf
    <2> QED
      BY <1>1, <2>1 DEF SendCreate, CreationOK
  <1>4. HostChange
    <2>1. CASE host' = [host EXCEPT !.project = "new"] /\ shut' = FALSE
      <3>1. HostOK' /\ host'.process = host.process /\ host'.project = "new"
        BY <1>1, <2>1 DEF LifeInv, Typed, HostOK
      <3>2. HostMoves
        BY <1>1, <3>1 DEF LifeInv, Typed, HostOK, HostMoves
      <3>3. HostInv'
        BY <1>1, <2>1, <3>1 DEF LifeInv, HostInv, Running
      <3> QED
        BY <1>1, <2>1, <3>1, <3>2, <3>3 DEF HostChange
    <2>2. CASE UNCHANGED <<host, shut, created>>
      BY <1>1, <2>2, NoHostChange
    <2> QED
      BY <2>1, <2>2 DEF SendCreate
  <1>5. CreateOf(c)'
    BY <1>1, <1>2, <1>3 DEF CreateOf
  <1>6. CreateInv'
    BY <1>1, <1>2, <1>3, <1>5, CreateOfOne
  <1>7. CreationOK'
    BY <1>1, <1>3 DEF CreationOK
  <1> QED
    BY <1>1, <1>2, <1>4, <1>6, <1>7, CreatorTurns DEF CreateLabels, Overtaken

LEMMA WatchCreateKeeps ==
    ASSUME LifeInv, NEW c \in Creators, WatchCreate(c)
    PROVE  LifeInv'
  <1>1. /\ c \in Actors /\ LocalOK /\ CreationOK /\ CreateOf(c) /\ holder["operation"] = c
        /\ pc[c] = "create_watch" /\ pc[c] \in CreateLabels
        /\ UNCHANGED <<working, environment, journal, writes, opens, routes, intent, history>>
    BY CreatorIsAt DEF WatchCreate, CreateLabels
  <1>2. HostChange
    BY <1>1, NoHostChange
  <1>3. CASE Return(c) /\ UNCHANGED creation
    BY <1>1, <1>3, ReturnKeeps DEF Elsewhere
  <1>4. CASE /\ creation[c].bound = 0 /\ SetPhaseOf(c, "bootstrapping")
             /\ Goto(c, "create_new") /\ UNCHANGED <<holder, call>>
    <2>1. Moves(c) /\ pc'[c] = "create_new"
      BY <1>1, <1>4, GotoMoves DEF Labels, CreateLabels
    <2>2. creation'[c].phase = "bootstrapping"
      BY <1>1, <1>4 DEF CreationOK, SetPhaseOf
    <2>3. /\ CreationOK' /\ \A d \in Creators \ {c} : creation'[d] = creation[d]
      BY <1>1, <1>4, <2>2, RecordIsTyped
    <2>4. CreateOf(c)'
      BY <1>1, <2>1, <2>2 DEF CreateOf
    <2>5. CreateInv'
      BY <1>1, <2>1, <2>3, <2>4, CreateOfOne
    <2>6. Overtaken => Overtaken'
      BY <2>2, <2>3, OvertakenStays
    <2> QED
      BY <1>1, <1>2, <1>4, <2>1, <2>3, <2>5, <2>6, CreatorTurns DEF CreateLabels
  <1>5. CASE /\ creation[c].bound # 0 /\ active.generation = creation[c].bound
             /\ Goto(c, "create_menu") /\ UNCHANGED <<holder, call, creation>>
    <2>1. Moves(c) /\ pc'[c] = "create_menu"
      BY <1>1, <1>5, GotoMoves DEF Labels, CreateLabels
    <2>2. CreateOf(c)' /\ CreationOK'
      BY <1>1, <1>5, <2>1 DEF CreateOf, CreationOK
    <2>3. CreateInv'
      BY <1>1, <1>5, <2>1, <2>2, CreateOfOne
    <2> QED
      BY <1>1, <1>2, <1>5, <2>1, <2>2, <2>3, CreatorTurns DEF CreateLabels, Overtaken
  <1> QED
    BY <1>3, <1>4, <1>5 DEF WatchCreate

LEMMA NewForCreateKeeps ==
    ASSUME LifeInv, NEW c \in Creators, NewForCreate(c)
    PROVE  LifeInv'
  <1>1. /\ c \in Actors /\ LocalOK /\ CreationOK /\ CreateOf(c) /\ holder["operation"] = c
        /\ pc[c] = "create_new" /\ pc[c] \in CreateLabels
        /\ UNCHANGED <<working, host, started, loops, writes, services, history>>
    BY CreatorIsAt DEF NewForCreate, CreateLabels
  <1>2. CASE Return(c) /\ UNCHANGED <<exited, journal>>
    BY <1>1, <1>2, ReturnKeeps DEF Elsewhere
  <1>3. CASE /\ NewGeneration(creation[c].process, FALSE)
             /\ Goto(c, "create_bind") /\ UNCHANGED <<holder, call>>
    <2>1. Moves(c) /\ pc'[c] = "create_bind"
      BY <1>1, <1>3, GotoMoves DEF Labels, CreateLabels
    <2>2. /\ ActiveOK' /\ exited' = FALSE /\ active'.generation # 0 /\ MenuInv' /\ WriteInv'
      <3>1. Overtaken /\ Overtaken'
        BY <1>1 DEF Overtaken, CreateOf
      <3>2. creation[c].process \in 0 .. MaxProcess
        BY <1>1 DEF CreationOK, Creations
      <3>3. \A b \in Actors : pc'[b] \notin {"menu", "create_invoke", "send"}
        BY <1>1, <2>1 DEF LifeInv, LockInv, Moves, OperationLabels, CreateLabels
      <3> QED
        BY <1>1, <1>3, <3>1, <3>2, <3>3, Rotation
    <2>3. CreateOf(c)' /\ CreationOK'
      BY <1>1, <2>1, <2>2 DEF CreateOf, CreationOK
    <2>4. CreateInv'
      BY <1>1, <2>1, <2>3, CreateOfOne
    <2>5. HostOK' /\ HostInv' /\ HostMoves /\ shut' \in BOOLEAN /\ (shut' => shut)
      <3>1. HostOK' /\ HostInv'
        BY <1>1, <2>2 DEF LifeInv, Typed, HostOK, HostInv, Running
      <3>2. HostMoves
        BY <1>1, HostStands DEF LifeInv, Typed
      <3>3. shut' \in BOOLEAN /\ (shut' => shut)
        BY <1>1 DEF LifeInv, Typed, HistoryOK
      <3> QED
        BY <3>1, <3>2, <3>3
    <2>6. invoked' \in [Generations -> Nat]
      BY <1>1 DEF LifeInv, Typed, HistoryOK
    <2> QED
      BY <1>1, <1>3, <2>1, <2>2, <2>3, <2>4, <2>5, <2>6, CreatorSteps DEF CreateLabels
  <1> QED
    BY <1>2, <1>3 DEF NewForCreate

LEMMA BindCreateKeeps ==
    ASSUME LifeInv, NEW c \in Creators, BindCreate(c)
    PROVE  LifeInv'
  <1>1. /\ c \in Actors /\ LocalOK /\ CreationOK /\ CreateOf(c) /\ holder["operation"] = c
        /\ pc[c] = "create_bind" /\ pc[c] \in CreateLabels
        /\ creation' = [creation EXCEPT ![c].bound = active.generation]
        /\ Goto(c, "create_menu")
        /\ UNCHANGED <<working, environment, journal, writes, opens, routes, intent,
                       holder, call, history>>
    BY CreatorIsAt DEF BindCreate, CreateLabels
  <1>2. Moves(c) /\ pc'[c] = "create_menu"
    BY <1>1, GotoMoves DEF Labels, CreateLabels
  <1>3. active.generation \in 0 .. MaxGeneration
    BY DEF LifeInv, Typed, ActiveOK
  <1>4. /\ CreationOK' /\ creation'[c].bound = active.generation
        /\ creation'[c].phase = creation[c].phase
        /\ \A d \in Creators \ {c} : creation'[d] = creation[d]
    BY <1>1, <1>3 DEF CreationOK, Creations
  <1>5. CreateOf(c)'
    BY <1>1, <1>2, <1>4 DEF CreateOf
  <1>6. CreateInv'
    BY <1>1, <1>2, <1>4, <1>5, CreateOfOne
  <1>7. HostChange
    BY <1>1, NoHostChange
  <1>8. Overtaken => Overtaken'
    BY <1>4, OvertakenStays
  <1> QED
    BY <1>1, <1>2, <1>4, <1>6, <1>7, <1>8, CreatorTurns DEF CreateLabels

\* A creation whose step touches the journal, in the generation that stays.
LEMMA JournalTurns ==
    ASSUME LifeInv, NEW c \in Creators, pc[c] \in CreateLabels, Moves(c),
           UNCHANGED <<working, environment, initial, writes, opens, routes, intent, history>>,
           pc'[c] \in {"idle"} \cup CreateLabels, pc'[c] # "idle" => holder'["operation"] = c,
           pc'[c] = "create_release" => ~shut, call'[c].tries \in {0, call[c].tries},
           ActiveOK', SameGeneration, MenuInv', CreationOK', CreateOf(c)',
           \A d \in Creators \ {c} : creation'[d] = creation[d] /\ created'[d] = created[d],
           Overtaken => Overtaken'
    PROVE  LifeInv'
  <1>1. CreateInv'
    BY CreateOfOne
  <1>2. HostOK' /\ HostInv' /\ HostMoves /\ shut' \in BOOLEAN /\ (shut' => shut)
    BY NoHostChange DEF HostChange
  <1>3. WriteInv'
    <2>1. Quiet({"send"})
      BY c \in Actors, MovesQuiet DEF CreateLabels, Actors
    <2> QED
      BY <2>1, WriteStays DEF LifeInv
  <1>4. invoked' \in [Generations -> Nat]
    BY DEF LifeInv, Typed, HistoryOK
  <1> QED
    BY <1>1, <1>2, <1>3, <1>4, CreatorSteps

LEMMA DispatchCreateKeeps ==
    ASSUME LifeInv, NEW c \in Creators, DispatchCreate(c)
    PROVE  LifeInv'
  <1>1. /\ c \in Actors /\ LocalOK /\ CreationOK /\ CreateOf(c) /\ holder["operation"] = c
        /\ pc[c] = "create_menu" /\ pc[c] \in CreateLabels
        /\ UNCHANGED <<working, environment, initial, writes, services, history>>
    BY CreatorIsAt DEF DispatchCreate, CreateLabels
  <1>2. CASE Return(c) /\ UNCHANGED active
    BY <1>1, <1>2, ReturnKeeps DEF Elsewhere
  <1>3. CASE Goto(c, "create_verify") /\ UNCHANGED <<active, holder, call>>
    <2>1. Moves(c) /\ pc'[c] = "create_verify"
      BY <1>1, <1>3, GotoMoves DEF Labels, CreateLabels
    <2>2. CreateOf(c)' /\ CreationOK'
      BY <1>1, <1>3, <2>1 DEF CreateOf, CreationOK
    <2>3. CreateInv'
      BY <1>1, <1>3, <2>1, <2>2, CreateOfOne
    <2>4. HostChange
      BY <1>1, NoHostChange
    <2> QED
      BY <1>1, <1>3, <2>1, <2>2, <2>3, <2>4, CreatorTurns DEF CreateLabels, Overtaken
  <1>4. CASE /\ ~active.dispatch_started
             /\ active' = [active EXCEPT !.phase = "starting", !.dispatch_started = TRUE]
             /\ Goto(c, "create_invoke") /\ UNCHANGED <<holder, call>>
    <2>1. Moves(c) /\ pc'[c] = "create_invoke"
      BY <1>1, <1>4, GotoMoves DEF Labels, CreateLabels
    <2>2. /\ ActiveOK' /\ SameGeneration /\ active'.phase = "starting"
          /\ active'.dispatch_started
      BY <1>1, <1>4, DispatchIsTyped DEF LifeInv, Typed
    <2>3. CreateOf(c)' /\ CreationOK'
      BY <1>1, <2>1, <2>2 DEF CreateOf, CreationOK, SameGeneration
    <2>4. MenuInv'
      <3>1. active.generation # 0 /\ active.generation \in Generations
        BY <1>1 DEF CreateOf, LifeInv, Typed, ActiveOK, Generations
      <3>2. invoked[active.generation] = 0
        BY <1>4, <3>1 DEF LifeInv, MenuInv
      <3> QED
        BY <1>1, <2>1, <2>2, <3>1, <3>2 DEF LifeInv, MenuInv, SameGeneration
    <2> QED
      BY <1>1, <1>4, <2>1, <2>2, <2>3, <2>4, JournalTurns DEF CreateLabels, Overtaken
  <1> QED
    BY <1>2, <1>3, <1>4 DEF DispatchCreate

LEMMA InvokeForCreateKeeps ==
    ASSUME LifeInv, NEW c \in Creators, InvokeForCreate(c)
    PROVE  LifeInv'
  <1>1. /\ c \in Actors /\ LocalOK /\ CreationOK /\ CreateOf(c) /\ holder["operation"] = c
        /\ pc[c] = "create_invoke" /\ pc[c] \in CreateLabels /\ Invoke
        /\ UNCHANGED <<working, host, started, exited, initial, writes, services,
                       sent, created, closed, shut>>
    BY CreatorIsAt DEF InvokeForCreate, CreateLabels
  <1>2. /\ Moves(c) /\ pc'[c] \in {"idle", "create_verify"}
        /\ pc'[c] # "idle" => holder'["operation"] = c
        /\ call'[c].tries \in {0, call[c].tries}
    <2>1. CASE Goto(c, "create_verify") /\ UNCHANGED <<holder, call>>
      BY <1>1, <2>1, GotoMoves DEF Labels, CreateLabels
    <2>2. CASE Return(c)
      BY <1>1, <2>2, ReturnMoves DEF NoCall
    <2> QED
      BY <2>1, <2>2 DEF InvokeForCreate
  <1>3. /\ HostOK' /\ ActiveOK' /\ invoked' \in [Generations -> Nat] /\ SameGeneration
        /\ \A g \in Generations : invoked[g] = 1 => invoked'[g] = 1
        /\ MenuInv' /\ WriteInv'
    BY <1>1, <1>2, InvokeKeeps DEF Overtaken
  <1>4. CreationOK' /\ CreateInv'
    <2>1. CreationOK'
      BY <1>1 DEF CreationOK
    <2>2. creation[c].bound # 0 => creation[c].bound \in Generations
      BY <1>1 DEF CreationOK, Creations, Generations
    <2>3. CreateOf(c)'
      BY <1>1, <1>2, <1>3, <2>2 DEF CreateOf, SameGeneration
    <2> QED
      BY <1>1, <1>2, <1>3, <2>1, <2>3, CreateOfOne
  <1>5. HostInv' /\ HostMoves /\ shut' \in BOOLEAN /\ (shut' => shut)
    <2>1. HostInv' /\ HostMoves
      BY <1>1, HostStands DEF LifeInv, Typed, HostInv, Running
    <2>2. shut' \in BOOLEAN /\ (shut' => shut)
      BY <1>1 DEF LifeInv, Typed, HistoryOK
    <2> QED
      BY <2>1, <2>2
  <1> QED
    BY <1>1, <1>2, <1>3, <1>4, <1>5, CreatorSteps DEF CreateLabels

LEMMA VerifyCreateKeeps ==
    ASSUME LifeInv, NEW c \in Creators, VerifyCreate(c)
    PROVE  LifeInv'
  <1>1. /\ c \in Actors /\ LocalOK /\ CreationOK /\ CreateOf(c) /\ holder["operation"] = c
        /\ pc[c] = "create_verify" /\ pc[c] \in CreateLabels
        /\ UNCHANGED <<working, environment, initial, writes, opens, routes, intent, history>>
    BY CreatorIsAt DEF VerifyCreate, CreateLabels
  <1>2. CASE Return(c) /\ UNCHANGED <<active, creation>>
    BY <1>1, <1>2, ReturnKeeps DEF Elsewhere
  <1>3. CASE /\ Verified("new") /\ created[c] = 1
             /\ SetPhase("connected") /\ SetPhaseOf(c, "completed")
             /\ Goto(c, "create_release") /\ UNCHANGED <<holder, call>>
    <2>1. Moves(c) /\ pc'[c] = "create_release"
      BY <1>1, <1>3, GotoMoves DEF Labels, CreateLabels
    <2>2. /\ ActiveOK' /\ SameGeneration /\ active'.phase = "connected"
          /\ active'.dispatch_started = active.dispatch_started
      BY <1>1, <1>3, SetPhaseIsTyped DEF LifeInv, Typed, Phases
    <2>3. creation'[c].phase = "completed"
      BY <1>1, <1>3 DEF CreationOK, SetPhaseOf
    <2>4. /\ CreationOK' /\ creation'[c].bound = creation[c].bound
          /\ \A d \in Creators \ {c} : creation'[d] = creation[d]
      BY <1>1, <1>3, <2>3, RecordIsTyped
    <2>5. /\ active.generation # 0 /\ active.generation = creation[c].bound
          /\ invoked[active.generation] = 1
      <3>1. active.generation # 0 /\ active.generation = creation[c].bound
        BY <1>1 DEF CreateOf
      <3>2. active.generation \in Generations /\ active.generation \in loops
        BY <1>3, <3>1 DEF Verified, Answering, LifeInv, Typed, ActiveOK, Generations
      <3> QED
        BY <3>1, <3>2 DEF LifeInv, MenuInv
    <2>6. CreateOf(c)'
      BY <1>1, <1>3, <2>1, <2>3, <2>4, <2>5 DEF CreateOf
    <2>7. ~shut
      BY <1>3 DEF Verified, LifeInv, HostInv
    <2>8. MenuInv'
      <3>1. Quiet({"menu", "create_invoke"})
        BY <1>1, <2>1, MovesQuiet
      <3> QED
        BY <1>1, <2>2, <2>5, <3>1, MenuStays DEF LifeInv
    <2>9. Overtaken => Overtaken'
      BY <2>3, <2>4, OvertakenStays
    <2> QED
      BY <1>1, <1>3, <2>1, <2>2, <2>4, <2>6, <2>7, <2>8, <2>9, JournalTurns DEF CreateLabels
  <1> QED
    BY <1>2, <1>3 DEF VerifyCreate

LEMMA ReleaseCreateKeeps ==
    ASSUME LifeInv, NEW c \in Creators, ReleaseCreate(c)
    PROVE  LifeInv'
  <1>1. c \in Actors /\ LocalOK
    BY CreatorIsAt
  <1>2. Moves(c) /\ pc'[c] = "idle" /\ call'[c] = NoCall
    BY <1>1, ReturnMoves DEF ReleaseCreate
  <1>3. CallOf(c)'
    BY <1>2, BoundsAssumption DEF CallOf, NoCall, OpenLabels
  <1> QED
    BY <1>1, <1>2, <1>3, ReleaseKeeps DEF ReleaseCreate

LEMMA CreateStepKeeps ==
    ASSUME LifeInv, NEW c \in Creators, CreateStep(c)
    PROVE  LifeInv'
  BY BeginCreateKeeps, RestartCreateKeeps, StartCreateKeeps, PrepareCreateKeeps,
     SendCreateKeeps, WatchCreateKeeps, NewForCreateKeeps, BindCreateKeeps,
     DispatchCreateKeeps, InvokeForCreateKeeps, VerifyCreateKeeps, ReleaseCreateKeeps
     DEF CreateStep

-----------------------------------------------------------------------------
(* Closes *)

CloseLocked == CloseLabels \ {"close_claim"}

\* A step of a close, as far as it can disturb anything but itself.
LEMMA CloserSteps ==
    ASSUME LifeInv, NEW c \in Closers, Moves(c),
           UNCHANGED <<working, started, loops, exited, journal, writes, opens, creation,
                       invoked, sent, created>>,
           HostOK', HostInv', HostMoves, host'.process = host.process, shut' \in BOOLEAN,
           pc'[c] \in {"idle"} \cup CloseLabels,
           pc'[c] \in CloseLocked => holder'["operation"] = c,
           call'[c].tries \in {0, call[c].tries},
           RoutesOK', CloseInv'
    PROVE  LifeInv'
  <1>1. c \in Actors
    BY DEF Actors
  <1>2. Typed'
    <2>1. WritesOK' /\ OpensOK' /\ ActiveOK' /\ CreationOK' /\ LocalOK'
      BY DEF LifeInv, Typed, WritesOK, OpensOK, ActiveOK, CreationOK, Moves
    <2>2. HistoryOK'
      BY DEF LifeInv, Typed, HistoryOK
    <2> QED
      BY <2>1, <2>2 DEF Typed
  <1>3. LockInv' /\ CallInv' /\ OpenInv' /\ KeysInv'
    <2>1. started' \in Nat
      BY DEF HostMoves
    <2>2. pc'[c] \in OperationLabels => holder'["operation"] = c
      BY DEF OperationLabels, CreateLabels, CloseLabels, CloseLocked, OpenLabels
    <2> QED
      BY <1>1, <2>1, <2>2, Others
  <1>4. Quiet({"menu", "create_invoke"}) /\ Quiet(CreateLabels) /\ Quiet({"send"})
    BY <1>1, MovesQuiet DEF CreateLabels, CloseLabels
  <1>5. MenuInv' /\ CreateInv'
    BY <1>4, MenuElsewhere, CreateElsewhere DEF LifeInv
  <1>6. WriteInv'
    BY <1>4, WriteElsewhere DEF LifeInv
  <1> QED
    BY <1>2, <1>3, <1>5, <1>6 DEF LifeInv

LEMMA CloserIsAt ==
    ASSUME LifeInv, NEW c \in Closers
    PROVE  /\ c \in Actors /\ LocalOK /\ RoutesOK /\ CloseOf(c)
           /\ routes[c] \in Routes
           /\ pc[c] \in CloseLocked => holder["operation"] = c
  BY DEF LifeInv, Typed, CloseInv, LockInv, OperationLabels, CloseLocked, RoutesOK, Actors

\* While one close has operation.lock, no other one but a claim and no release is inside.
LEMMA CloseOfOne ==
    ASSUME LifeInv, NEW c \in Closers, pc[c] \in CloseLocked \/ Free("operation"), Moves(c),
           \A d \in Closers \ {c} :
              /\ closed'[d] = closed[d] /\ routes'[d].phase = routes[d].phase
              /\ routes'[d].ok = routes[d].ok /\ routes'[d].acknowledged = routes[d].acknowledged
              /\ routes'[d].archived = routes[d].archived,
           shut' => intent'.phase # "none" \/ \E d \in Closers : Refused(d)',
           pc'[c] \notin {"open_release", "create_release"}, CloseOf(c)'
    PROVE  CloseInv'
  <1>1. c \in Actors
    BY DEF Actors
  <1>2. \A b \in Actors \ {c} : pc'[b] \notin OperationLabels
    BY <1>1, FreeLocks
       DEF LifeInv, LockInv, Moves, OperationLabels, CloseLocked, CreateLabels, CloseLabels
  <1>3. HoldInv'
    BY <1>2 DEF HoldInv, OperationLabels, CreateLabels
  <1>4. ASSUME NEW d \in Closers PROVE CloseOf(d)'
    <2>1. CASE d = c
      BY <2>1
    <2>2. CASE d # c
      <3>1. CloseOf(d) /\ d \in Actors
        BY DEF LifeInv, CloseInv, Actors
      <3>2. pc'[d] = "close_claim" => pc[d] = "close_claim"
        BY <2>2, <3>1 DEF Moves
      <3> QED
        BY <1>2, <2>2, <3>1, <3>2 DEF CloseOf, OperationLabels, CloseLabels
    <2> QED
      BY <2>1, <2>2
  <1> QED
    BY <1>3, <1>4 DEF CloseInv

\* A step of a close in which Resolve stands still.
LEMMA CloserTurns ==
    ASSUME LifeInv, NEW c \in Closers, pc[c] \in CloseLocked \/ Free("operation"), Moves(c),
           UNCHANGED <<working, environment, journal, writes, opens, creation, history>>,
           pc'[c] \in {"idle"} \cup CloseLocked,
           pc'[c] \in CloseLocked => holder'["operation"] = c,
           call'[c].tries \in {0, call[c].tries}, RoutesOK',
           \A d \in Closers \ {c} :
              /\ routes'[d].phase = routes[d].phase /\ routes'[d].ok = routes[d].ok
              /\ routes'[d].acknowledged = routes[d].acknowledged
              /\ routes'[d].archived = routes[d].archived,
           shut => intent'.phase # "none" \/ \E d \in Closers : Refused(d)',
           CloseOf(c)'
    PROVE  LifeInv'
  <1>1. HostOK' /\ HostInv' /\ HostMoves /\ shut' \in BOOLEAN
    BY NoHostChange DEF HostChange
  <1>2. CloseInv'
    BY CloseOfOne DEF CloseLocked, CloseLabels
  <1> QED
    BY <1>1, <1>2, CloserSteps DEF CloseLocked

\* A route is refused for good.
LEMMA RefusedStays ==
    ASSUME HoldInv, intent.phase # "none" => intent'.phase # "none",
           \A d \in Closers : Refused(d) => Refused(d)'
    PROVE  shut => intent'.phase # "none" \/ \E d \in Closers : Refused(d)'
  BY DEF HoldInv

SettledRoute(r, ok) == [r EXCEPT !.phase = "completed", !.ok = ok]
ClaimedRoute(r, g) ==
    [r EXCEPT !.phase = "dispatch_started", !.guard = TRUE, !.generation = g]

LEMMA RouteIsSettled ==
    ASSUME NEW r \in Routes, NEW ok \in BOOLEAN
    PROVE  /\ SettledRoute(r, ok) \in Routes /\ SettledRoute(r, ok).phase = "completed"
           /\ SettledRoute(r, ok).ok = ok
           /\ SettledRoute(r, ok).acknowledged = r.acknowledged
           /\ SettledRoute(r, ok).archived = r.archived
  BY DEF Routes, SettledRoute

LEMMA RouteIsClaimed ==
    ASSUME NEW r \in Routes, NEW g \in 0 .. MaxGeneration
    PROVE  /\ ClaimedRoute(r, g) \in Routes /\ ClaimedRoute(r, g).phase = "dispatch_started"
           /\ ClaimedRoute(r, g).acknowledged = r.acknowledged
           /\ ClaimedRoute(r, g).archived = r.archived
  BY DEF Routes, ClaimedRoute

\* A route that is saved leaves the other keys alone.
LEMMA RouteIsSaved ==
    ASSUME RoutesOK, NEW c \in Closers, NEW route \in Routes, SaveRoute(c, route),
           UNCHANGED closed,
           intent' \in [phase: {"none", "pending", "closed"}, by: Closers \cup {None}]
    PROVE  /\ RoutesOK' /\ routes'[c] = route
           /\ \A d \in Closers \ {c} : routes'[d] = routes[d]
  BY DEF RoutesOK, SaveRoute

LEMMA ReplayCloseKeeps ==
    ASSUME LifeInv, NEW c \in Closers, ReplayClose(c)
    PROVE  LifeInv'
  <1>1. /\ c \in Actors /\ LocalOK /\ RoutesOK /\ CloseOf(c) /\ Free("operation")
        /\ routes[c].phase = "completed" /\ Held("operation", c) /\ Goto(c, "close_finish")
        /\ UNCHANGED <<working, environment, journal, writes, services, call, history>>
    BY CloserIsAt DEF ReplayClose
  <1>2. Moves(c) /\ pc'[c] = "close_finish" /\ holder'["operation"] = c
    BY <1>1, HeldMoves DEF Locks, Labels, CloseLabels
  <1>3. CloseOf(c)' /\ RoutesOK'
    BY <1>1, <1>2 DEF CloseOf, RoutesOK
  <1>4. shut => intent'.phase # "none" \/ \E d \in Closers : Refused(d)'
    BY <1>1, RefusedStays DEF LifeInv, CloseInv, Refused
  <1> QED
    BY <1>1, <1>2, <1>3, <1>4, CloserTurns DEF CloseLocked, CloseLabels

LEMMA ArchiveCloseKeeps ==
    ASSUME LifeInv, NEW c \in Closers, ArchiveClose(c)
    PROVE  LifeInv'
  <1> DEFINE route == [routes[c] EXCEPT !.archived = TRUE]
  <1>1. /\ c \in Actors /\ LocalOK /\ RoutesOK /\ CloseOf(c) /\ Free("operation")
        /\ routes[c].phase = "dispatch_started" /\ routes[c].acknowledged
        /\ SaveRoute(c, route) /\ Held("operation", c) /\ Goto(c, "close_commit")
        /\ UNCHANGED <<working, environment, journal, writes, opens, creation, intent,
                       call, history>>
    BY CloserIsAt DEF ArchiveClose, Recoverable
  <1>2. Moves(c) /\ pc'[c] = "close_commit" /\ holder'["operation"] = c
    BY <1>1, HeldMoves DEF Locks, Labels, CloseLabels
  <1>3. /\ route \in Routes /\ route.phase = "dispatch_started" /\ route.ok = routes[c].ok
    BY <1>1, CloserIsAt DEF Routes
  <1> HIDE DEF route
  <1>4. /\ RoutesOK' /\ routes'[c] = route
        /\ \A d \in Closers \ {c} : routes'[d] = routes[d]
    BY <1>1, <1>3, RouteIsSaved DEF RoutesOK
  <1>5. CloseOf(c)'
    BY <1>1, <1>2, <1>3, <1>4 DEF CloseOf
  <1>6. shut => intent'.phase # "none" \/ \E d \in Closers : Refused(d)'
    BY <1>1, <1>3, <1>4, RefusedStays DEF LifeInv, CloseInv, Refused
  <1> QED
    BY <1>1, <1>2, <1>4, <1>5, <1>6, CloserTurns DEF CloseLocked, CloseLabels

LEMMA RecoverArchivedKeeps ==
    ASSUME LifeInv, NEW c \in Closers, RecoverArchived(c)
    PROVE  LifeInv'
  <1>1. /\ c \in Actors /\ LocalOK /\ RoutesOK /\ CloseOf(c) /\ Free("operation")
        /\ routes[c].phase = "dispatch_started" /\ routes[c].archived
        /\ Held("operation", c) /\ Goto(c, "close_commit")
        /\ UNCHANGED <<working, environment, journal, writes, services, call, history>>
    BY CloserIsAt DEF RecoverArchived, Recoverable
  <1>2. Moves(c) /\ pc'[c] = "close_commit" /\ holder'["operation"] = c
    BY <1>1, HeldMoves DEF Locks, Labels, CloseLabels
  <1>3. CloseOf(c)' /\ RoutesOK'
    BY <1>1, <1>2 DEF CloseOf, RoutesOK
  <1>4. shut => intent'.phase # "none" \/ \E d \in Closers : Refused(d)'
    BY <1>1, RefusedStays DEF LifeInv, CloseInv, Refused
  <1> QED
    BY <1>1, <1>2, <1>3, <1>4, CloserTurns DEF CloseLocked, CloseLabels

LEMMA CommitRecoveryKeeps ==
    ASSUME LifeInv, NEW c \in Closers, CommitRecovery(c)
    PROVE  LifeInv'
  <1> DEFINE route == SettledRoute(routes[c], TRUE)
  <1>1. /\ c \in Actors /\ LocalOK /\ RoutesOK /\ CloseOf(c) /\ routes[c] \in Routes
        /\ pc[c] = "close_commit" /\ pc[c] \in CloseLocked
        /\ holder["operation"] = c /\ SaveRoute(c, route) /\ Goto(c, "close_finish")
        /\ UNCHANGED <<working, environment, journal, writes, opens, creation, intent,
                       holder, call, history>>
    BY CloserIsAt DEF CommitRecovery, CloseLocked, CloseLabels, SettledRoute
  <1>2. Moves(c) /\ pc'[c] = "close_finish"
    BY <1>1, GotoMoves DEF Labels, CloseLabels
  <1>3. /\ route \in Routes /\ route.phase = "completed" /\ route.ok = TRUE
    BY <1>1, RouteIsSettled
  <1>4. closed[c] = 1 /\ routes[c].phase = "dispatch_started"
    BY <1>1 DEF CloseOf
  <1> HIDE DEF route
  <1>5. /\ RoutesOK' /\ routes'[c] = route
        /\ \A d \in Closers \ {c} : routes'[d] = routes[d]
    BY <1>1, <1>3, RouteIsSaved DEF RoutesOK
  <1>6. CloseOf(c)'
    BY <1>1, <1>2, <1>3, <1>4, <1>5 DEF CloseOf
  <1>7. shut => intent'.phase # "none" \/ \E d \in Closers : Refused(d)'
    BY <1>1, <1>4, <1>5, RefusedStays DEF LifeInv, CloseInv, Refused
  <1> QED
    BY <1>1, <1>2, <1>5, <1>6, <1>7, CloserTurns DEF CloseLocked, CloseLabels

\* A close that only looked has touched nothing but its own call.
LEMMA EnsureForCloseKeeps ==
    ASSUME LifeInv, NEW c \in Closers, EnsureForClose(c)
    PROVE  LifeInv'
  <1>1. /\ c \in Actors /\ LocalOK /\ routes[c].phase = "none"
        /\ call' = [call EXCEPT ![c].generation = active.generation]
        /\ Goto(c, "close_claim")
        /\ UNCHANGED <<working, environment, journal, writes, services, holder, history>>
    BY CloserIsAt DEF EnsureForClose
  <1>2. /\ call' \in [Actors -> Calls] /\ call'[c].tries = call[c].tries
        /\ \A b \in Actors \ {c} : call'[b] = call[b]
    <2>1. active.generation \in 0 .. MaxGeneration
      BY DEF LifeInv, Typed, ActiveOK
    <2> QED
      BY <1>1, <2>1 DEF LocalOK, Calls
  <1>3. Moves(c) /\ pc'[c] = "close_claim"
    BY <1>1, <1>2 DEF LocalOK, Moves, Goto, Labels, CloseLabels
  <1>4. CloseInv'
    <2>1. HoldInv'
      BY <1>1, <1>3 DEF LifeInv, CloseInv, HoldInv, Refused, Moves
    <2>2. ASSUME NEW d \in Closers PROVE CloseOf(d)'
      <3>1. CloseOf(d) /\ d \in Actors
        BY DEF LifeInv, CloseInv, Actors
      <3> QED
        BY <1>1, <1>3, <3>1 DEF CloseOf, Moves
    <2> QED
      BY <2>1, <2>2 DEF CloseInv
  <1>5. RoutesOK' /\ HostOK' /\ HostInv' /\ HostMoves /\ shut' \in BOOLEAN
    BY <1>1, NoHostChange DEF HostChange, LifeInv, Typed, RoutesOK
  <1> QED
    BY <1>1, <1>2, <1>3, <1>4, <1>5, CloserSteps DEF CloseLocked, CloseLabels

LEMMA ClaimCloseKeeps ==
    ASSUME LifeInv, NEW c \in Closers, ClaimClose(c)
    PROVE  LifeInv'
  <1> DEFINE claimed == ClaimedRoute(routes[c], active.generation)
  <1>1. /\ c \in Actors /\ LocalOK /\ RoutesOK /\ CloseOf(c) /\ Free("operation")
        /\ pc[c] = "close_claim" /\ routes[c].phase = "none"
        /\ UNCHANGED <<working, environment, journal, writes, opens, creation, intent, history>>
    BY CloserIsAt DEF ClaimClose, CloseOf
  <1>2. CASE Return(c) /\ UNCHANGED routes
    BY <1>1, <1>2, ReturnKeeps DEF Elsewhere
  <1>3. CASE /\ routes' = [other \in Closers |->
                   IF other = c THEN claimed ELSE [routes[other] EXCEPT !.guard = FALSE]]
             /\ Held("operation", c) /\ Goto(c, "close_intend") /\ UNCHANGED call
    <2>1. Moves(c) /\ pc'[c] = "close_intend" /\ holder'["operation"] = c
      BY <1>1, <1>3, HeldMoves DEF Locks, Labels, CloseLabels
    <2>2. /\ claimed \in Routes /\ claimed.phase = "dispatch_started"
          /\ claimed.acknowledged = routes[c].acknowledged
          /\ claimed.archived = routes[c].archived
      <3>1. active.generation \in 0 .. MaxGeneration
        BY DEF LifeInv, Typed, ActiveOK
      <3> QED
        BY <3>1, CloserIsAt, RouteIsClaimed
    <2> HIDE DEF claimed
    <2>3. ASSUME NEW d \in Closers \ {c}
          PROVE  /\ routes'[d] \in Routes
                 /\ routes'[d].phase = routes[d].phase /\ routes'[d].ok = routes[d].ok
                 /\ routes'[d].acknowledged = routes[d].acknowledged
                 /\ routes'[d].archived = routes[d].archived
      <3>1. routes'[d] = [routes[d] EXCEPT !.guard = FALSE] /\ routes[d] \in Routes
        BY <1>1, <1>3 DEF RoutesOK
      <3> QED
        BY <3>1 DEF Routes
    <2>4. RoutesOK' /\ routes'[c] = claimed
      <3>1. routes' = [other \in Closers |-> routes'[other]]
        BY <1>3
      <3>2. routes'[c] = claimed
        BY <1>3
      <3>3. \A d \in Closers : routes'[d] \in Routes
        BY <2>2, <2>3, <3>2
      <3>4. routes' \in [Closers -> Routes]
        BY <3>1, <3>3
      <3> QED
        BY <1>1, <3>2, <3>4 DEF RoutesOK
    <2>5. CloseOf(c)'
      BY <1>1, <2>1, <2>2, <2>4 DEF CloseOf
    <2>6. shut => intent'.phase # "none" \/ \E d \in Closers : Refused(d)'
      <3>1. \A d \in Closers : Refused(d) => Refused(d)'
        BY <1>1, <2>3 DEF Refused
      <3> QED
        BY <1>1, <3>1, RefusedStays DEF LifeInv, CloseInv
    <2> QED
      BY <1>1, <1>3, <2>1, <2>3, <2>4, <2>5, <2>6, CloserTurns DEF CloseLocked, CloseLabels
  <1> QED
    BY <1>2, <1>3 DEF ClaimClose, ClaimedRoute

LEMMA IntendCloseKeeps ==
    ASSUME LifeInv, NEW c \in Closers, IntendClose(c)
    PROVE  LifeInv'
  <1>1. /\ c \in Actors /\ LocalOK /\ RoutesOK /\ CloseOf(c) /\ pc[c] = "close_intend"
        /\ holder["operation"] = c /\ intent' = [phase |-> "pending", by |-> c]
        /\ Goto(c, "close_send")
        /\ UNCHANGED <<working, environment, journal, writes, opens, creation, routes,
                       holder, call, history>>
    BY CloserIsAt DEF IntendClose, CloseLocked, CloseLabels
  <1>2. Moves(c) /\ pc'[c] = "close_send"
    BY <1>1, GotoMoves DEF Labels, CloseLabels
  <1>3. CloseOf(c)' /\ RoutesOK'
    BY <1>1, <1>2 DEF CloseOf, RoutesOK
  <1> QED
    BY <1>1, <1>2, <1>3, CloserTurns DEF CloseLocked, CloseLabels

\* The project is gone only while the intent is pending.
LEMMA SendCloseKeeps ==
    ASSUME LifeInv, NEW c \in Closers, SendClose(c)
    PROVE  LifeInv'
  <1>1. /\ c \in Actors /\ LocalOK /\ RoutesOK /\ CloseOf(c) /\ routes[c] \in Routes
        /\ pc[c] = "close_send" /\ holder["operation"] = c /\ closed[c] = 0
        /\ intent.phase = "pending" /\ pc[c] \in CloseLocked
        /\ UNCHANGED <<working, journal, writes, opens, creation, intent>>
    BY CloserIsAt DEF SendClose, CloseLocked, CloseLabels, CloseOf
  <1>2. CASE Goto(c, "close_refused") /\ UNCHANGED <<environment, history, routes, holder, call>>
    <2>1. Moves(c) /\ pc'[c] = "close_refused"
      BY <1>1, <1>2, GotoMoves DEF Labels, CloseLabels
    <2>2. CloseOf(c)' /\ RoutesOK'
      BY <1>1, <1>2, <2>1 DEF CloseOf, RoutesOK
    <2> QED
      BY <1>1, <1>2, <2>1, <2>2, CloserTurns DEF CloseLocked, CloseLabels
  <1>3. CASE Return(c) /\ UNCHANGED <<environment, history, routes>>
    BY <1>1, <1>3, ReturnKeeps DEF Elsewhere
  <1>4. CASE /\ \E left \in {"none", "blank"} : host' = [host EXCEPT !.project = left]
             /\ closed' = [closed EXCEPT ![c] = @ + 1] /\ shut' = TRUE
             /\ \/ Goto(c, "close_done") /\ UNCHANGED <<routes, holder, call>>
                \/ /\ Return(c)
                   /\ \E seen \in BOOLEAN :
                        SaveRoute(c, [routes[c] EXCEPT !.acknowledged = seen])
             /\ UNCHANGED <<started, loops, exited, invoked, sent, created>>
    <2>1. /\ Moves(c) /\ pc'[c] \in {"close_done", "idle"}
          /\ pc'[c] = "close_done" => holder'["operation"] = c
          /\ call'[c].tries \in {0, call[c].tries}
      <3>1. CASE Goto(c, "close_done") /\ UNCHANGED <<holder, call>>
        BY <1>1, <3>1, GotoMoves DEF Labels, CloseLabels
      <3>2. CASE Return(c)
        BY <1>1, <3>2, ReturnMoves DEF NoCall
      <3> QED
        BY <1>4, <3>1, <3>2
    <2>2. /\ closed' \in [Closers -> Nat] /\ closed'[c] = 1
          /\ \A d \in Closers \ {c} : closed'[d] = closed[d]
      BY <1>1, <1>4 DEF RoutesOK
    <2>3. /\ routes' \in [Closers -> Routes] /\ routes'[c].phase = "dispatch_started"
          /\ \A d \in Closers \ {c} : routes'[d] = routes[d]
      <3>1. routes[c].phase = "dispatch_started" /\ routes \in [Closers -> Routes]
        BY <1>1 DEF CloseOf, RoutesOK
      <3>2. CASE UNCHANGED routes
        BY <3>1, <3>2
      <3>3. ASSUME NEW seen \in BOOLEAN,
                   SaveRoute(c, [routes[c] EXCEPT !.acknowledged = seen])
            PROVE  /\ routes' \in [Closers -> Routes] /\ routes'[c].phase = "dispatch_started"
                   /\ \A d \in Closers \ {c} : routes'[d] = routes[d]
        <4> DEFINE route == [routes[c] EXCEPT !.acknowledged = seen]
        <4>1. route \in Routes /\ route.phase = "dispatch_started"
          BY <1>1, <3>1 DEF Routes
        <4>2. routes' = [routes EXCEPT ![c] = route]
          BY <3>3 DEF SaveRoute
        <4> HIDE DEF route
        <4> QED
          BY <3>1, <4>1, <4>2
      <3> QED
        BY <1>4, <3>2, <3>3
    <2>4. /\ HostOK' /\ host'.process = host.process /\ host'.project \in {"none", "blank"}
      BY <1>4 DEF LifeInv, Typed, HostOK
    <2>5. HostInv' /\ HostMoves
      <3>1. HostInv'
        BY <1>4, <2>4 DEF LifeInv, HostInv, Running
      <3>2. HostMoves
        BY <1>4, <2>4 DEF LifeInv, Typed, HostOK, HostMoves
      <3> QED
        BY <3>1, <3>2
    <2>6. RoutesOK'
      BY <1>1, <2>2, <2>3 DEF RoutesOK
    <2>7. CloseOf(c)'
      BY <1>1, <2>1, <2>2, <2>3 DEF CloseOf
    <2>8. CloseInv'
      BY <1>1, <2>1, <2>2, <2>3, <2>7, CloseOfOne
    <2>9. shut' \in BOOLEAN
      BY <1>4
    <2> QED
      BY <1>1, <1>4, <2>1, <2>4, <2>5, <2>6, <2>8, <2>9, CloserSteps
         DEF CloseLocked, CloseLabels
  <1> QED
    BY <1>2, <1>3, <1>4 DEF SendClose

LEMMA SettleCloseKeeps ==
    ASSUME LifeInv, NEW c \in Closers, SettleClose(c)
    PROVE  LifeInv'
  <1> DEFINE done == pc[c] = "close_done"
             route == SettledRoute(routes[c], done)
  <1>1. /\ c \in Actors /\ LocalOK /\ RoutesOK /\ CloseOf(c) /\ routes[c] \in Routes
        /\ pc[c] \in {"close_done", "close_refused"} /\ pc[c] \in CloseLocked
        /\ holder["operation"] = c /\ SaveRoute(c, route) /\ Goto(c, "close_finish")
        /\ UNCHANGED <<working, environment, journal, writes, opens, creation, intent,
                       holder, call, history>>
    BY CloserIsAt DEF SettleClose, CloseLocked, CloseLabels, SettledRoute
  <1>2. Moves(c) /\ pc'[c] = "close_finish"
    BY <1>1, GotoMoves DEF Labels, CloseLabels
  <1>3. /\ route \in Routes /\ route.phase = "completed" /\ route.ok = done
        /\ route.acknowledged = routes[c].acknowledged /\ route.archived = routes[c].archived
    BY <1>1, RouteIsSettled
  <1>4. closed[c] = (IF done THEN 1 ELSE 0) /\ routes[c].phase = "dispatch_started"
    BY <1>1 DEF CloseOf
  <1> HIDE DEF route
  <1>5. /\ RoutesOK' /\ routes'[c] = route
        /\ \A d \in Closers \ {c} : routes'[d] = routes[d]
    BY <1>1, <1>3, RouteIsSaved DEF RoutesOK
  <1>6. CloseOf(c)'
    BY <1>1, <1>2, <1>3, <1>4, <1>5 DEF CloseOf
  <1>7. shut => intent'.phase # "none" \/ \E d \in Closers : Refused(d)'
    BY <1>1, <1>4, <1>5, RefusedStays DEF LifeInv, CloseInv, Refused
  <1> QED
    BY <1>1, <1>2, <1>5, <1>6, <1>7, CloserTurns DEF CloseLocked, CloseLabels

\* An intent that is dropped belongs to a close that is settled and was refused.
LEMMA FinishCloseKeeps ==
    ASSUME LifeInv, NEW c \in Closers, FinishClose(c)
    PROVE  LifeInv'
  <1> DEFINE route == [routes[c] EXCEPT !.guard = FALSE]
  <1>1. /\ c \in Actors /\ LocalOK /\ RoutesOK /\ CloseOf(c) /\ routes[c] \in Routes
        /\ pc[c] = "close_finish" /\ pc[c] \in CloseLocked /\ routes[c].phase = "completed"
        /\ SaveRoute(c, route) /\ Return(c)
        /\ UNCHANGED <<working, environment, journal, writes, opens, creation, history>>
    BY CloserIsAt DEF FinishClose, CloseLocked, CloseLabels, CloseOf
  <1>2. Moves(c) /\ pc'[c] = "idle" /\ call'[c].tries = 0
    BY <1>1, ReturnMoves DEF NoCall
  <1>3. /\ route \in Routes /\ route.phase = "completed" /\ route.ok = routes[c].ok
        /\ route.acknowledged = routes[c].acknowledged /\ route.archived = routes[c].archived
    BY <1>1 DEF Routes
  <1> HIDE DEF route
  <1>4. /\ intent' \in [phase: {"none", "pending", "closed"}, by: Closers \cup {None}]
        /\ intent.phase # "none" => intent'.phase # "none" \/ ~routes[c].ok
    <2>1. CASE intent.by # c
      BY <1>1, <2>1 DEF FinishClose, RoutesOK
    <2>2. CASE intent.by = c /\ routes[c].ok
      BY <1>1, <2>2 DEF FinishClose, RoutesOK
    <2>3. CASE intent.by = c /\ ~routes[c].ok
      BY <1>1, <2>3 DEF FinishClose, RoutesOK
    <2> QED
      BY <2>1, <2>2, <2>3
  <1>5. /\ RoutesOK' /\ routes'[c] = route
        /\ \A d \in Closers \ {c} : routes'[d] = routes[d]
    BY <1>1, <1>3, <1>4, RouteIsSaved DEF RoutesOK
  <1>6. CloseOf(c)'
    BY <1>1, <1>2, <1>3, <1>5 DEF CloseOf
  <1>7. shut => intent'.phase # "none" \/ \E d \in Closers : Refused(d)'
    <2>1. \A d \in Closers : Refused(d) => Refused(d)'
      BY <1>1, <1>3, <1>5 DEF Refused
    <2>2. CASE routes[c].ok
      BY <1>4, <2>1, <2>2, RefusedStays DEF LifeInv, CloseInv
    <2>3. CASE ~routes[c].ok
      BY <1>1, <2>1, <2>3 DEF Refused
    <2> QED
      BY <2>2, <2>3
  <1> QED
    BY <1>1, <1>2, <1>5, <1>6, <1>7, CloserTurns DEF CloseLocked, CloseLabels

LEMMA CloseStepKeeps ==
    ASSUME LifeInv, NEW c \in Closers, CloseStep(c)
    PROVE  LifeInv'
  BY ReplayCloseKeeps, ArchiveCloseKeeps, RecoverArchivedKeeps, CommitRecoveryKeeps,
     EnsureForCloseKeeps, ClaimCloseKeeps, IntendCloseKeeps, SendCloseKeeps, SettleCloseKeeps,
     FinishCloseKeeps
     DEF CloseStep

-----------------------------------------------------------------------------
(* The invariant holds at the start and is kept by every step *)

LEMMA InitHolds ==
    ASSUME Init
    PROVE  LifeInv
  <1> USE DEF Init
  <1>1. Typed
    <2>1. HostOK /\ ActiveOK
      <3>1. exited \in BOOLEAN
        OBVIOUS
      <3>2. host \in [process: 0 .. MaxProcess, project: {"none", "saved", "new", "blank"}]
        BY BoundsAssumption
      <3>3. started \in 0 .. MaxProcess /\ loops \subseteq Generations
        BY BoundsAssumption
      <3>4. ActiveOK
        BY BoundsAssumption DEF ActiveOK, Phases
      <3> QED
        BY <3>1, <3>2, <3>3, <3>4 DEF HostOK
    <2>2. HistoryOK
      BY DEF HistoryOK
    <2>3. WritesOK
      BY BoundsAssumption DEF WritesOK
    <2>4. OpensOK
      BY BoundsAssumption DEF OpensOK, Receipts, Opened, NoOpen, PendingStatuses
    <2>5. CreationOK
      BY BoundsAssumption DEF CreationOK, Creations
    <2>6. RoutesOK
      BY BoundsAssumption DEF RoutesOK, Routes
    <2>7. LocalOK
      BY NoCallIsACall DEF LocalOK, Locks, Labels
    <2> QED
      BY <2>1, <2>2, <2>3, <2>4, <2>5, <2>6, <2>7 DEF Typed
  <1>2. LockInv
    BY DEF LockInv, OperationLabels, OpenLabels, CreateLabels, CloseLabels
  <1>3. CallInv
    BY BoundsAssumption DEF CallInv, CallOf, NoCall, OpenLabels
  <1>4. KeysInv
    BY DEF KeysInv, Pending, PendingStatuses, Opened, NoOpen
  <1>5. OpenInv
    BY DEF OpenInv, OpenOf, OpenLabels
  <1>6. HostInv
    BY DEF HostInv, Running
  <1>7. MenuInv
    BY DEF MenuInv
  <1>8. CreateInv
    BY DEF CreateInv, CreateOf, Actors
  <1>9. CloseInv
    BY DEF CloseInv, CloseOf, HoldInv, Actors
  <1>10. WriteInv
    BY DEF WriteInv, Actors
  <1> QED
    BY <1>1, <1>2, <1>3, <1>4, <1>5, <1>6, <1>7, <1>8, <1>9, <1>10 DEF LifeInv

LEMMA NextKeeps ==
    ASSUME LifeInv, Next
    PROVE  LifeInv'
  <1>1. working \subseteq Actors
    BY MixesAssumption DEF LifeInv, Typed, HistoryOK
  <1>2. ASSUME NEW a \in Openers, OpenStep(a) PROVE LifeInv'
    <2>1. a \in Actors
      BY DEF Actors
    <2> QED
      BY <1>2, <2>1, OpenStepKeeps
  <1>3. CASE \E a \in working : Crash(a)
    BY <1>1, <1>3, CrashKeeps
  <1> QED
    BY <1>2, <1>3, HostStepKeeps, WatcherStepKeeps, WriterStepKeeps, AutoStepKeeps,
       CreateStepKeeps, CloseStepKeeps
       DEF Next

LEMMA StutterKeeps ==
    ASSUME LifeInv, UNCHANGED vars
    PROVE  LifeInv'
  <1> USE DEF vars
  <1>1. Typed'
    BY DEF LifeInv, Typed, HostOK, ActiveOK, WritesOK, OpensOK, CreationOK, RoutesOK,
       LocalOK, HistoryOK
  <1>2. LockInv' /\ CallInv' /\ KeysInv' /\ HostInv'
    BY DEF LifeInv, LockInv, CallInv, CallOf, KeysInv, HostInv, Pending, Running
  <1>3. OpenInv'
    BY DEF LifeInv, OpenInv, OpenOf, Pending, Running
  <1>4. MenuInv' /\ CreateInv' /\ CloseInv' /\ WriteInv'
    BY NobodyMoves, MenuElsewhere, CreateElsewhere, CloseElsewhere, WriteElsewhere DEF LifeInv
  <1> QED
    BY <1>1, <1>2, <1>3, <1>4 DEF LifeInv

\* Every state of the managed services is LifeInv's: the locks belong to the actors that
\* act under them, every receipt, record, route and intent says at least what was done
\* (project_open_service.py, project_create_service.py, project_close_state.py), and the
\* journal knows of every menu dispatch (marker_supervisor.py).
THEOREM LifecycleInvariant == Spec => []LifeInv
  <1>1. Init => LifeInv
    BY InitHolds
  <1>2. LifeInv /\ [Next]_vars => LifeInv'
    BY NextKeeps, StutterKeeps
  <1> QED
    BY <1>1, <1>2, PTL DEF Spec

\* Every record, lock and local state of the managed services has its type: in particular
\* every actor is at a label of its own protocol, and every automatic open acts on a key
\* that _open (automatic_connection.py) derives.
THEOREM TypeCorrect == Spec => []TypeOK
  <1>1. LifeInv => TypeOK
    BY DEF LifeInv, Typed, TypeOK, HostOK, ActiveOK, WritesOK, OpensOK, CreationOK, RoutesOK,
       LocalOK, HistoryOK, Receipts, Creations, Routes, Calls, Locks
  <1> QED
    BY <1>1, LifecycleInvariant, PTL

\* No dialog or menu of Resolve is sent twice for one request, by an open
\* (project_open_service.py), a creation (project_create_service.py) or a connection
\* (marker_supervisor.py), whoever dies and whoever repeats it: for any number of calls,
\* processes of Resolve and generations.
THEOREM ActsOnce == Spec => []ActedOnce
  <1>1. LifeInv => DispatchedOnce
    BY DEF LifeInv, KeysInv, MenuInv, Pending, DispatchedOnce
  <1>2. LifeInv => CreatedOnce
    BY DEF LifeInv, CreateInv, CreateOf, CreatedOnce
  <1>3. LifeInv => ActedOnce
    BY <1>1, <1>2 DEF ActedOnce
  <1> QED
    BY <1>3, LifecycleInvariant, PTL

\* docs/close-project.md: after the worker closed the project the durable intent
\* (project_close_state.py) stays until a project is open again, or a later close is
\* refused, whatever dies in between; and a settled close tells the truth.
THEOREM HoldsClosure == Spec => []ClosureIsHeld
  <1>1. LifeInv => ClosureIsHeld
    BY DEF LifeInv, CloseInv, CloseOf, HoldInv, ClosureIsHeld
  <1> QED
    BY <1>1, LifecycleInvariant, PTL

\* managed_marker.py: a key changes Resolve at most once over all generations, for managed
\* and static clients together, but for a static client in a loop that a creation overtook.
THEOREM OneGenerationPerKey == Spec => []KeyInOneGeneration
  <1>1. ASSUME LifeInv, NEW w \in Writers, NEW g \in Generations, NEW h \in Generations
        PROVE  /\ applied[w][g] <= 1
               /\ applied[w][g] = 1 /\ applied[w][h] = 1 =>
                     g = h \/ (initial \in {g, h} /\ Overtaken)
    <2>1. /\ applied[w][g] \in {0, 1}
          /\ applied[w][g] = 1 => g \in {owners[w], initial}
          /\ applied[w][h] = 1 => h \in {owners[w], initial}
          /\ ~Overtaken /\ applied[w][g] = 1 /\ g = initial => owners[w] \in {0, g}
          /\ ~Overtaken /\ applied[w][h] = 1 /\ h = initial => owners[w] \in {0, h}
          /\ g # 0 /\ h # 0
      BY <1>1 DEF LifeInv, WriteInv, Generations
    <2> QED
      BY <2>1
  <1>2. LifeInv => KeyInOneGeneration
    BY <1>1 DEF KeyInOneGeneration
  <1> QED
    BY <1>2, LifecycleInvariant, PTL
=============================================================================
