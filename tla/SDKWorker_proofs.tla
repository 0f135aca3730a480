-------------------------- MODULE SDKWorker_proofs --------------------------
(***************************************************************************)
(* That Resolve is changed for a key by one command and once, that a       *)
(* completed route tells the truth, and that what is in doubt stays where  *)
(* later writers find it: for every number of commands, keys and           *)
(* arguments, wherever the worker, the external processes and Resolve die. *)
(* The invariant follows a write from its route, over the slot or the      *)
(* external process, to the outcome that settles the route.                *)
(***************************************************************************)
EXTENDS SDKWorker, TLAPS

-----------------------------------------------------------------------------
(* The invariant *)

KeyOf(id) == command[id].key
Open == {"prepared", "dispatch_started", "uncertain"}
Dispatched == {"dispatch_started", "uncertain"}

\* The route of the key names the command, in one of the phases.
RouteIn(id, phases) == routes[KeyOf(id)].by = id /\ routes[KeyOf(id)].phase \in phases

\* A command nobody has asked for has left no trace yet.
UnknownInv ==
    /\ \A n \in DOMAIN queue : command[queue[n]] # NoCommand
    /\ \A id \in Ids : command[id] = NoCommand =>
          /\ external[id] = "none" /\ applied[id] = 0 /\ id \notin sent
          /\ response[id] = "none" /\ slot.call.op # id

\* A route names a command of its key; at most one is open; a completed one is
\* final: a success was carried out, and for an error nothing was ever sent.
RouteInv ==
    /\ \A k \in Keys : routes[k].phase = "absent" => routes[k] = NoRoute
    /\ \A k \in Keys : routes[k].phase # "absent" =>
          command[routes[k].by] = [key |-> k, args |-> routes[k].args]
    /\ \A j, k \in Keys : routes[j].phase \in Open /\ routes[k].phase \in Open => j = k
    /\ \A k \in Keys : routes[k].phase = "completed" =>
          /\ external[routes[k].by] \in {"none", "exited"}
          /\ IF routes[k].answer = "success" THEN applied[routes[k].by] = 1
             ELSE routes[k].by \notin sent

\* What was sent to change the project, and the change, belong to the route of the
\* key.
AppliedInv ==
    \A id \in Ids :
        /\ id \in sent => IsWrite(id) /\ RouteIn(id, Dispatched \cup {"completed"})
        /\ applied[id] # 0 => applied[id] = 1 /\ Secured(id) /\ id \in sent

\* An external process of a write works on a dispatched route, alone.
ExternalInv ==
    \A id \in Ids :
        /\ IsWrite(id) /\ external[id] # "none" =>
              RouteIn(id, Dispatched \cup {"completed"}) /\ slot.call.op # id
        /\ external[id] \in {"launched", "unbound", "claimed", "backed_up"} =>
              applied[id] = 0
        /\ external[id] \in {"backed_up", "mutated"} => IsWrite(id) /\ Secured(id)
        /\ external[id] = "mutated" => applied[id] = 1 /\ id \in sent
        /\ external[id] \in {"responded", "answered", "exited"} => response[id] # "none"

\* The packet in the slot: of a read, or of a write on an open route; a mutation
\* that was carried out is not carried out again.
SlotInv ==
    slot.call # NoCall =>
        /\ slot.call.op \in Ids
        /\ IF IsWrite(slot.call.op) THEN RouteIn(slot.call.op, Dispatched)
           ELSE slot.call.step \in {"root", "read"}
        /\ slot.call.step \in Mutating => slot.call.op \in sent
        /\ slot.call.step = "mutate" =>
              /\ slot.answer = "ok" => applied[slot.call.op] = 1
              /\ applied[slot.call.op] # 0 /\ lua = "up" => last = slot.call

LuaInv ==
    /\ scope # None /\ backup_ready => scope \in backups
    /\ last # NoCall /\ last.step = "mutate" /\ reply = "ok" => applied[last.op] = 1

\* A client that reads a success of a write has one.
SuccessInv ==
    \A id \in Ids : IsWrite(id) /\ response[id] = "success" =>
        \E other \in Ids : command[other] = command[id] /\ applied[other] = 1

Preparing == {"prepared", "guard_failed", "guarded"}
Inside == {"opening", "claiming", "calling", "awaiting", "call_failed", "executed",
           "refusing", "responded", "answered"}
Flying == Inside \cup {"external", "settling", "raising"}

\* The worker has one write open, the one it works on, and the guard is its own.
WorkerInv ==
    /\ pc \notin {"down", "idle"} => current \in Ids /\ command[current] # NoCommand
    /\ pc = "admitted" => AllRoutesSettled
    /\ pc \in {"admitted", "prepared", "guard_failed"} => guard = None
    /\ pc \in Preparing => IsWrite(current) /\ RouteIn(current, {"prepared"})
    /\ pc \in {"opening", "settling", "settled"} => IsWrite(current)
    /\ pc \in Flying /\ IsWrite(current) => RouteIn(current, {"dispatch_started"})
    /\ pc = "settled" => RouteIn(current, {"completed"})
    /\ pc \in Flying \cup {"guarded", "settled"} /\ IsWrite(current) => guard = current
    /\ pc = "awaiting" => slot.call = [op |-> current, step |-> step]
    /\ pc \in {"responded", "answered", "settling"} => response[current] # "none"

\* How far a write has come inside the worker.
InsideInv ==
    /\ pc \in {"calling", "awaiting", "call_failed"} /\ ~IsWrite(current) =>
          step \in {"root", "read"}
    /\ pc \in Inside /\ IsWrite(current) => external[current] = "none"
    /\ pc \in {"opening", "claiming"} /\ IsWrite(current) =>
          applied[current] = 0 /\ slot.call.op # current
    /\ pc = "calling" /\ IsWrite(current) =>
          /\ step \in {"root", "backup", "mutate"} => applied[current] = 0
          /\ step \in {"root", "backup", "mutate"} => slot.call.op # current
          /\ step \in {"verify", "restore"} => current \in sent
    /\ pc \in {"awaiting", "call_failed"} /\ IsWrite(current) =>
          /\ step # "root" => current \in sent
          /\ pc = "awaiting" /\ step \in {"root", "backup"} => applied[current] = 0
    /\ pc \in {"calling", "awaiting", "call_failed"} /\ IsWrite(current) =>
          step # "read" /\ (step = "verify" => applied[current] = 1)
    /\ pc = "executed" /\ IsWrite(current) =>
          applied[current] = 1 /\ slot.call.op # current
    /\ pc \in {"refusing", "responded", "answered"} /\ IsWrite(current) =>
          current \in sent \/ slot.call.op # current
    /\ pc \in {"responded", "answered"} /\ IsWrite(current)
          /\ response[current] = "success" => slot.call.op # current
    /\ pc = "settling" =>
          /\ slot.call.op # current /\ external[current] \in {"none", "exited"}
          /\ response[current] = "success" \/ current \notin sent

SInv ==
    /\ TypeOK /\ UnknownInv /\ RouteInv /\ AppliedInv /\ ExternalInv /\ SlotInv
    /\ LuaInv /\ SuccessInv /\ WorkerInv /\ InsideInv

-----------------------------------------------------------------------------
(* What a step leaves alone *)

USE DEF Secured, Creation

\* What a write is known by, except for its response.
LEMMA BooksKept ==
  ASSUME SInv, UNCHANGED <<command, routes, slot, external, native, sent, backups, bare, applied>>
  PROVE  RouteInv' /\ AppliedInv' /\ SlotInv' /\ LuaInv'
<1> USE DEF IsWrite, KeyOf, RouteIn
<1>1. RouteInv'
  BY DEF SInv, RouteInv
<1>2. AppliedInv'
  BY DEF SInv, AppliedInv
<1>3. SlotInv' /\ LuaInv'
  BY DEF SInv, SlotInv, LuaInv, native
<1> QED
  BY <1>1, <1>2, <1>3

LEMMA RecordsKept ==
  ASSUME SInv, UNCHANGED <<response, command, routes, slot, external, native, sent, backups, bare,
                           applied>>
  PROVE  /\ RouteInv' /\ AppliedInv' /\ ExternalInv' /\ SlotInv' /\ LuaInv' /\ SuccessInv'
<1>1. RouteInv' /\ AppliedInv' /\ SlotInv' /\ LuaInv'
  BY BooksKept
<1>2. ExternalInv'
  BY DEF SInv, ExternalInv, IsWrite, KeyOf, RouteIn
<1>3. SuccessInv'
  BY DEF SInv, SuccessInv, IsWrite
<1> QED
  BY <1>1, <1>2, <1>3

\* A record that is there names a command.
LEMMA RouteNames ==
  ASSUME TypeOK, NEW k \in Keys, routes[k].phase # "absent"
  PROVE  routes[k] \in Route /\ routes[k].by \in Ids
<1>1. routes[k] \in Route \cup {NoRoute}
  BY DEF TypeOK
<1>2. routes[k] \in Route
  BY <1>1 DEF NoRoute
<1> QED
  BY <1>2 DEF Route

\* A file leaves the queue, or none does.
LEMMA QueueShrinks ==
  ASSUME TypeOK, NEW id \in Ids
  PROVE  /\ Without(id) \in Seq(Ids)
         /\ \A n \in DOMAIN Without(id) : \E m \in DOMAIN queue : Without(id)[n] = queue[m]
<1>1. CASE ~Queued(id)
  BY <1>1 DEF Without, TypeOK
<1>2. CASE Queued(id)
  <2> DEFINE at == CHOOSE n \in DOMAIN queue : queue[n] = id
             place(n) == IF n < at THEN n ELSE n + 1
  <2>1. Len(queue) \in Nat /\ DOMAIN queue = 1..Len(queue)
        /\ \A n \in 1..Len(queue) : queue[n] \in Ids
    BY DEF TypeOK
  <2>2. at \in 1..Len(queue)
    BY <1>2, <2>1 DEF Queued
  <2>3. Without(id) = [n \in 1..(Len(queue) - 1) |-> queue[place(n)]]
    BY <1>2 DEF Without
  <2> HIDE DEF at
  <2>4. \A n \in 1..(Len(queue) - 1) : place(n) \in 1..Len(queue)
    BY <2>1, <2>2
  <2>5. Len(queue) - 1 \in Nat
    BY <2>1, <2>2
  <2> HIDE DEF place
  <2>6. \A n \in 1..(Len(queue) - 1) : queue[place(n)] \in Ids
    BY <2>1, <2>4
  <2>7. Without(id) \in [1..(Len(queue) - 1) -> Ids]
    BY <2>3, <2>6
  <2>8. Without(id) \in Seq(Ids)
    BY <2>5, <2>7
  <2>9. \A n \in DOMAIN Without(id) : \E m \in DOMAIN queue : Without(id)[n] = queue[m]
    BY <2>1, <2>3, <2>4
  <2> QED
    BY <2>8, <2>9
<1> QED
  BY <1>1, <1>2

LEMMA UnknownKept ==
  ASSUME SInv, UNCHANGED <<command, external, applied, sent, slot>>,
         \A id \in Ids : command[id] = NoCommand => response'[id] = response[id],
         queue' = queue \/ \E id \in Ids : queue' = Without(id)
  PROVE  UnknownInv' /\ queue' \in Seq(Ids)
<1>1. queue' \in Seq(Ids) /\ \A n \in DOMAIN queue' : \E m \in DOMAIN queue : queue'[n] = queue[m]
  BY QueueShrinks DEF SInv, TypeOK
<1> QED
  BY <1>1 DEF SInv, UnknownInv

\* A response may only call a write a success that is one.
LEMMA Responded ==
  ASSUME SInv, NEW id \in Ids, NEW status \in {"success", "error"}, Respond(id, status),
         command[id] # NoCommand,
         UNCHANGED <<command, routes, slot, external, native, sent, backups, bare, applied>>,
         queue' = queue \/ \E other \in Ids : queue' = Without(other),
         IsWrite(id) /\ status = "success" =>
             \E other \in Ids : command[other] = command[id] /\ applied[other] = 1
  PROVE  /\ RouteInv' /\ AppliedInv' /\ SlotInv' /\ LuaInv' /\ ExternalInv' /\ SuccessInv'
         /\ UnknownInv' /\ queue' \in Seq(Ids)
         /\ response' \in [Ids -> {"none", "success", "error"}] /\ response'[id] = status
         /\ \A other \in Ids \ {id} : response'[other] = response[other]
<1>1. /\ response' \in [Ids -> {"none", "success", "error"}] /\ response'[id] = status
      /\ \A other \in Ids \ {id} : response'[other] = response[other]
  BY DEF Respond, SInv, TypeOK
<1>2. RouteInv' /\ AppliedInv' /\ SlotInv' /\ LuaInv'
  BY BooksKept
<1>3. UnknownInv' /\ queue' \in Seq(Ids)
  BY <1>1, UnknownKept
<1>4. ExternalInv'
  BY <1>1 DEF SInv, ExternalInv, IsWrite, KeyOf, RouteIn
<1>5. SuccessInv'
  BY <1>1 DEF SInv, SuccessInv, IsWrite
<1> QED
  BY <1>1, <1>2, <1>3, <1>4, <1>5

-----------------------------------------------------------------------------
(* The worker: steps that change none of the records *)

LEMMA BeginsInv == ASSUME SInv, StartWorker \/ Pick PROVE SInv'
<1> USE DEF StartWorker, Pick
<1>1. /\ RouteInv' /\ AppliedInv' /\ ExternalInv' /\ SlotInv' /\ LuaInv' /\ SuccessInv'
  BY RecordsKept DEF files, records, channel, native, history
<1>2. TypeOK' /\ UnknownInv'
  <2>1. UnknownInv' /\ queue' \in Seq(Ids)
    BY UnknownKept DEF SInv, files, records, channel, history
  <2> QED
    BY <2>1 DEF SInv, TypeOK, files, records, channel, native, history, PCs
<1>3. WorkerInv'
  BY DEF SInv, TypeOK, WorkerInv, UnknownInv, Preparing, Inside, Flying, files
<1>4. InsideInv'
  BY DEF InsideInv, Inside
<1> QED
  BY <1>1, <1>2, <1>3, <1>4 DEF SInv

LEMMA StopsInv == ASSUME SInv, Refuse \/ WorkerCrash PROVE SInv'
<1> USE DEF Refuse, WorkerCrash, Goto
<1>1. /\ RouteInv' /\ AppliedInv' /\ ExternalInv' /\ SlotInv' /\ LuaInv' /\ SuccessInv'
  BY RecordsKept DEF files, records, channel, native, history
<1>2. TypeOK' /\ UnknownInv'
  <2>1. UnknownInv' /\ queue' \in Seq(Ids)
    BY UnknownKept DEF SInv, files, records, channel, history
  <2> QED
    BY <2>1 DEF SInv, TypeOK, files, records, channel, native, history, PCs
<1>3. WorkerInv'
  BY DEF SInv, WorkerInv, Preparing, Inside, Flying, files
<1>4. InsideInv'
  BY DEF InsideInv, Inside
<1> QED
  BY <1>1, <1>2, <1>3, <1>4 DEF SInv

LEMMA AdmitInv == ASSUME SInv, Admit PROVE SInv'
<1> USE DEF Admit, Goto
<1>1. /\ RouteInv' /\ AppliedInv' /\ ExternalInv' /\ SlotInv' /\ LuaInv' /\ SuccessInv'
  BY RecordsKept DEF files, records, channel, native, history
<1>2. TypeOK' /\ UnknownInv'
  <2>1. UnknownInv' /\ queue' \in Seq(Ids)
    BY UnknownKept DEF SInv, files, records, channel, history
  <2> QED
    BY <2>1 DEF SInv, TypeOK, files, records, native, history, PCs
<1>3. WorkerInv'
  BY DEF SInv, WorkerInv, Preparing, Inside, Flying, AllRoutesSettled, files, records
<1>4. InsideInv'
  BY DEF InsideInv, Inside
<1> QED
  BY <1>1, <1>2, <1>3, <1>4 DEF SInv

LEMMA OpenLedgerInv == ASSUME SInv, OpenLedger PROVE SInv'
<1> USE DEF OpenLedger, Goto
<1>1. /\ RouteInv' /\ AppliedInv' /\ ExternalInv' /\ SlotInv' /\ LuaInv' /\ SuccessInv'
  BY RecordsKept DEF files, records, channel, native, history
<1>2. TypeOK' /\ UnknownInv'
  <2>1. UnknownInv' /\ queue' \in Seq(Ids)
    BY UnknownKept DEF SInv, files, records, channel, history
  <2>2. ledger' \in [Keys -> LedgerPhases]
    BY DEF SInv, TypeOK, LedgerPhases, IsWrite, Key, WorkerInv
  <2> QED
    BY <2>1, <2>2 DEF SInv, TypeOK, files, channel, native, history, PCs
<1>3. WorkerInv'
  BY DEF SInv, WorkerInv, RouteIn, KeyOf, Preparing, Inside, Flying, files, channel
<1>4. InsideInv'
  BY DEF SInv, InsideInv, IsWrite, Inside, files, channel, history
<1> QED
  BY <1>1, <1>2, <1>3, <1>4 DEF SInv

LEMMA ClaimCommandInv == ASSUME SInv, ClaimCommand PROVE SInv'
<1> USE DEF ClaimCommand
<1>1. /\ RouteInv' /\ AppliedInv' /\ ExternalInv' /\ SlotInv' /\ LuaInv' /\ SuccessInv'
  BY RecordsKept DEF files, records, channel, native, history
<1>2. TypeOK' /\ UnknownInv'
  <2>1. UnknownInv' /\ queue' \in Seq(Ids)
    BY UnknownKept DEF SInv, WorkerInv, files, records, channel, history
  <2> QED
    BY <2>1 DEF SInv, TypeOK, WorkerInv, records, channel, native, PCs, Steps
<1>3. WorkerInv'
  BY DEF SInv, WorkerInv, RouteIn, KeyOf, IsWrite, Preparing, Inside, Flying, records, channel
<1>4. InsideInv'
  BY DEF SInv, InsideInv, IsWrite, Inside, channel
<1> QED
  BY <1>1, <1>2, <1>3, <1>4 DEF SInv

LEMMA HandlesInv == ASSUME SInv, HandleFailure \/ HandlerRefuses PROVE SInv'
<1> USE DEF HandleFailure, HandlerRefuses, Goto
<1>1. /\ RouteInv' /\ AppliedInv' /\ ExternalInv' /\ SlotInv' /\ LuaInv' /\ SuccessInv'
  BY RecordsKept DEF files, records, channel, native, history
<1>2. TypeOK' /\ UnknownInv'
  <2>1. UnknownInv' /\ queue' \in Seq(Ids)
    BY UnknownKept DEF SInv, files, records, channel, history
  <2> QED
    BY <2>1 DEF SInv, TypeOK, files, records, channel, native, history, PCs, Steps
<1>3. WorkerInv'
  BY DEF SInv, WorkerInv, RouteIn, KeyOf, IsWrite, Preparing, Inside, Flying, files, records,
      channel
<1>4. InsideInv'
  BY DEF SInv, TypeOK, InsideInv, IsWrite, Inside, files, channel, history, Steps
<1> QED
  BY <1>1, <1>2, <1>3, <1>4 DEF SInv

LEMMA LeaveProcessingInv == ASSUME SInv, LeaveProcessing PROVE SInv'
<1> USE DEF LeaveProcessing, Goto
<1>1. /\ RouteInv' /\ AppliedInv' /\ ExternalInv' /\ SlotInv' /\ LuaInv' /\ SuccessInv'
  BY RecordsKept DEF files, records, channel, native, history
<1>2. TypeOK' /\ UnknownInv'
  <2>1. UnknownInv' /\ queue' \in Seq(Ids)
    BY UnknownKept DEF SInv, files, records, channel, history
  <2> QED
    BY <2>1 DEF SInv, TypeOK, records, channel, native, history, PCs
<1>3. WorkerInv'
  BY DEF SInv, WorkerInv, RouteIn, KeyOf, IsWrite, Preparing, Inside, Flying, records, channel
<1>4. InsideInv'
  BY DEF SInv, InsideInv, IsWrite, Inside, channel, history
<1> QED
  BY <1>1, <1>2, <1>3, <1>4 DEF SInv

LEMMA ConcludeInv == ASSUME SInv, Conclude PROVE SInv'
<1> USE DEF Conclude, Goto, OutcomeKnown
<1>1. /\ RouteInv' /\ AppliedInv' /\ ExternalInv' /\ SlotInv' /\ LuaInv' /\ SuccessInv'
  BY RecordsKept DEF files, records, channel, native, history
<1>2. TypeOK' /\ UnknownInv'
  <2>1. UnknownInv' /\ queue' \in Seq(Ids)
    BY UnknownKept DEF SInv, files, records, channel, history
  <2>2. ledger' \in [Keys -> LedgerPhases]
    BY DEF SInv, TypeOK, LedgerPhases, IsWrite, Key
  <2> QED
    BY <2>1, <2>2 DEF SInv, TypeOK, files, channel, native, history, PCs
<1>3. WorkerInv'
  BY DEF SInv, WorkerInv, RouteIn, KeyOf, IsWrite, Preparing, Inside, Flying, files, channel
<1>4. InsideInv'
  BY DEF SInv, InsideInv, Inside, files, channel, history
<1> QED
  BY <1>1, <1>2, <1>3, <1>4 DEF SInv

LEMMA EndsInv == ASSUME SInv, ExternalExits \/ DispatchFails PROVE SInv'
<1> USE DEF ExternalExits, DispatchFails, Goto, OutcomeKnown
<1>1. /\ RouteInv' /\ AppliedInv' /\ ExternalInv' /\ SlotInv' /\ LuaInv' /\ SuccessInv'
  BY RecordsKept DEF files, records, channel, native, history
<1>2. TypeOK' /\ UnknownInv'
  <2>1. UnknownInv' /\ queue' \in Seq(Ids)
    BY UnknownKept DEF SInv, files, records, channel, history
  <2> QED
    BY <2>1 DEF SInv, TypeOK, files, records, channel, native, history, PCs
<1>3. WorkerInv'
  BY DEF SInv, WorkerInv, ExternalInv, RouteIn, KeyOf, IsWrite, Preparing, Inside, Flying,
      files, records, channel
<1>4. InsideInv'
  BY DEF SInv, WorkerInv, InsideInv, ExternalInv, Inside, files, channel, history
<1> QED
  BY <1>1, <1>2, <1>3, <1>4 DEF SInv

LEMMA ClearGuardInv == ASSUME SInv, ClearGuard PROVE SInv'
<1> USE DEF ClearGuard, Goto
<1>1. /\ RouteInv' /\ AppliedInv' /\ ExternalInv' /\ SlotInv' /\ LuaInv' /\ SuccessInv'
  BY RecordsKept DEF files, records, channel, native, history
<1>2. TypeOK' /\ UnknownInv'
  <2>1. UnknownInv' /\ queue' \in Seq(Ids)
    BY UnknownKept DEF SInv, files, records, channel, history
  <2> QED
    BY <2>1 DEF SInv, TypeOK, files, records, native, history, PCs
<1>3. WorkerInv'
  BY DEF WorkerInv, Preparing, Inside, Flying
<1>4. InsideInv'
  BY DEF InsideInv, Inside
<1> QED
  BY <1>1, <1>2, <1>3, <1>4 DEF SInv

LEMMA MoveToFailedInv == ASSUME SInv, MoveToFailed PROVE SInv'
<1> USE DEF MoveToFailed, Goto
<1>1. /\ RouteInv' /\ AppliedInv' /\ ExternalInv' /\ SlotInv' /\ LuaInv' /\ SuccessInv'
  BY RecordsKept DEF files, records, channel, native, history
<1>2. TypeOK' /\ UnknownInv'
  <2>1. UnknownInv' /\ queue' \in Seq(Ids)
    BY UnknownKept DEF SInv, WorkerInv, TypeOK, files, records, channel, history
  <2> QED
    BY <2>1 DEF SInv, TypeOK, records, channel, native, history, PCs
<1>3. WorkerInv'
  BY DEF WorkerInv, Preparing, Inside, Flying
<1>4. InsideInv'
  BY DEF InsideInv, Inside
<1> QED
  BY <1>1, <1>2, <1>3, <1>4 DEF SInv

-----------------------------------------------------------------------------
(* The worker: responses and routes *)

LEMMA ReplayInv == ASSUME SInv, Replay PROVE SInv'
<1> USE DEF Replay, Goto
<1>1. current \in Ids /\ command[current] # NoCommand /\ Key \in Keys
  BY DEF SInv, WorkerInv, Key, IsWrite
<1> DEFINE status == routes[Key].answer
<1>2. status \in {"success", "error"}
  <2>1. routes[Key] \in Route \cup {NoRoute} /\ routes[Key].phase = "completed"
    BY <1>1 DEF SInv, TypeOK
  <2> QED
    BY <2>1 DEF Route, NoRoute
<1>3. IsWrite(current) /\ status = "success" =>
          \E other \in Ids : command[other] = command[current] /\ applied[other] = 1
  <2> SUFFICES ASSUME status = "success"
               PROVE  \E other \in Ids :
                         command[other] = command[current] /\ applied[other] = 1
    OBVIOUS
  <2>1. routes[Key] \in Route /\ routes[Key].by \in Ids
    BY <1>1 DEF SInv, TypeOK, Route, NoRoute
  <2>2. /\ applied[routes[Key].by] = 1
        /\ command[routes[Key].by] = [key |-> Key, args |-> routes[Key].args]
    BY <1>1 DEF SInv, RouteInv
  <2>3. command[current] = [key |-> Key, args |-> command[current].args]
    BY <1>1 DEF SInv, TypeOK, Commands, Key
  <2> QED
    BY <2>1, <2>2, <2>3
<1> HIDE DEF status
<1>4. Respond(current, status)
  BY DEF status
<1>5. /\ RouteInv' /\ AppliedInv' /\ SlotInv' /\ LuaInv' /\ ExternalInv' /\ SuccessInv'
      /\ UnknownInv' /\ queue' \in Seq(Ids)
      /\ response' \in [Ids -> {"none", "success", "error"}]
  BY <1>1, <1>2, <1>3, <1>4, Responded DEF records, channel, history
<1>6. TypeOK'
  BY <1>5 DEF SInv, TypeOK, PCs, records, channel, native, history
<1>7. WorkerInv' /\ InsideInv'
  BY DEF WorkerInv, InsideInv, Preparing, Inside, Flying
<1> QED
  BY <1>5, <1>6, <1>7 DEF SInv

LEMMA PublishGuardInv == ASSUME SInv, PublishGuard PROVE SInv'
<1> USE DEF PublishGuard, Goto, records, native, history
<1>1. current \in Ids /\ command[current] # NoCommand /\ IsWrite(current)
  BY DEF SInv, WorkerInv, Preparing
<1>2. CASE UNCHANGED <<queue, response>>
  <2>1. /\ RouteInv' /\ AppliedInv' /\ ExternalInv' /\ SlotInv' /\ LuaInv' /\ SuccessInv'
    BY <1>2, RecordsKept
  <2>2. TypeOK'
    BY <1>1, <1>2 DEF SInv, TypeOK, PCs
  <2>3. UnknownInv'
    BY <1>2, UnknownKept
  <2>4. WorkerInv' /\ InsideInv'
    BY <1>1, <1>2 DEF SInv, WorkerInv, InsideInv, Preparing, Inside, Flying, IsWrite, RouteIn,
        KeyOf
  <2> QED
    BY <2>1, <2>2, <2>3, <2>4 DEF SInv
<1>3. CASE Respond(current, "error")
  <2>1. /\ RouteInv' /\ AppliedInv' /\ SlotInv' /\ LuaInv' /\ ExternalInv' /\ SuccessInv'
        /\ UnknownInv' /\ queue' \in Seq(Ids)
        /\ response' \in [Ids -> {"none", "success", "error"}]
    BY <1>1, <1>3, Responded
  <2>2. TypeOK'
    BY <2>1, <1>1 DEF SInv, TypeOK, PCs
  <2>3. WorkerInv' /\ InsideInv'
    BY <1>1 DEF SInv, WorkerInv, InsideInv, Preparing, Inside, Flying, IsWrite, RouteIn, KeyOf
  <2> QED
    BY <2>1, <2>2, <2>3 DEF SInv
<1> QED
  BY <1>2, <1>3

LEMMA AnswerInv == ASSUME SInv, Answer PROVE SInv'
<1> USE DEF Answer, Goto, records, channel, history
<1>1. PICK status \in {"success", "error"} :
          /\ Respond(current, status)
          /\ IF status = "success" THEN pc = "executed" ELSE pc = "refusing"
  OBVIOUS
<1>2. current \in Ids /\ command[current] # NoCommand
  BY DEF SInv, WorkerInv
<1>3. IsWrite(current) /\ status = "success" => applied[current] = 1
  BY <1>1 DEF SInv, InsideInv
<1>4. /\ RouteInv' /\ AppliedInv' /\ SlotInv' /\ LuaInv' /\ ExternalInv' /\ SuccessInv'
      /\ UnknownInv' /\ queue' \in Seq(Ids)
      /\ response' \in [Ids -> {"none", "success", "error"}] /\ response'[current] = status
  BY <1>1, <1>2, <1>3, Responded
<1>5. TypeOK'
  BY <1>4 DEF SInv, TypeOK, PCs, native
<1>6. WorkerInv'
  BY <1>4 DEF SInv, WorkerInv, Preparing, Flying, Inside, IsWrite, RouteIn, KeyOf
<1>7. InsideInv'
  BY <1>1, <1>4 DEF SInv, InsideInv, Inside, IsWrite
<1> QED
  BY <1>4, <1>5, <1>6, <1>7 DEF SInv

LEMMA ReportFailureInv == ASSUME SInv, ReportFailure PROVE SInv'
<1> USE DEF ReportFailure, Goto, records, channel, history
<1>1. current \in Ids /\ command[current] # NoCommand
  BY DEF SInv, WorkerInv
<1>2. TypeOK' /\ UnknownInv' /\ RouteInv' /\ AppliedInv' /\ ExternalInv' /\ SlotInv'
      /\ LuaInv' /\ SuccessInv'
  <2>1. CASE Respond(current, "error")
    <3>1. /\ RouteInv' /\ AppliedInv' /\ SlotInv' /\ LuaInv' /\ ExternalInv' /\ SuccessInv'
          /\ UnknownInv' /\ queue' \in Seq(Ids)
          /\ response' \in [Ids -> {"none", "success", "error"}]
      BY <1>1, <2>1, Responded
    <3> QED
      BY <3>1 DEF SInv, TypeOK, PCs, native
  <2>2. CASE UNCHANGED response
    <3>1. /\ RouteInv' /\ AppliedInv' /\ ExternalInv' /\ SlotInv' /\ LuaInv' /\ SuccessInv'
      BY <2>2, RecordsKept
    <3>2. UnknownInv'
      BY <2>2, UnknownKept
    <3> QED
      BY <2>2, <3>1, <3>2 DEF SInv, TypeOK, PCs, native
  <2> QED
    BY <2>1, <2>2
<1>3. WorkerInv' /\ InsideInv'
  BY <1>1 DEF SInv, WorkerInv, InsideInv, Preparing, Inside, Flying
<1> QED
  BY <1>2, <1>3 DEF SInv

\* The routes of the other keys stay; that of the current write gets another phase.
LEMMA RouteSet ==
  ASSUME SInv, IsWrite(current), current \in Ids, routes[Key].phase # "absent",
         NEW phase \in Open \cup {"completed"}, NEW answer \in {"none", "success", "error"},
         answer = "none" <=> phase # "completed", SetRoute(phase, answer)
  PROVE  /\ routes' \in [Keys -> Route \cup {NoRoute}]
         /\ routes'[Key].by = routes[Key].by /\ routes'[Key].args = routes[Key].args
         /\ routes'[Key].phase = phase /\ routes'[Key].answer = answer
         /\ \A k \in Keys : k # Key => routes'[k] = routes[k]
<1>1. Key \in Keys /\ routes \in [Keys -> Route \cup {NoRoute}]
  BY DEF Key, IsWrite, SInv, TypeOK
<1>2. routes[Key] \in Route
  BY <1>1 DEF NoRoute
<1>3. /\ DOMAIN routes' = Keys /\ \A k \in Keys : k # Key => routes'[k] = routes[k]
      /\ routes'[Key].by = routes[Key].by /\ routes'[Key].args = routes[Key].args
      /\ routes'[Key].phase = phase /\ routes'[Key].answer = answer
      /\ routes'[Key] \in [phase : {phase}, by : Ids, args : Arguments, answer : {answer}]
  BY <1>1, <1>2 DEF SetRoute, Route
<1>4. routes'[Key] \in Route
  BY <1>3 DEF Route, Open
<1>5. routes' = [k \in Keys |-> routes'[k]]
  BY <1>1 DEF SetRoute
<1>6. \A k \in Keys : routes'[k] \in Route \cup {NoRoute}
  BY <1>1, <1>3, <1>4
<1>7. routes' \in [Keys -> Route \cup {NoRoute}]
  BY <1>5, <1>6
<1> QED
  BY <1>3, <1>7

LEMMA PrepareRouteInv == ASSUME SInv, PrepareRoute PROVE SInv'
<1> USE DEF PrepareRoute, files, channel, native, history
<1> DEFINE new == [phase |-> "prepared", by |-> current, args |-> command[current].args,
                   answer |-> "none"]
<1>1. /\ current \in Ids /\ command[current] # NoCommand /\ Key \in Keys
      /\ KeyOf(current) = Key /\ command[current].args \in Arguments
      /\ command[current] = [key |-> Key, args |-> command[current].args]
  BY NoneAssumption
     DEF SInv, WorkerInv, Key, KeyOf, IsWrite, TypeOK, Commands, NoCommand
<1>2. /\ routes' = [routes EXCEPT ![Key] = new] /\ new \in Route
      /\ routes \in [Keys -> Route \cup {NoRoute}]
  BY <1>1 DEF SInv, TypeOK, Route
<1>3. /\ routes' \in [Keys -> Route \cup {NoRoute}] /\ routes'[Key] = new
      /\ \A k \in Keys : k # Key => routes'[k] = routes[k]
  BY <1>1, <1>2
<1>4. TypeOK'
  BY <1>3 DEF SInv, TypeOK, PCs
<1>5. UnknownInv'
  BY UnknownKept
<1>6. RouteInv'
  <2>1. \A k \in Keys : routes'[k].phase \in Open => k = Key
    BY <1>3 DEF SInv, WorkerInv, AllRoutesSettled, Open
  <2> QED
    BY <1>1, <1>3, <2>1 DEF SInv, RouteInv
<1>7. \A id \in Ids, phases \in SUBSET (Dispatched \cup {"completed"}) :
          IsWrite(id) /\ RouteIn(id, phases) => RouteIn(id, phases)'
  BY <1>3 DEF RouteIn, IsWrite, KeyOf, Dispatched
<1>8. AppliedInv'
  BY <1>7 DEF SInv, AppliedInv, IsWrite
<1>9. ExternalInv'
  BY <1>7 DEF SInv, ExternalInv, IsWrite
<1>10. SlotInv' /\ LuaInv' /\ SuccessInv'
  BY <1>7 DEF SInv, SlotInv, LuaInv, SuccessInv, IsWrite
<1>11. WorkerInv' /\ InsideInv'
  BY <1>1, <1>3 DEF SInv, WorkerInv, InsideInv, Inside, Flying, RouteIn, KeyOf, IsWrite
<1> QED
  BY <1>4, <1>5, <1>6, <1>8, <1>9, <1>10, <1>11 DEF SInv

\* The current write's route moves on; to be completed it needs an outcome that
\* stays true.
LEMMA RouteMoves ==
  ASSUME SInv, IsWrite(current), current \in Ids, RouteIn(current, Open),
         NEW phase \in Dispatched \cup {"completed"}, NEW answer \in {"none", "success", "error"},
         answer = "none" <=> phase # "completed", SetRoute(phase, answer),
         UNCHANGED <<current, command, response, slot, native, sent, backups, bare, applied>>,
         external' \in [Ids -> ExternalStates],
         \A id \in Ids \ {current} : external'[id] = external[id],
         \/ external'[current] = external[current]
         \/ /\ external'[current] = "launched" /\ phase = "dispatch_started"
            /\ slot.call.op # current /\ applied[current] = 0,
         phase = "completed" =>
             /\ slot.call.op # current /\ external'[current] \in {"none", "exited"}
             /\ answer = "success" => applied[current] = 1
             /\ answer = "error" => current \notin sent
  PROVE  /\ RouteInv' /\ AppliedInv' /\ ExternalInv' /\ SlotInv' /\ LuaInv' /\ SuccessInv'
         /\ routes' \in [Keys -> Route \cup {NoRoute}]
         /\ routes'[Key].by = current /\ routes'[Key].phase = phase
<1>1. /\ Key \in Keys /\ KeyOf(current) = Key /\ routes[Key].phase \in Open
      /\ routes[Key].by = current
  BY DEF Key, KeyOf, IsWrite, RouteIn
<1>2. /\ routes' \in [Keys -> Route \cup {NoRoute}]
      /\ routes'[Key].by = current /\ routes'[Key].args = routes[Key].args
      /\ routes'[Key].phase = phase /\ routes'[Key].answer = answer
      /\ \A k \in Keys : k # Key => routes'[k] = routes[k]
  BY <1>1, RouteSet DEF Open, Dispatched
<1>3. \A id \in Ids : IsWrite(id)' = IsWrite(id) /\ KeyOf(id)' = KeyOf(id)
  BY DEF IsWrite, KeyOf
<1>4. \A id \in Ids : IsWrite(id) /\ RouteIn(id, Dispatched \cup {"completed"}) =>
          RouteIn(id, Dispatched \cup {"completed"})'
  BY <1>1, <1>2, <1>3 DEF RouteIn, IsWrite, KeyOf
<1>5. \A id \in Ids \ {current} : IsWrite(id) /\ RouteIn(id, Dispatched) =>
          RouteIn(id, Dispatched)'
  BY <1>1, <1>2, <1>3 DEF RouteIn, IsWrite, KeyOf
<1>6. RouteInv'
  <2>1. \A k \in Keys : routes'[k].phase \in Open => k = Key
    BY <1>1, <1>2 DEF SInv, RouteInv
  <2>2. \A k \in Keys : k # Key /\ routes[k].phase = "completed" => routes[k].by # current
    <3> SUFFICES ASSUME NEW k \in Keys, k # Key, routes[k].phase = "completed"
                 PROVE  routes[k].by # current
      OBVIOUS
    <3>1. command[routes[k].by] = [key |-> k, args |-> routes[k].args]
      BY DEF SInv, RouteInv
    <3>2. command[routes[k].by].key = k
      BY <3>1
    <3> QED
      BY <1>1, <3>2 DEF KeyOf
  <2>3. \A k \in Keys : routes[k].phase = "completed" => routes[k].by \in Ids
    <3> SUFFICES ASSUME NEW k \in Keys, routes[k].phase = "completed" PROVE routes[k].by \in Ids
      OBVIOUS
    <3>1. routes[k] \in Route
      BY DEF SInv, TypeOK, NoRoute
    <3> QED
      BY <3>1 DEF Route
  <2> QED
    BY <1>1, <1>2, <2>1, <2>2, <2>3 DEF SInv, RouteInv, Open, Dispatched
<1>7. AppliedInv'
  BY <1>3, <1>4 DEF SInv, AppliedInv
<1>8. ExternalInv'
  <2>1. RouteIn(current, Dispatched \cup {"completed"})'
    BY <1>1, <1>2, <1>3 DEF RouteIn
  <2>2. ASSUME NEW id \in Ids, id # current PROVE external'[id] = external[id]
    BY <2>2
  <2> QED
    BY <1>3, <1>4, <2>1, <2>2 DEF SInv, ExternalInv
<1>9. SlotInv'
  <2>1. phase # "completed" => RouteIn(current, Dispatched)'
    BY <1>1, <1>2, <1>3 DEF RouteIn
  <2> QED
    BY <1>3, <1>5, <2>1 DEF SInv, SlotInv, native
<1>10. LuaInv' /\ SuccessInv'
  BY <1>3 DEF SInv, LuaInv, SuccessInv, native
<1> QED
  BY <1>1, <1>2, <1>3, <1>6, <1>7, <1>8, <1>9, <1>10 DEF RouteIn, Dispatched

LEMMA SettleUndispatchedInv == ASSUME SInv, SettleUndispatched PROVE SInv'
<1> USE DEF SettleUndispatched, Goto, files, channel, history
<1>1. /\ current \in Ids /\ command[current] # NoCommand /\ IsWrite(current)
      /\ RouteIn(current, {"prepared"}) /\ RouteIn(current, Open)
  BY DEF SInv, WorkerInv, Preparing, RouteIn, Open
<1>2. slot.call.op # current /\ external[current] = "none" /\ current \notin sent
  BY <1>1, NoneAssumption
     DEF SInv, SlotInv, ExternalInv, AppliedInv, RouteIn, Dispatched, NoCall
<1>3. /\ RouteInv' /\ AppliedInv' /\ ExternalInv' /\ SlotInv' /\ LuaInv' /\ SuccessInv'
      /\ routes' \in [Keys -> Route \cup {NoRoute}]
  BY <1>1, <1>2, RouteMoves DEF SInv, TypeOK
<1>4. TypeOK' /\ UnknownInv'
  BY <1>3, UnknownKept DEF SInv, TypeOK, PCs, native
<1>5. WorkerInv' /\ InsideInv'
  BY DEF WorkerInv, InsideInv, Preparing, Inside, Flying
<1> QED
  BY <1>3, <1>4, <1>5 DEF SInv

LEMMA DispatchInv == ASSUME SInv, Dispatch PROVE SInv'
<1> USE DEF Dispatch, Goto, files, channel, history
<1>1. /\ current \in Ids /\ command[current] # NoCommand /\ IsWrite(current)
      /\ RouteIn(current, {"prepared"}) /\ RouteIn(current, Open) /\ guard = current
  BY DEF SInv, WorkerInv, Preparing, RouteIn, Open
<1>2. /\ slot.call.op # current /\ external[current] = "none" /\ current \notin sent
      /\ applied[current] = 0
  BY <1>1, NoneAssumption
     DEF SInv, SlotInv, ExternalInv, AppliedInv, RouteIn, Dispatched, NoCall
<1>3. /\ external' \in [Ids -> ExternalStates] /\ external'[current] \in {"none", "launched"}
      /\ via # "external" => external'[current] = "none"
      /\ \A id \in Ids \ {current} : external'[id] = external[id]
  BY <1>1, <1>2 DEF SInv, TypeOK, Launch, ExternalStates
<1>4. /\ RouteInv' /\ AppliedInv' /\ ExternalInv' /\ SlotInv' /\ LuaInv' /\ SuccessInv'
      /\ routes' \in [Keys -> Route \cup {NoRoute}]
      /\ routes'[Key].by = current /\ routes'[Key].phase = "dispatch_started"
  BY <1>1, <1>2, <1>3, RouteMoves DEF Dispatched
<1>5. TypeOK'
  BY <1>3, <1>4 DEF SInv, TypeOK, PCs, native
<1>6. UnknownInv'
  BY <1>1, <1>3 DEF SInv, UnknownInv
<1>7. WorkerInv'
  BY <1>1, <1>4 DEF WorkerInv, Preparing, RouteIn, KeyOf, Key, IsWrite
<1>8. InsideInv'
  BY <1>2, <1>3 DEF InsideInv, Inside, IsWrite
<1> QED
  BY <1>4, <1>5, <1>6, <1>7, <1>8 DEF SInv

\* The outcome in the response is one of the write itself: what was carried out for
\* the key, was carried out for the command of its route.
LEMMA SettleRouteInv == ASSUME SInv, SettleRoute PROVE SInv'
<1> USE DEF SettleRoute, Goto, files, channel, history
<1>1. /\ current \in Ids /\ command[current] # NoCommand /\ IsWrite(current)
      /\ RouteIn(current, {"dispatch_started"}) /\ RouteIn(current, Open) /\ guard = current
      /\ response[current] # "none"
  BY DEF SInv, WorkerInv, Flying, RouteIn, Open
<1>2. /\ slot.call.op # current /\ external[current] \in {"none", "exited"}
      /\ response[current] = "success" \/ current \notin sent
  BY DEF SInv, InsideInv
<1>3. response[current] = "success" => applied[current] = 1
  <2> SUFFICES ASSUME response[current] = "success" PROVE applied[current] = 1
    OBVIOUS
  <2>1. PICK other \in Ids : command[other] = command[current] /\ applied[other] = 1
    BY <1>1 DEF SInv, SuccessInv
  <2>2. routes[KeyOf(other)].by = other /\ KeyOf(other) = KeyOf(current)
    BY <2>1 DEF SInv, AppliedInv, RouteIn, KeyOf
  <2> QED
    BY <1>1, <2>1, <2>2 DEF RouteIn
<1>4. response[current] \in {"success", "error"}
  BY <1>1 DEF SInv, TypeOK
<1>5. CASE SetRoute("completed", response[current]) /\ pc' = "settled"
  <2>1. /\ RouteInv' /\ AppliedInv' /\ ExternalInv' /\ SlotInv' /\ LuaInv' /\ SuccessInv'
        /\ routes' \in [Keys -> Route \cup {NoRoute}]
        /\ routes'[Key].by = current /\ routes'[Key].phase = "completed"
    BY <1>1, <1>2, <1>3, <1>4, <1>5, RouteMoves DEF SInv, TypeOK
  <2>2. TypeOK' /\ UnknownInv'
    BY <1>5, <2>1, UnknownKept DEF SInv, TypeOK, PCs, native
  <2>3. WorkerInv'
    BY <1>1, <1>5, <2>1 DEF WorkerInv, Preparing, Inside, Flying, RouteIn, KeyOf, Key, IsWrite
  <2>4. InsideInv'
    BY <1>5 DEF InsideInv, Inside
  <2> QED
    BY <2>1, <2>2, <2>3, <2>4 DEF SInv
<1>6. CASE UNCHANGED routes /\ pc' = "failing"
  <2>1. /\ RouteInv' /\ AppliedInv' /\ ExternalInv' /\ SlotInv' /\ LuaInv' /\ SuccessInv'
    BY <1>6, RecordsKept
  <2>2. TypeOK' /\ UnknownInv'
    BY <1>6, UnknownKept DEF SInv, TypeOK, PCs, native
  <2>3. WorkerInv' /\ InsideInv'
    BY <1>1, <1>6 DEF WorkerInv, InsideInv, Preparing, Inside, Flying
  <2> QED
    BY <2>1, <2>2, <2>3 DEF SInv
<1> QED
  BY <1>5, <1>6

LEMMA RaiseInv == ASSUME SInv, Raise PROVE SInv'
<1> USE DEF Raise, Goto, files, channel, history
<1>1. current \in Ids /\ command[current] # NoCommand
  BY DEF SInv, WorkerInv
<1>2. ledger' \in [Keys -> LedgerPhases]
  <2>1. CASE ledger' = ledger
    BY <2>1 DEF SInv, TypeOK
  <2>2. CASE IsWrite(current) /\ ledger' = [ledger EXCEPT ![Key] = Doubted(@)]
    <3>1. Key \in Keys /\ ledger \in [Keys -> LedgerPhases]
      BY <2>2 DEF SInv, TypeOK, Key, IsWrite
    <3>2. Doubted(ledger[Key]) \in LedgerPhases
      BY <3>1 DEF Doubted, LedgerPhases
    <3> QED
      BY <2>2, <3>1, <3>2
  <2> QED
    BY <2>1, <2>2 DEF records
<1>3. CASE IsWrite(current) /\ SetRoute("uncertain", "none")
  <2>1. RouteIn(current, Open)
    BY <1>3 DEF SInv, WorkerInv, Flying, RouteIn, Open
  <2>2. /\ RouteInv' /\ AppliedInv' /\ ExternalInv' /\ SlotInv' /\ LuaInv' /\ SuccessInv'
        /\ routes' \in [Keys -> Route \cup {NoRoute}]
    BY <1>1, <1>3, <2>1, RouteMoves DEF SInv, TypeOK, Dispatched
  <2>3. TypeOK' /\ UnknownInv'
    BY <1>2, <2>2, UnknownKept DEF SInv, TypeOK, PCs, native
  <2>4. WorkerInv' /\ InsideInv'
    BY <1>1 DEF WorkerInv, InsideInv, Preparing, Inside, Flying
  <2> QED
    BY <2>2, <2>3, <2>4 DEF SInv
<1>4. CASE UNCHANGED routes
  <2>1. /\ RouteInv' /\ AppliedInv' /\ ExternalInv' /\ SlotInv' /\ LuaInv' /\ SuccessInv'
    BY <1>4, RecordsKept
  <2>2. TypeOK' /\ UnknownInv'
    BY <1>2, <1>4, UnknownKept DEF SInv, TypeOK, PCs, native
  <2>3. WorkerInv' /\ InsideInv'
    BY <1>1 DEF WorkerInv, InsideInv, Preparing, Inside, Flying
  <2> QED
    BY <2>1, <2>2, <2>3 DEF SInv
<1> QED
  BY <1>3, <1>4 DEF records

\* A read in an external process changes nothing that a write is known by.
LEMMA DispatchReadInv == ASSUME SInv, DispatchRead PROVE SInv'
<1> USE DEF DispatchRead, files, records, channel, native, history
<1>1. current \in Ids /\ command[current] # NoCommand /\ ~IsWrite(current)
  BY DEF SInv, WorkerInv
<1>2. /\ external' \in [Ids -> ExternalStates]
      /\ \A id \in Ids \ {current} : external'[id] = external[id]
      /\ external'[current] \in {external[current], "launched"}
      /\ applied[current] = 0
  BY <1>1 DEF SInv, TypeOK, ExternalStates, AppliedInv
<1>3. TypeOK' /\ UnknownInv'
  BY <1>1, <1>2 DEF SInv, TypeOK, UnknownInv, PCs
<1>4. RouteInv'
  <2>1. ASSUME NEW k \in Keys, routes[k].phase = "completed"
       PROVE  external'[routes[k].by] = external[routes[k].by]
    <3>1. command[routes[k].by] = [key |-> k, args |-> routes[k].args]
      BY <2>1 DEF SInv, RouteInv
    <3>2. routes[k].by # current
      BY <1>1, <3>1 DEF IsWrite
    <3>3. routes[k] \in Route
      BY <2>1 DEF SInv, TypeOK, NoRoute
    <3>4. routes[k].by \in Ids
      BY <3>3 DEF Route
    <3> QED
      BY <1>2, <3>2, <3>4
  <2> QED
    BY <2>1 DEF SInv, RouteInv
<1>5. AppliedInv' /\ SlotInv' /\ LuaInv' /\ SuccessInv'
  BY DEF SInv, AppliedInv, SlotInv, LuaInv, SuccessInv, RouteIn, KeyOf, IsWrite
<1>6. ExternalInv'
  BY <1>1, <1>2 DEF SInv, ExternalInv, RouteIn, KeyOf, IsWrite
<1>7. WorkerInv' /\ InsideInv'
  BY <1>1 DEF SInv, WorkerInv, InsideInv, Preparing, Inside, Flying, IsWrite
<1> QED
  BY <1>3, <1>4, <1>5, <1>6, <1>7 DEF SInv

-----------------------------------------------------------------------------
(* The slot *)

\* No outcome that was final is called into question by what is sent now.
LEMMA Sending ==
  ASSUME SInv, pc \in {"calling", "awaiting"}, sent' = Counted,
          UNCHANGED <<current, routes, command, external, applied>>
  PROVE  /\ current \in Ids /\ sent' \subseteq Ids /\ sent \subseteq sent'
         /\ step \in Mutating => current \in sent'
         /\ \A id \in Ids : id \in sent' => id \in sent \/ (id = current /\ IsWrite(current))
         /\ command[current] # NoCommand
         /\ RouteInv'
         /\ IsWrite(current) => RouteIn(current, {"dispatch_started"})
<1>1. /\ current \in Ids /\ command[current] # NoCommand
      /\ IsWrite(current) => RouteIn(current, {"dispatch_started"})
      /\ ~IsWrite(current) => step \notin Mutating
  BY DEF SInv, WorkerInv, InsideInv, Flying, Inside, Mutating
<1>2. /\ sent' \subseteq Ids /\ sent \subseteq sent'
      /\ step \in Mutating => current \in sent'
      /\ \A id \in Ids : id \in sent' => id \in sent \/ (id = current /\ IsWrite(current))
  BY <1>1 DEF Counted, SInv, TypeOK
<1>3. ASSUME NEW k \in Keys, routes[k].phase = "completed", IsWrite(current)
      PROVE  routes[k].by # current
  <2>1. command[routes[k].by] = [key |-> k, args |-> routes[k].args]
    BY <1>3 DEF SInv, RouteInv
  <2> QED
    BY <1>1, <1>3, <2>1 DEF RouteIn, KeyOf
<1>4. RouteInv'
  <2>1. ASSUME NEW k \in Keys, routes[k].phase = "completed" PROVE routes[k].by \in Ids
    BY <2>1, RouteNames DEF SInv
  <2> QED
    BY <1>2, <1>3, <2>1 DEF SInv, RouteInv
<1> QED
  BY <1>1, <1>2, <1>4

LEMMA PublishCallInv == ASSUME SInv, PublishCall PROVE SInv'
<1> USE DEF PublishCall, Goto, files, records, native
<1>1. /\ current \in Ids /\ sent' \subseteq Ids /\ sent \subseteq sent'
      /\ step \in Mutating => current \in sent'
      /\ \A id \in Ids : id \in sent' => id \in sent \/ (id = current /\ IsWrite(current))
      /\ command[current] # NoCommand
      /\ RouteInv'
      /\ IsWrite(current) => RouteIn(current, {"dispatch_started"})
  BY Sending
<1>2. /\ slot'.call = [op |-> current, step |-> step] /\ slot'.answer = "none"
      /\ slot' \in Slots
  BY <1>1 DEF SInv, TypeOK, Slots, Call
<1>3. IsWrite(current) => external[current] = "none"
  BY DEF SInv, InsideInv, Inside
<1>4. TypeOK'
  BY <1>1, <1>2 DEF SInv, TypeOK, PCs
<1>5. UnknownInv'
  BY <1>1, <1>2 DEF SInv, UnknownInv
<1>6. AppliedInv'
  BY <1>1 DEF SInv, AppliedInv, RouteIn, KeyOf, IsWrite, Dispatched
<1>7. ExternalInv'
  BY <1>1, <1>2, <1>3 DEF SInv, ExternalInv, RouteIn, KeyOf, IsWrite
<1>8. SlotInv'
  BY <1>1, <1>2 DEF SInv, SlotInv, InsideInv, RouteIn, KeyOf, IsWrite, Dispatched
<1>9. LuaInv' /\ SuccessInv'
  BY DEF SInv, LuaInv, SuccessInv, IsWrite
<1>10. WorkerInv'
  BY <1>1, <1>2 DEF SInv, WorkerInv, Preparing, Inside, Flying, RouteIn, KeyOf, IsWrite
<1>11. InsideInv'
  BY <1>1, <1>3 DEF SInv, InsideInv, Inside, IsWrite, Mutating, TypeOK, Steps
<1> QED
  BY <1>1, <1>4, <1>5, <1>6, <1>7, <1>8, <1>9, <1>10, <1>11 DEF SInv

LEMMA CallFailsInv == ASSUME SInv, CallFails PROVE SInv'
<1> USE DEF CallFails, Goto, files, records, channel, native
<1>1. /\ current \in Ids /\ sent' \subseteq Ids /\ sent \subseteq sent'
      /\ step \in Mutating => current \in sent'
      /\ \A id \in Ids : id \in sent' => id \in sent \/ (id = current /\ IsWrite(current))
      /\ command[current] # NoCommand
      /\ RouteInv'
      /\ IsWrite(current) => RouteIn(current, {"dispatch_started"})
  BY Sending
<1>2. TypeOK'
  BY <1>1 DEF SInv, TypeOK, PCs
<1>3. UnknownInv'
  BY <1>1 DEF SInv, UnknownInv
<1>4. AppliedInv'
  BY <1>1 DEF SInv, AppliedInv, RouteIn, KeyOf, IsWrite, Dispatched
<1>5. ExternalInv'
  BY <1>1 DEF SInv, ExternalInv, RouteIn, KeyOf, IsWrite
<1>6. SlotInv' /\ LuaInv' /\ SuccessInv'
  BY <1>1 DEF SInv, SlotInv, LuaInv, SuccessInv, RouteIn, KeyOf, IsWrite
<1>7. WorkerInv'
  BY <1>1 DEF SInv, WorkerInv, Preparing, Inside, Flying, RouteIn, KeyOf, IsWrite
<1>8. InsideInv'
  BY <1>1 DEF SInv, InsideInv, Inside, IsWrite, Mutating, TypeOK, Steps
<1> QED
  BY <1>1, <1>2, <1>3, <1>4, <1>5, <1>6, <1>7, <1>8 DEF SInv

\* The slot is empty, or another packet of the same call: nothing in it.
LEMMA SlotCleared ==
  ASSUME SInv, UNCHANGED <<response, command, routes, external, sent, backups, bare, applied,
                           queue>>,
         slot' = EmptySlot, UNCHANGED <<last, reply, scope, backup_ready>>
  PROVE  /\ UnknownInv' /\ RouteInv' /\ AppliedInv' /\ ExternalInv'
         /\ SlotInv' /\ LuaInv' /\ SuccessInv'
         /\ \A id \in Ids : slot'.call.op # id
<1> USE DEF IsWrite, KeyOf, RouteIn
<1>1. slot'.call = NoCall /\ \A id \in Ids : slot'.call.op # id
  BY NoneAssumption DEF EmptySlot, NoCall
<1>2. UnknownInv' /\ RouteInv'
  BY <1>1 DEF SInv, UnknownInv, RouteInv
<1>3. AppliedInv' /\ ExternalInv'
  BY <1>1 DEF SInv, AppliedInv, ExternalInv
<1>4. SlotInv' /\ LuaInv' /\ SuccessInv'
  BY <1>1 DEF SInv, SlotInv, LuaInv, SuccessInv
<1> QED
  BY <1>1, <1>2, <1>3, <1>4

LEMMA ReceiveReplyInv == ASSUME SInv, ReceiveReply PROVE SInv'
<1> USE DEF ReceiveReply, files, records, native, history
<1>1. current \in Ids /\ command[current] # NoCommand
  BY DEF SInv, WorkerInv
<1>2. /\ UnknownInv' /\ RouteInv' /\ AppliedInv' /\ ExternalInv'
      /\ SlotInv' /\ LuaInv' /\ SuccessInv'
      /\ slot'.call.op # current
  BY <1>1, SlotCleared
<1>3. pc' = "calling" =>
          /\ step \in {"root", "backup", "mutate"} /\ slot.answer = "ok"
          /\ step = "root" =>
                step' \in IF IsWrite(current) THEN {"backup", "mutate"} ELSE {"read"}
          /\ step = "backup" => step' = "mutate"
          /\ step = "mutate" => step' = "verify"
  <2>1. current \in Ids /\ step \in Steps /\ command[current] \in Commands
    BY <1>1 DEF SInv, TypeOK
  <2>2. Creation(current) => IsWrite(current)
    BY <2>1, NoneAssumption, CreationsAssumption DEF Commands, IsWrite
  <2>3. pc' = "calling" =>
          step' \in Following /\ step \in {"root", "backup", "mutate"} /\ slot.answer = "ok"
    BY <2>1 DEF Steps
  <2> HIDE DEF Creation, ReceiveReply
  <2> QED
    BY <2>2, <2>3 DEF Following
<1>4. \/ pc' = "calling"
      \/ pc' = "call_failed" /\ step' = step
      \/ pc' = "executed" /\ step' = step /\ slot.answer = "ok" /\ step \in {"read", "verify"}
  OBVIOUS
<1>5. TypeOK'
  BY <1>3, <1>4 DEF SInv, TypeOK, PCs, Steps
<1>6. WorkerInv'
  BY <1>1 DEF SInv, WorkerInv, Preparing, Inside, Flying, RouteIn, KeyOf, IsWrite
<1>7. slot.answer = "ok" /\ step = "mutate" /\ IsWrite(current) => applied[current] = 1
  BY <1>1, NoneAssumption DEF SInv, SlotInv, NoCall
<1>8. InsideInv'
  <2>1. /\ UNCHANGED <<current, command, external, response, sent, applied>>
        /\ pc = "awaiting"
    OBVIOUS
  <2> HIDE DEF ReceiveReply, Creation, Secured
  <2> QED
    BY <1>1, <1>2, <1>7, <1>3, <1>4, <2>1 DEF SInv, InsideInv, Inside, IsWrite
<1> QED
  BY <1>2, <1>5, <1>6, <1>8 DEF SInv

-----------------------------------------------------------------------------
(* The Lua loop *)

LEMMA PerformInv == ASSUME SInv, Perform PROVE SInv'
<1> USE DEF files, records, channel
<1> DEFINE op == slot.call.op
           ready == scope = op /\ backup_ready
<1>0. /\ lua = "up" /\ slot # EmptySlot /\ last # slot.call /\ last' = slot.call /\ scope' = op
      /\ UNCHANGED <<files, records, channel, worker, external, lua, claimed, sent>>
      /\ backup_ready' \in {ready, TRUE} /\ reply' \in {"ok", "error"}
  BY DEF Perform, NotPerformed
<1>1. /\ slot.call \in Call /\ slot.call # NoCall /\ op \in Ids
      /\ slot.call.step \in Steps /\ command[op] # NoCommand
  <2>1. slot \in Slots
    BY <1>0 DEF SInv, TypeOK
  <2>2. slot.call \in Call
    BY <2>1 DEF Slots
  <2> QED
    BY <2>2, NoneAssumption DEF Call, NoCall, SInv, UnknownInv
<1>2. /\ IsWrite(op) => RouteIn(op, Dispatched) /\ external[op] = "none"
      /\ slot.call.step = "mutate" => IsWrite(op) /\ applied[op] = 0 /\ op \in sent
      /\ slot.call.step = "backup" => IsWrite(op)
  BY <1>0, <1>1 DEF SInv, SlotInv, ExternalInv, Mutating
<1>3. \/ applied' = applied /\ (reply' = "ok" => slot.call.step # "mutate")
      \/ /\ slot.call.step = "mutate" /\ (ready \/ (op \in bare' /\ Creation(op)))
         /\ applied' = [applied EXCEPT ![op] = @ + 1]
  BY DEF Perform
<1>4. ready => op \in backups
  BY <1>1, NoneAssumption DEF SInv, LuaInv
<1>5. \/ applied' = applied /\ (reply' = "ok" => slot.call.step # "mutate")
      \/ /\ slot.call.step = "mutate" /\ IsWrite(op)
         /\ op \in backups \/ (op \in bare' /\ Creation(op))
         /\ applied' \in [Ids -> Nat] /\ applied'[op] = 1 /\ applied[op] = 0
         /\ \A id \in Ids \ {op} : applied'[id] = applied[id]
  <2> HIDE DEF ready, op
  <2>1. applied \in [Ids -> Nat]
    BY DEF SInv, TypeOK
  <2>2. CASE slot.call.step = "mutate" /\ (ready \/ (op \in bare' /\ Creation(op)))
             /\ applied' = [applied EXCEPT ![op] = @ + 1]
    BY <1>1, <1>2, <1>4, <2>1, <2>2
  <2> QED
    BY <1>3, <2>2
<1>6. \/ backups' = backups /\ backup_ready' = ready
      \/ backups' = backups \cup {op}
  BY DEF Perform
<1>7. /\ backups \subseteq backups' /\ backups' \subseteq Ids
      /\ bare \subseteq bare' /\ bare' \subseteq Ids
      /\ backup_ready' => op \in backups'
  <2>1. bare' = bare \/ bare' = bare \cup {op}
    BY DEF Perform
  <2> QED
    BY <1>1, <1>4, <1>6, <2>1 DEF SInv, TypeOK
<1>8. ready \in BOOLEAN
  BY DEF SInv, TypeOK
<1>9. backup_ready' \in BOOLEAN
  BY <1>0, <1>8
<1> HIDE DEF op, ready
<1> USE <1>0, <1>1
<1>10. TypeOK'
  <2>1. /\ queue' \in Seq(Ids) /\ processing' \subseteq Ids
        /\ response' \in [Ids -> {"none", "success", "error"}]
        /\ command' \in [Ids -> Commands \cup {NoCommand}]
        /\ routes' \in [Keys -> Route \cup {NoRoute}]
        /\ ledger' \in [Keys -> LedgerPhases]
        /\ guard' \in Ids \cup {None} /\ slot' \in Slots \cup {EmptySlot}
        /\ pc' \in PCs /\ current' \in Ids \cup {None}
        /\ via' \in {"lua", "external", "rivals"} /\ step' \in Steps
        /\ external' \in [Ids -> ExternalStates]
    BY DEF SInv, TypeOK, worker
  <2>2. /\ lua' \in {"up", "down"} /\ last' \in Call \cup {NoCall}
        /\ reply' \in {"none", "ok", "error"} /\ scope' \in Ids \cup {None}
        /\ claimed' \subseteq Ids /\ sent' \subseteq Ids
        /\ backups' \subseteq Ids /\ bare' \subseteq Ids
    BY <1>7 DEF SInv, TypeOK
  <2>3. applied' \in [Ids -> Nat]
    BY <1>5 DEF SInv, TypeOK
  <2> QED
    BY <1>9, <2>1, <2>2, <2>3 DEF TypeOK
<1>11. \A id \in Ids : IsWrite(id)' = IsWrite(id) /\ KeyOf(id)' = KeyOf(id)
  BY DEF IsWrite, KeyOf
<1>12. UnknownInv'
  BY <1>5 DEF SInv, UnknownInv, op
<1>13. RouteInv'
  <2>1. ASSUME NEW k \in Keys, routes[k].phase = "completed", routes[k].answer = "success"
        PROVE  applied'[routes[k].by] = 1
    <3>1. routes[k] \in Route \cup {NoRoute}
      BY DEF SInv, TypeOK
    <3>2. routes[k] \in Route
      BY <2>1, <3>1 DEF NoRoute
    <3>3. routes[k].by \in Ids /\ applied[routes[k].by] = 1
      BY <2>1, <3>2 DEF Route, SInv, RouteInv
    <3> QED
      BY <1>5, <3>3
  <2> QED
    BY <2>1 DEF SInv, RouteInv
<1>14. AppliedInv'
  BY <1>2, <1>5, <1>7, <1>11 DEF SInv, AppliedInv, RouteIn, KeyOf
<1>15. ExternalInv'
  BY <1>2, <1>5, <1>7, <1>11 DEF SInv, ExternalInv, RouteIn, KeyOf
<1>16. SlotInv'
  BY <1>5, <1>11 DEF SInv, SlotInv, RouteIn, KeyOf, op
<1>17. LuaInv'
  BY <1>5, <1>7 DEF LuaInv, op
<1>18. SuccessInv'
  BY <1>5, <1>11 DEF SInv, SuccessInv
<1>19. WorkerInv'
  BY <1>1 DEF SInv, WorkerInv, worker, AllRoutesSettled, IsWrite, RouteIn, KeyOf
<1>20. InsideInv'
  <2>1. applied' = applied => InsideInv'
    BY DEF SInv, InsideInv, worker, IsWrite
  <2>2. slot.call.step = "mutate" => (pc = "awaiting" => step = "mutate" /\ current = op)
    BY DEF SInv, WorkerInv, op
  <2>3. current \in Ids \/ pc \in {"down", "idle"}
    BY DEF SInv, WorkerInv
  <2> QED
    BY <1>2, <1>5, <2>1, <2>2, <2>3 DEF SInv, InsideInv, Inside, worker, IsWrite, op
<1> QED
  BY <1>10, <1>12, <1>13, <1>14, <1>15, <1>16, <1>17, <1>18, <1>19, <1>20 DEF SInv

LEMMA ExportReplyInv == ASSUME SInv, ExportReply PROVE SInv'
<1> USE DEF files, records, worker, native, history, IsWrite, KeyOf, RouteIn
<1>1. slot \in Slots /\ slot # EmptySlot
  BY DEF ExportReply, SInv, TypeOK
<1>2. slot' \in Slots /\ slot'.call = slot.call /\ slot'.answer = reply
  BY <1>1 DEF ExportReply, Slots, SInv, TypeOK
<1>3. /\ slot.call \in Call /\ slot.call # NoCall
      /\ last = slot.call
      /\ UNCHANGED <<files, records, guard, worker, external, native, history>>
  BY <1>1, NoneAssumption DEF ExportReply, Slots, Call, NoCall
<1> USE <1>2, <1>3
<1>4. TypeOK' /\ UnknownInv'
  BY DEF SInv, TypeOK, UnknownInv
<1>5. RouteInv' /\ AppliedInv' /\ ExternalInv'
  BY DEF SInv, RouteInv, AppliedInv, ExternalInv
<1>6. SlotInv'
  BY DEF SInv, SlotInv, LuaInv
<1>7. LuaInv' /\ SuccessInv'
  BY DEF SInv, LuaInv, SuccessInv
<1>8. WorkerInv'
  BY DEF SInv, WorkerInv, AllRoutesSettled
<1>9. InsideInv'
  BY DEF SInv, InsideInv
<1> QED
  BY <1>4, <1>5, <1>6, <1>7, <1>8, <1>9 DEF SInv

LEMMA ExpireInv == ASSUME SInv, Expire PROVE SInv'
<1> USE DEF files, records, worker, native, history, IsWrite, KeyOf, RouteIn
<1>1. slot \in Slots /\ slot # EmptySlot
  BY DEF Expire, SInv, TypeOK
<1>2. slot' \in Slots /\ slot'.call = slot.call /\ slot'.answer = slot.answer
  BY <1>1 DEF Expire, Slots, SInv, TypeOK
<1>3. /\ slot.call \in Call /\ slot.call # NoCall
      /\ UNCHANGED <<files, records, guard, worker, external, native, history>>
  BY <1>1, NoneAssumption DEF Expire, Slots, Call, NoCall
<1> USE <1>2, <1>3
<1>4. TypeOK' /\ UnknownInv'
  BY DEF SInv, TypeOK, UnknownInv
<1>5. RouteInv' /\ AppliedInv' /\ ExternalInv'
  BY DEF SInv, RouteInv, AppliedInv, ExternalInv
<1>6. SlotInv'
  BY DEF SInv, SlotInv, LuaInv
<1>7. LuaInv' /\ SuccessInv'
  BY DEF SInv, LuaInv, SuccessInv
<1>8. WorkerInv'
  BY DEF SInv, WorkerInv, AllRoutesSettled
<1>9. InsideInv'
  BY DEF SInv, InsideInv
<1> QED
  BY <1>4, <1>5, <1>6, <1>7, <1>8, <1>9 DEF SInv

\* What the loop knew is gone, and with it what it could have answered.
LEMMA NativeCrashInv == ASSUME SInv, NativeCrash PROVE SInv'
<1> USE DEF NativeCrash, files, records, channel, worker, history, IsWrite, KeyOf, RouteIn
<1>1. TypeOK' /\ UnknownInv'
  BY DEF SInv, TypeOK, UnknownInv
<1>2. RouteInv' /\ AppliedInv' /\ ExternalInv'
  BY DEF SInv, RouteInv, AppliedInv, ExternalInv
<1>3. SlotInv' /\ LuaInv' /\ SuccessInv'
  BY DEF SInv, SlotInv, LuaInv, SuccessInv
<1>4. WorkerInv'
  BY DEF SInv, WorkerInv, AllRoutesSettled
<1>5. InsideInv'
  BY DEF SInv, InsideInv
<1> QED
  BY <1>1, <1>2, <1>3, <1>4, <1>5 DEF SInv

LEMMA NewGenerationInv == ASSUME SInv, NewGeneration PROVE SInv'
<1> USE DEF NewGeneration, files, records, worker, history
<1>1. /\ UnknownInv' /\ RouteInv' /\ AppliedInv' /\ ExternalInv' /\ SlotInv' /\ LuaInv'
      /\ SuccessInv'
  BY SlotCleared
<1>2. TypeOK'
  BY DEF SInv, TypeOK
<1>3. WorkerInv' /\ InsideInv'
  BY DEF SInv, WorkerInv, InsideInv, Preparing, Inside, Flying
<1> QED
  BY <1>1, <1>2, <1>3 DEF SInv

-----------------------------------------------------------------------------
(* The external processes and the clients *)

\* An external process that runs moves on.  The worker is waiting for it or is
\* occupied elsewhere, and the route of its write is not completed before it has
\* exited.
LEMMA ExternalMoves ==
  ASSUME SInv, NEW id \in Ids, NEW label \in ExternalStates \ {"none"}, External(id, label),
         external[id] \notin {"none", "exited"},
         UNCHANGED <<command, records, channel, worker, native>>,
         queue' = queue \/ queue' = Without(id), processing' \subseteq Ids, claimed' \subseteq Ids,
         response' \in [Ids -> {"none", "success", "error"}],
         \A other \in Ids \ {id} : response'[other] = response[other],
         response'[id] = "none" => response[id] = "none",
         IsWrite(id) /\ response'[id] = "success" =>
             response[id] = "success" \/ applied[id] = 1,
         sent' = sent \/ (IsWrite(id) /\ sent' = sent \cup {id}),
         backups' = backups \/ backups' = backups \cup {id},
         bare' = bare \/ bare' = bare \cup {id},
         \/ applied' = applied
         \/ /\ external[id] = "backed_up" /\ id \in sent'
            /\ applied' = [applied EXCEPT ![id] = 1],
         label \in {"launched", "unbound", "claimed", "backed_up"} => applied'[id] = 0,
         label \in {"backed_up", "mutated"} =>
             IsWrite(id) /\ (id \in backups' \/ (id \in bare' /\ Creation(id))),
         label = "mutated" => applied'[id] = 1 /\ id \in sent',
         label \in {"responded", "answered", "exited"} => response'[id] # "none"
  PROVE  SInv'
<1> USE DEF records, channel, worker, native
<1>1. /\ external' \in [Ids -> ExternalStates] /\ external'[id] = label
      /\ \A other \in Ids \ {id} : external'[other] = external[other]
  BY DEF External, SInv, TypeOK
<1>2. /\ applied' \in [Ids -> Nat] /\ \A other \in Ids \ {id} : applied'[other] = applied[other]
      /\ \/ applied'[id] = applied[id]
         \/ /\ applied[id] = 0 /\ applied'[id] = 1 /\ IsWrite(id) /\ Secured(id)
            /\ id \in sent'
  <2>1. applied \in [Ids -> Nat]
    BY DEF SInv, TypeOK
  <2>2. external[id] = "backed_up" =>
          applied[id] = 0 /\ IsWrite(id) /\ Secured(id)
    BY DEF SInv, ExternalInv
  <2>3. CASE applied' = applied
    BY <2>1, <2>3
  <2>4. CASE external[id] = "backed_up" /\ id \in sent' /\ applied' = [applied EXCEPT ![id] = 1]
    BY <2>1, <2>2, <2>4
  <2> QED
    BY <2>3, <2>4
<1>3. /\ sent' \subseteq Ids /\ sent \subseteq sent' /\ backups' \subseteq Ids
      /\ bare' \subseteq Ids /\ bare \subseteq bare'
      /\ backups \subseteq backups' /\ \A other \in Ids \ {id} : other \in sent' => other \in sent
      /\ id \in sent' => id \in sent \/ IsWrite(id)
  BY DEF SInv, TypeOK
<1>4. /\ command[id] # NoCommand
      /\ IsWrite(id) => RouteIn(id, Dispatched \cup {"completed"}) /\ slot.call.op # id
  BY DEF SInv, UnknownInv, ExternalInv
<1>5. \A k \in Keys : routes[k].phase = "completed" =>
          routes[k].by \in Ids /\ routes[k].by # id
  BY RouteNames DEF SInv, RouteInv
<1>6. IsWrite(id) =>
          (pc \in Inside \cup {"settling"} => current # id)
  BY DEF SInv, InsideInv, WorkerInv
<1>7. \A other \in Ids : IsWrite(other)' = IsWrite(other) /\ KeyOf(other)' = KeyOf(other)
  BY DEF IsWrite, KeyOf
<1>8. queue' \in Seq(Ids) /\ \A n \in DOMAIN queue' : \E m \in DOMAIN queue : queue'[n] = queue[m]
  BY QueueShrinks DEF SInv, TypeOK
<1>9. TypeOK'
  BY <1>1, <1>2, <1>3, <1>8 DEF SInv, TypeOK
<1>10. UnknownInv'
  <2>1. \A n \in DOMAIN queue' : command'[queue'[n]] # NoCommand
    BY <1>8 DEF SInv, UnknownInv
  <2>2. ASSUME NEW other \in Ids, command'[other] = NoCommand
        PROVE  /\ external'[other] = "none" /\ applied'[other] = 0 /\ other \notin sent'
               /\ response'[other] = "none" /\ slot'.call.op # other
    <3>1. other \in Ids \ {id}
      BY <1>4, <2>2
    <3> QED
      BY <1>1, <1>2, <1>3, <2>2, <3>1 DEF SInv, UnknownInv
  <2> QED
    BY <2>1, <2>2 DEF UnknownInv
<1>11. RouteInv'
  BY <1>1, <1>2, <1>3, <1>5 DEF SInv, RouteInv
<1>12. AppliedInv'
  BY <1>2, <1>3, <1>4, <1>7 DEF SInv, AppliedInv, RouteIn, KeyOf
<1>13. ExternalInv'
  BY <1>1, <1>2, <1>3, <1>4, <1>7 DEF SInv, ExternalInv, RouteIn, KeyOf
<1>14. SlotInv'
  BY <1>2, <1>3, <1>4, <1>7 DEF SInv, SlotInv, RouteIn, KeyOf
<1>15. LuaInv'
  BY <1>2, <1>3 DEF SInv, LuaInv, TypeOK, Call
<1>16. SuccessInv'
  BY <1>2, <1>7 DEF SInv, SuccessInv
<1>17. WorkerInv'
  <2>1. pc \in {"responded", "answered", "settling"} => response'[current] # "none"
    BY DEF SInv, WorkerInv
  <2> QED
    BY <2>1 DEF SInv, WorkerInv, AllRoutesSettled, IsWrite, RouteIn, KeyOf
<1>18. InsideInv'
  <2>1. pc \notin {"down", "idle"} => current \in Ids
    BY DEF SInv, WorkerInv
  <2>2. pc \in Inside \cup {"settling"} /\ IsWrite(current) =>
            /\ current # id /\ external'[current] = external[current]
            /\ applied'[current] = applied[current] /\ response'[current] = response[current]
            /\ current \in sent' <=> current \in sent
    BY <1>1, <1>2, <1>3, <1>6, <2>1 DEF Inside
  <2>3. pc = "settling" => IsWrite(current)
    BY DEF SInv, WorkerInv
  <2> QED
    BY <2>2, <2>3 DEF SInv, InsideInv, Inside, IsWrite
<1> QED
  BY <1>9, <1>10, <1>11, <1>12, <1>13, <1>14, <1>15, <1>16, <1>17, <1>18 DEF SInv

LEMMA ExternalStepInv == ASSUME SInv, NEW id \in Ids, ExternalStep(id) PROVE SInv'
<1> USE DEF files, history
<1>1. /\ processing \subseteq Ids /\ claimed \subseteq Ids
      /\ response \in [Ids -> {"none", "success", "error"}] /\ applied \in [Ids -> Nat]
      /\ external \in [Ids -> ExternalStates]
  BY DEF SInv, TypeOK
<1>2. /\ external[id] \in {"launched", "unbound", "claimed", "backed_up"} => applied[id] = 0
      /\ external[id] \in {"backed_up", "mutated"} =>
            IsWrite(id) /\ Secured(id)
      /\ external[id] = "mutated" => applied[id] = 1 /\ id \in sent
      /\ external[id] \in {"responded", "answered", "exited"} => response[id] # "none"
  BY DEF SInv, ExternalInv
<1>3. CASE ExternalUnbound(id)
  BY <1>1, <1>2, <1>3, ExternalMoves DEF ExternalUnbound, ExternalStates
<1>4. CASE ExternalClaim(id)
  BY <1>1, <1>2, <1>4, ExternalMoves DEF ExternalClaim, ExternalStates
<1>5. CASE ExternalBackup(id)
  BY <1>1, <1>2, <1>5, ExternalMoves DEF ExternalBackup, ExternalStates
<1>11. CASE ExternalSkipBackup(id)
  BY <1>1, <1>2, <1>11, ExternalMoves DEF ExternalSkipBackup, ExternalStates
<1>6. CASE ExternalMutate(id)
  <2>1. PICK done \in {0, 1}, verified \in BOOLEAN :
            /\ verified => done = 1
            /\ applied' = [applied EXCEPT ![id] = @ + done]
            /\ External(id, IF verified THEN "mutated" ELSE "refusing")
    BY <1>6 DEF ExternalMutate
  <2>2. /\ external[id] = "backed_up" /\ applied[id] = 0
        /\ sent' = sent \cup {id}
        /\ UNCHANGED <<files, records, channel, worker, native, claimed, backups, bare>>
    BY <1>2, <1>6 DEF ExternalMutate
  <2>3. CASE done = 0
    <3>1. applied' = applied /\ External(id, "refusing")
      BY <1>1, <2>1, <2>2, <2>3
    <3> QED
      BY <1>1, <1>2, <2>2, <3>1, ExternalMoves DEF ExternalStates
  <2>4. CASE done = 1
    <3>1. applied' = [applied EXCEPT ![id] = 1] /\ applied'[id] = 1
      BY <1>1, <2>1, <2>2, <2>4
    <3>2. PICK label \in {"mutated", "refusing"} : External(id, label)
      BY <2>1
    <3> QED
      BY <1>1, <1>2, <2>2, <3>1, <3>2, ExternalMoves DEF ExternalStates
  <2> QED
    BY <2>3, <2>4
<1>7. CASE ExternalAnswer(id)
  <2>1. PICK status \in {"success", "error"} :
            /\ Respond(id, status)
            /\ IsWrite(id) /\ status = "success" => applied[id] = 1
    BY <1>2, <1>7 DEF ExternalAnswer
  <2>2. /\ response' \in [Ids -> {"none", "success", "error"}] /\ response'[id] = status
        /\ \A other \in Ids \ {id} : response'[other] = response[other]
    BY <1>1, <2>1 DEF Respond
  <2>3. /\ External(id, "responded") /\ external[id] \notin {"none", "exited"}
        /\ UNCHANGED <<queue, processing, command, records, channel, worker, native, history>>
    BY <1>7 DEF ExternalAnswer
  <2> QED
    BY <1>1, <1>2, <2>1, <2>2, <2>3, ExternalMoves DEF ExternalStates
<1>8. CASE ExternalLeave(id)
  <2>1. PICK label \in {"answered", "refusing"} : External(id, label)
    BY <1>8 DEF ExternalLeave
  <2>2. /\ external[id] = "responded" /\ processing' \subseteq Ids
        /\ UNCHANGED <<queue, response, command, records, channel, worker, native, history>>
    BY <1>1, <1>8 DEF ExternalLeave
  <2> QED
    BY <1>1, <1>2, <2>1, <2>2, ExternalMoves DEF ExternalStates
<1>9. CASE ExternalExit(id)
  BY <1>1, <1>2, <1>9, ExternalMoves DEF ExternalExit, ExternalStates
<1>10. CASE ExternalDies(id)
  BY <1>1, <1>2, <1>10, ExternalMoves DEF ExternalDies, ExternalStates
<1> QED
  BY <1>3, <1>4, <1>5, <1>6, <1>7, <1>8, <1>9, <1>10, <1>11 DEF ExternalStep

LEMMA EnqueueInv == ASSUME SInv, NEW id \in Ids, Enqueue(id) PROVE SInv'
<1> USE DEF records, channel, worker, native, history
<1>1. PICK c \in Commands : command' = [command EXCEPT ![id] = c]
  BY DEF Enqueue
<1>2. /\ command[id] = NoCommand /\ queue' = Append(queue, id)
      /\ UNCHANGED <<processing, response, records, channel, worker, external, native, history>>
  BY DEF Enqueue
<1>3. c # NoCommand
  BY NoneAssumption DEF Commands, NoCommand
<1>4. /\ command' \in [Ids -> Commands \cup {NoCommand}] /\ command'[id] = c
      /\ \A other \in Ids \ {id} : command'[other] = command[other]
  BY <1>1 DEF SInv, TypeOK
<1>5. /\ external[id] = "none" /\ applied[id] = 0 /\ id \notin sent /\ response[id] = "none"
      /\ slot.call.op # id
  BY <1>2 DEF SInv, UnknownInv
<1>6. \A other \in Ids \ {id} : IsWrite(other)' = IsWrite(other) /\ KeyOf(other)' = KeyOf(other)
  BY <1>4 DEF IsWrite, KeyOf
<1>7. TypeOK' /\ UnknownInv'
  <2>1. queue' \in Seq(Ids)
    BY <1>2 DEF SInv, TypeOK
  <2>2. TypeOK'
    BY <1>2, <1>4, <2>1 DEF SInv, TypeOK
  <2>3. \A n \in DOMAIN queue' : queue'[n] = id \/ \E m \in DOMAIN queue : queue'[n] = queue[m]
    BY <1>2 DEF SInv, TypeOK
  <2>4. \A n \in DOMAIN queue : queue[n] \in Ids
    BY DEF SInv, TypeOK
  <2> QED
    BY <1>2, <1>3, <1>4, <2>2, <2>3, <2>4 DEF SInv, UnknownInv
<1>8. RouteInv'
  <2>1. ASSUME NEW k \in Keys, routes[k].phase # "absent"
        PROVE  command'[routes[k].by] = command[routes[k].by]
    <3>1. /\ command[routes[k].by] = [key |-> k, args |-> routes[k].args]
          /\ routes[k].by \in Ids
      BY <2>1, RouteNames DEF SInv, RouteInv
    <3>2. routes[k].by # id
      BY <1>2, <3>1, NoneAssumption DEF NoCommand
    <3> QED
      BY <1>4, <3>1, <3>2
  <2> QED
    BY <1>2, <2>1 DEF SInv, RouteInv
<1>9. AppliedInv' /\ ExternalInv' /\ LuaInv'
  BY <1>2, <1>4, <1>5, <1>6 DEF SInv, AppliedInv, ExternalInv, LuaInv, RouteIn, KeyOf
<1>10. SlotInv'
  BY <1>2, <1>5, <1>6 DEF SInv, SlotInv, RouteIn, KeyOf
<1>11. SuccessInv'
  <2>1. ASSUME NEW other \in Ids, IsWrite(other)', response'[other] = "success"
        PROVE  \E done \in Ids : command'[done] = command'[other] /\ applied'[done] = 1
    <3>1. other # id /\ IsWrite(other) /\ response[other] = "success"
      BY <1>2, <1>5, <1>6, <2>1
    <3>2. PICK done \in Ids : command[done] = command[other] /\ applied[done] = 1
      BY <3>1 DEF SInv, SuccessInv
    <3> QED
      BY <1>2, <1>4, <1>5, <3>1, <3>2
  <2> QED
    BY <2>1 DEF SuccessInv
<1>12. WorkerInv' /\ InsideInv'
  <2>1. pc \notin {"down", "idle"} =>
            /\ current \in Ids /\ current # id /\ command'[current] = command[current]
            /\ IsWrite(current)' = IsWrite(current) /\ KeyOf(current)' = KeyOf(current)
    BY <1>2, <1>4, <1>6 DEF SInv, WorkerInv
  <2>2. WorkerInv'
    BY <1>2, <2>1 DEF SInv, WorkerInv, Preparing, Inside, Flying, AllRoutesSettled, RouteIn
  <2>3. InsideInv'
    BY <1>2, <2>1 DEF SInv, InsideInv, Inside, IsWrite, WorkerInv
  <2> QED
    BY <2>2, <2>3
<1> QED
  BY <1>7, <1>8, <1>9, <1>10, <1>11, <1>12 DEF SInv

-----------------------------------------------------------------------------
(* The invariant holds in every reachable state *)

LEMMA InitInv == ASSUME Init PROVE SInv
<1> USE DEF Init
<1>1. slot.call = NoCall /\ \A id \in Ids : slot.call.op # id
  BY NoneAssumption DEF EmptySlot, NoCall
<1>2. TypeOK
  <2>1. queue \in Seq(Ids) /\ processing \subseteq Ids
    OBVIOUS
  <2>2. /\ response \in [Ids -> {"none", "success", "error"}]
        /\ command \in [Ids -> Commands \cup {NoCommand}]
        /\ routes \in [Keys -> Route \cup {NoRoute}]
        /\ ledger \in [Keys -> LedgerPhases]
    BY DEF LedgerPhases
  <2>3. /\ external \in [Ids -> ExternalStates] /\ applied \in [Ids -> Nat]
    BY DEF ExternalStates
  <2>4. /\ guard \in Ids \cup {None} /\ slot \in Slots \cup {EmptySlot}
        /\ pc \in PCs /\ current \in Ids \cup {None}
        /\ via \in {"lua", "external", "rivals"} /\ step \in Steps
        /\ lua \in {"up", "down"} /\ last \in Call \cup {NoCall}
        /\ reply \in {"none", "ok", "error"}
        /\ scope \in Ids \cup {None} /\ backup_ready \in BOOLEAN
        /\ claimed \subseteq Ids /\ sent \subseteq Ids
        /\ backups \subseteq Ids /\ bare \subseteq Ids
    BY DEF PCs, Steps
  <2> QED
    BY <2>1, <2>2, <2>3, <2>4 DEF TypeOK
<1>3. UnknownInv
  BY <1>1 DEF UnknownInv
<1>4. RouteInv
  BY DEF RouteInv, NoRoute, Open
<1>5. AppliedInv /\ ExternalInv
  BY DEF AppliedInv, ExternalInv
<1>6. SlotInv /\ LuaInv /\ SuccessInv
  BY <1>1 DEF SlotInv, LuaInv, SuccessInv
<1>7. WorkerInv /\ InsideInv
  BY DEF WorkerInv, InsideInv, Preparing, Inside, Flying
<1> QED
  BY <1>2, <1>3, <1>4, <1>5, <1>6, <1>7 DEF SInv

LEMMA StutterInv == ASSUME SInv, UNCHANGED vars PROVE SInv'
<1> USE DEF vars, files, records, channel, worker, native, history
<1>1. RouteInv' /\ AppliedInv' /\ ExternalInv' /\ SlotInv' /\ LuaInv' /\ SuccessInv'
  BY RecordsKept
<1>2. TypeOK' /\ UnknownInv'
  BY DEF SInv, TypeOK, UnknownInv
<1>3. WorkerInv' /\ InsideInv'
  BY DEF SInv, WorkerInv, InsideInv, AllRoutesSettled, RouteIn, KeyOf, IsWrite
<1> QED
  BY <1>1, <1>2, <1>3 DEF SInv

LEMMA WorkerStepInv == ASSUME SInv, WorkerStep PROVE SInv'
<1>1. CASE Pick \/ Admit \/ Refuse \/ Replay \/ PrepareRoute \/ PublishGuard
  BY <1>1, BeginsInv, AdmitInv, StopsInv, ReplayInv, PrepareRouteInv, PublishGuardInv
<1>2. CASE SettleUndispatched \/ Dispatch \/ DispatchRead \/ OpenLedger
  BY <1>2, SettleUndispatchedInv, DispatchInv, DispatchReadInv, OpenLedgerInv
<1>3. CASE ClaimCommand \/ PublishCall \/ CallFails \/ ReceiveReply \/ HandleFailure
  BY <1>3, ClaimCommandInv, PublishCallInv, CallFailsInv, ReceiveReplyInv, HandlesInv
<1>4. CASE HandlerRefuses \/ Answer \/ LeaveProcessing \/ Conclude
  BY <1>4, HandlesInv, AnswerInv, LeaveProcessingInv, ConcludeInv
<1>5. CASE ExternalExits \/ DispatchFails \/ SettleRoute \/ ClearGuard \/ Raise
  BY <1>5, EndsInv, SettleRouteInv, ClearGuardInv, RaiseInv
<1>6. CASE ReportFailure \/ MoveToFailed
  BY <1>6, ReportFailureInv, MoveToFailedInv
<1> QED
  BY <1>1, <1>2, <1>3, <1>4, <1>5, <1>6 DEF WorkerStep

\* The invariant is inductive, whichever process takes the step or dies.
THEOREM SDKInvariant == Spec => []SInv
<1>1. Init => SInv
  BY InitInv
<1>2. SInv /\ [Next]_vars => SInv'
  <2> SUFFICES ASSUME SInv, [Next]_vars PROVE SInv'
    OBVIOUS
  <2>1. CASE \E id \in Ids : Enqueue(id) \/ ExternalStep(id)
    BY <2>1, EnqueueInv, ExternalStepInv
  <2>2. CASE StartWorker \/ WorkerStep \/ WorkerCrash
    BY <2>2, BeginsInv, WorkerStepInv, StopsInv
  <2>3. CASE Perform \/ ExportReply \/ NativeCrash \/ NewGeneration \/ Expire
    BY <2>3, PerformInv, ExportReplyInv, NativeCrashInv, NewGenerationInv, ExpireInv
  <2>4. CASE UNCHANGED vars
    BY <2>4, StutterInv
  <2> QED
    BY <2>1, <2>2, <2>3, <2>4 DEF Next
<1> QED
  BY <1>1, <1>2, PTL DEF Spec

\* The state of the worker, of the processes it starts and of what they leave on
\* disk stays in its range.
THEOREM TypeCorrect == Spec => []TypeOK
<1>1. SInv => TypeOK
  BY DEF SInv
<1> QED
  BY <1>1, SDKInvariant, PTL

\* Whatever dies and is restarted, and however often a key is submitted, Resolve is
\* changed for the key by one command, once.
THEOREM OncePerKey == Spec => []MutatedOncePerKey
<1>1. SInv => MutatedOncePerKey
  <2> SUFFICES ASSUME SInv PROVE MutatedOncePerKey
    OBVIOUS
  <2>1. \A i \in Ids : applied[i] \in Nat
    BY DEF SInv, TypeOK
  <2>2. \A i \in Ids : applied[i] <= 1
    BY <2>1 DEF SInv, AppliedInv
  <2>3. \A i \in Ids : applied[i] > 0 => routes[command[i].key].by = i
    BY <2>1 DEF SInv, AppliedInv, RouteIn, KeyOf
  <2> QED
    BY <2>2, <2>3 DEF MutatedOncePerKey
<1> QED
  BY <1>1, SDKInvariant, PTL

\* A completed route tells the truth for good, and a client that reads a success
\* gets the outcome of a change made for its key with its arguments.
THEOREM CompletedIsFinal == Spec => []CompletedRouteIsTrue
<1>1. SInv => CompletedRouteIsTrue
  <2> SUFFICES ASSUME SInv PROVE CompletedRouteIsTrue
    OBVIOUS
  <2>1. ASSUME NEW k \in Keys, routes[k].phase = "completed"
        PROVE  IF routes[k].answer = "success"
               THEN applied[routes[k].by] = 1 /\ Secured(routes[k].by)
               ELSE applied[routes[k].by] = 0
    <3>1. routes[k].by \in Ids
      BY <2>1, RouteNames DEF SInv
    <3>2. IF routes[k].answer = "success" THEN applied[routes[k].by] = 1
          ELSE routes[k].by \notin sent
      BY <2>1 DEF SInv, RouteInv
    <3>3. applied[routes[k].by] # 0 => Secured(routes[k].by) /\ routes[k].by \in sent
      BY <3>1 DEF SInv, AppliedInv
    <3> QED
      BY <3>2, <3>3
  <2> QED
    BY <2>1 DEF CompletedRouteIsTrue, SInv, SuccessInv
<1> QED
  BY <1>1, SDKInvariant, PTL

-----------------------------------------------------------------------------
(* What a step may never do *)

\* Only two kinds of step change the project.
LEMMA OnlyMutations ==
  ASSUME SInv, [Next]_vars, applied' # applied
  PROVE  Perform \/ \E id \in Ids : ExternalMutate(id)
<1> USE DEF files, records, channel, worker, native, history
<1>1. ~UNCHANGED vars
  BY DEF vars
<1>2. ~(\E id \in Ids : Enqueue(id)) /\ ~StartWorker /\ ~WorkerCrash
  BY DEF Enqueue, StartWorker, WorkerCrash
<1>3. ~(Pick \/ Admit \/ Refuse \/ Replay \/ PrepareRoute \/ PublishGuard
        \/ SettleUndispatched \/ Dispatch \/ DispatchRead \/ OpenLedger)
  BY DEF Pick, Admit, Refuse, Replay, PrepareRoute, PublishGuard, SettleUndispatched, Dispatch,
      DispatchRead, OpenLedger
<1>4. ~(ClaimCommand \/ PublishCall \/ CallFails \/ ReceiveReply \/ HandleFailure
        \/ HandlerRefuses \/ Answer \/ LeaveProcessing \/ Conclude)
  BY DEF ClaimCommand, PublishCall, CallFails, ReceiveReply, HandleFailure, HandlerRefuses,
      Answer, LeaveProcessing, Conclude
<1>5. ~(ExternalExits \/ DispatchFails \/ SettleRoute \/ ClearGuard \/ Raise
        \/ ReportFailure \/ MoveToFailed)
  BY DEF ExternalExits, DispatchFails, SettleRoute, ClearGuard, Raise, ReportFailure, MoveToFailed
<1>6. ~WorkerStep
  BY <1>3, <1>4, <1>5 DEF WorkerStep
<1>7. ~(ExportReply \/ NativeCrash \/ NewGeneration \/ Expire)
  BY DEF ExportReply, NativeCrash, NewGeneration, Expire
<1>8. \A id \in Ids : ExternalStep(id) => ExternalMutate(id)
  BY DEF ExternalStep, ExternalUnbound, ExternalClaim, ExternalBackup,
      ExternalSkipBackup, ExternalAnswer,
         ExternalLeave, ExternalExit, ExternalDies
<1> QED
  BY <1>1, <1>2, <1>6, <1>7, <1>8 DEF Next

\* Resolve is changed only for the command that the key's route names, while that
\* route says so, with no other write open, and with its backup, unless it creates
\* a project where there is nothing to back up.
THEOREM MutatesUnderRoute == Spec => MutationUnderOpenRoute
<1> DEFINE Allowed ==
             \A id \in Ids : applied'[id] # applied[id] =>
                /\ routes[command[id].key].by = id
                /\ id \in backups \/ (id \in bare' /\ Creation(id))
                /\ \A k \in Keys :
                    routes[k].phase \in {"dispatch_started", "uncertain"}
                        <=> k = command[id].key
<1>1. SInv /\ [Next]_vars => Allowed
  <2> SUFFICES ASSUME SInv, [Next]_vars, NEW id \in Ids, applied'[id] # applied[id]
               PROVE  /\ routes[command[id].key].by = id
                      /\ id \in backups \/ (id \in bare' /\ Creation(id))
                      /\ \A k \in Keys :
                          routes[k].phase \in {"dispatch_started", "uncertain"}
                              <=> k = command[id].key
    OBVIOUS
  <2>1. applied \in [Ids -> Nat]
    BY DEF SInv, TypeOK
  <2>2. /\ IsWrite(id) /\ RouteIn(id, Dispatched)
        /\ id \in backups \/ (id \in bare' /\ Creation(id))
    <3>1. CASE Perform
      <4>1. /\ slot.call.step = "mutate" /\ scope = slot.call.op
            /\ \/ backup_ready
               \/ slot.call.op \in bare' /\ Creation(slot.call.op)
            /\ applied' = [applied EXCEPT ![slot.call.op] = @ + 1]
        BY <3>1 DEF Perform
      <4>2. slot.call.op = id
        BY <2>1, <4>1
      <4>3. slot.call # NoCall /\ scope # None
        BY <4>1, <4>2, NoneAssumption DEF NoCall
      <4>4. IsWrite(id) /\ RouteIn(id, Dispatched)
        BY <4>1, <4>2, <4>3 DEF SInv, SlotInv
      <4>5. id \in backups \/ (id \in bare' /\ Creation(id))
        BY <4>1, <4>2, <4>3 DEF SInv, LuaInv
      <4> QED
        BY <4>4, <4>5
    <3>2. CASE \E other \in Ids : ExternalMutate(other)
      <4>1. PICK other \in Ids : ExternalMutate(other)
        BY <3>2
      <4>2. PICK done \in {0, 1} : applied' = [applied EXCEPT ![other] = @ + done]
        BY <4>1 DEF ExternalMutate
      <4>3. other = id
        BY <2>1, <4>2
      <4>4. external[id] = "backed_up"
        BY <4>1, <4>3 DEF ExternalMutate
      <4>5. IsWrite(id) /\ Secured(id) /\ RouteIn(id, Dispatched \cup {"completed"})
        BY <4>4 DEF SInv, ExternalInv
      <4>7. bare' = bare
        BY <4>1 DEF ExternalMutate
      <4>6. routes[KeyOf(id)].phase # "completed"
        BY <4>4, <4>5 DEF SInv, RouteInv, RouteIn, KeyOf, IsWrite
      <4> QED
        BY <4>5, <4>6, <4>7 DEF RouteIn, Dispatched
    <3> QED
      BY <3>1, <3>2, OnlyMutations
  <2>3. \A k \in Keys : routes[k].phase \in Dispatched => k = command[id].key
    BY <2>2 DEF SInv, RouteInv, RouteIn, KeyOf, IsWrite, Open, Dispatched
  <2> QED
    BY <2>2, <2>3 DEF RouteIn, KeyOf, IsWrite, Dispatched
<1>2. [][Allowed]_vars => MutationUnderOpenRoute
  BY DEF MutationUnderOpenRoute
<1> QED
  BY <1>1, <1>2, SDKInvariant, PTL DEF Spec

\* Only three steps touch the guard, and only five the slot.
LEMMA OnlyGuarding ==
  ASSUME [Next]_vars, guard' # guard
  PROVE  Admit \/ PublishGuard \/ ClearGuard
<1> USE DEF files, records, channel, worker, native, history
<1>1. ~UNCHANGED vars
  BY DEF vars
<1>2. ~(\E id \in Ids : Enqueue(id)) /\ ~StartWorker /\ ~WorkerCrash
  BY DEF Enqueue, StartWorker, WorkerCrash
<1>3. ~(Pick \/ Refuse \/ Replay \/ PrepareRoute \/ SettleUndispatched \/ Dispatch
        \/ DispatchRead \/ OpenLedger)
  BY DEF Pick, Refuse, Replay, PrepareRoute, SettleUndispatched, Dispatch, DispatchRead, OpenLedger
<1>4. ~(ClaimCommand \/ PublishCall \/ CallFails \/ ReceiveReply \/ HandleFailure
        \/ HandlerRefuses \/ Answer \/ LeaveProcessing \/ Conclude)
  BY DEF ClaimCommand, PublishCall, CallFails, ReceiveReply, HandleFailure, HandlerRefuses,
      Answer, LeaveProcessing, Conclude
<1>5. ~(ExternalExits \/ DispatchFails \/ SettleRoute \/ Raise \/ ReportFailure \/ MoveToFailed)
  BY DEF ExternalExits, DispatchFails, SettleRoute, Raise, ReportFailure, MoveToFailed
<1>6. ~(Perform \/ ExportReply \/ NativeCrash \/ NewGeneration \/ Expire)
  BY DEF Perform, ExportReply, NativeCrash, NewGeneration, Expire
<1>7. ~(\E id \in Ids : ExternalStep(id))
  BY DEF ExternalStep, ExternalUnbound, ExternalClaim, ExternalBackup,
      ExternalSkipBackup, ExternalMutate,
      ExternalAnswer, ExternalLeave, ExternalExit, ExternalDies
<1> QED
  BY <1>1, <1>2, <1>3, <1>4, <1>5, <1>6, <1>7 DEF Next, WorkerStep

LEMMA OnlySlotting ==
  ASSUME [Next]_vars, slot' # slot
  PROVE  PublishCall \/ ReceiveReply \/ ExportReply \/ NewGeneration \/ Expire
<1> USE DEF files, records, channel, worker, native, history
<1>1. ~UNCHANGED vars
  BY DEF vars
<1>2. ~(\E id \in Ids : Enqueue(id)) /\ ~StartWorker /\ ~WorkerCrash
  BY DEF Enqueue, StartWorker, WorkerCrash
<1>3. ~(Pick \/ Admit \/ Refuse \/ Replay \/ PrepareRoute \/ PublishGuard
        \/ SettleUndispatched \/ Dispatch \/ DispatchRead \/ OpenLedger)
  BY DEF Pick, Admit, Refuse, Replay, PrepareRoute, PublishGuard, SettleUndispatched, Dispatch,
      DispatchRead, OpenLedger
<1>4. ~(ClaimCommand \/ CallFails \/ HandleFailure \/ HandlerRefuses \/ Answer
        \/ LeaveProcessing \/ Conclude)
  BY DEF ClaimCommand, CallFails, HandleFailure, HandlerRefuses, Answer, LeaveProcessing, Conclude
<1>5. ~(ExternalExits \/ DispatchFails \/ SettleRoute \/ ClearGuard \/ Raise
        \/ ReportFailure \/ MoveToFailed)
  BY DEF ExternalExits, DispatchFails, SettleRoute, ClearGuard, Raise, ReportFailure, MoveToFailed
<1>6. ~(Perform \/ NativeCrash)
  BY DEF Perform, NativeCrash
<1>7. ~(\E id \in Ids : ExternalStep(id))
  BY DEF ExternalStep, ExternalUnbound, ExternalClaim, ExternalBackup,
      ExternalSkipBackup, ExternalMutate,
      ExternalAnswer, ExternalLeave, ExternalExit, ExternalDies
<1> QED
  BY <1>1, <1>2, <1>3, <1>4, <1>5, <1>6, <1>7 DEF Next, WorkerStep

\* What is in doubt stays where later writers find it: the guard goes only when its
\* write is completed, the packet of a write only when it was answered.
THEOREM DoubtStays == Spec => DoubtIsKept
<1> DEFINE Settled ==
             guard # None /\ guard' # guard =>
                \E k \in Keys : routes[k].phase = "completed" /\ routes[k].by = guard
           Stays ==
             slot.call.op # None /\ IsWrite(slot.call.op) /\ slot.answer = "none"
                => slot'.call = slot.call
<1>1. SInv /\ [Next]_vars => Settled
  <2> SUFFICES ASSUME SInv, [Next]_vars, guard # None, guard' # guard
               PROVE  \E k \in Keys : routes[k].phase = "completed" /\ routes[k].by = guard
    OBVIOUS
  <2>1. CASE Admit
    BY <2>1 DEF Admit, GuardSettled
  <2>2. CASE PublishGuard
    BY <2>2 DEF PublishGuard, SInv, WorkerInv
  <2>3. CASE ClearGuard
    BY <2>3 DEF ClearGuard, SInv, WorkerInv, RouteIn, KeyOf, IsWrite
  <2> QED
    BY <2>1, <2>2, <2>3, OnlyGuarding
<1>2. SInv /\ [Next]_vars => Stays
  <2> SUFFICES ASSUME SInv, [Next]_vars, slot.call.op # None, IsWrite(slot.call.op),
                      slot.answer = "none"
               PROVE  slot'.call = slot.call
    OBVIOUS
  <2>1. slot # EmptySlot /\ ~SlotRecoverable
    BY DEF EmptySlot, NoCall, SlotRecoverable
  <2>2. slot \in Slots
    BY <2>1 DEF SInv, TypeOK
  <2>3. ~PublishCall /\ ~ReceiveReply /\ ~NewGeneration
    BY <2>1 DEF PublishCall, ReceiveReply, NewGeneration
  <2>4. CASE ExportReply
    BY <2>2, <2>4 DEF ExportReply, Slots
  <2>5. CASE Expire
    BY <2>2, <2>5 DEF Expire, Slots
  <2> QED
    BY <2>3, <2>4, <2>5, OnlySlotting
<1>3. [][Settled]_vars => GuardOutlivesDoubt
  BY DEF GuardOutlivesDoubt
<1>4. [][Stays]_vars => UnansweredWriteStays
  BY DEF UnansweredWriteStays
<1> QED
  BY <1>1, <1>2, <1>3, <1>4, SDKInvariant, PTL DEF Spec, DoubtIsKept
=============================================================================
