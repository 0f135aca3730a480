------------------------- MODULE BridgeQueue_proofs -------------------------
(***************************************************************************)
(* Proofs about BridgeQueue for every set of ids, keys and kinds of        *)
(* commands.  The properties are about what a command did and what is on   *)
(* record; the invariant adds where a command is on its way and what the   *)
(* loop knows of the one it works on.  There is one lemma per action.      *)
(***************************************************************************)
EXTENDS BridgeQueue, TLAPS

\* A command is in one directory at most on its way, and nobody waits for one
\* that was never queued.
Places ==
    /\ commands \cap processing = {}
    /\ \A id \in Ids :
          /\ call[id] \in {"new", "queueing", "not_queued"} =>
                /\ id \notin commands \cup processing
                /\ response[id] = "none" /\ applied[id] = 0
          /\ call[id] = "queueing" => id \in audited /\ command[id] \in Commands
          /\ id \in commands \cup processing => id \in audited /\ command[id] \in Commands

\* What is still queued has not run, and what has run was audited and in time.
Runs ==
    \A id \in Ids :
        /\ applied[id] \in {0, 1}
        /\ id \in commands => applied[id] = 0
        /\ applied[id] = 1 => id \in audited \ expired

\* Where the loop is with the command that it claimed.
AtWork ==
    /\ current = None <=> pc \in {"down", "idle"}
    /\ current # None => current \in processing
    /\ pc \in {"claimed", "backed_up", "reserved"} => applied[current] = 0
    /\ pc \in {"backed_up", "reserved", "mutated"} =>
          /\ current \notin expired
          /\ current \in backups \/ (current \in bare /\ Kind = "create")
          /\ Kind \in WriteKinds /\ Saved = NoReceipt
    /\ pc \in {"backed_up", "reserved"} /\ Kind = "start" => Prepared(Job)
    /\ pc = "reserved" => Kind = "start" /\ Job \in reserved /\ renders[Job] = 0
    /\ pc = "mutated" => applied[current] = 1
    /\ pc \in {"recorded", "responding", "responded"} /\ Kind \in WriteKinds =>
          Saved.of = Fingerprint(command[current])

\* A job is on disk as started before it renders, and was prepared.
Rendered ==
    \A job \in Ids :
        /\ renders[job] \in {0, 1}
        /\ renders[job] = 1 => job \in reserved /\ Prepared(job)

\* A receipt is of an execution that was made, after its backup unless it was a
\* creation with nothing to back up.
Recorded ==
    \A k \in Keys : receipts[k] # NoReceipt =>
        /\ \/ receipts[k].by \in backups
           \/ receipts[k].by \in bare /\ receipts[k].of[1] = "create"
        /\ applied[receipts[k].by] = 1

IInv ==
    TypeOK /\ Places /\ Runs /\ AtWork /\ Rendered /\ Recorded /\ SuccessIsDurable

-----------------------------------------------------------------------------
(* Commands and receipts *)

\* What the types say of single commands and receipts.
LEMMA Types ==
    /\ NoCommand.kind = "none" /\ NoCommand \notin Commands
    /\ \A c \in Commands :
          /\ c.kind \in Kinds \cap (ReadKinds \cup WriteKinds)
          /\ c.kind \in WriteKinds => c.key \in Keys
          /\ c.kind = "start" => c.job \in Ids
          /\ Fingerprint(c) \in {Fingerprint(d) : d \in Commands}
          /\ Fingerprint(c) = <<c.kind, c.job>>
    /\ NoReceipt \notin Receipts /\ NoReceipt.by = None
    /\ \A r \in Receipts : r.by \in Ids /\ r.of \in {Fingerprint(c) : c \in Commands}
    /\ \A f \in {Fingerprint(c) : c \in Commands}, i \in Ids :
          [of |-> f, by |-> i] \in Receipts
  BY NoneAssumption
  DEF Commands, NoCommand, Receipts, NoReceipt, Fingerprint, ReadKinds, WriteKinds

-----------------------------------------------------------------------------
(* Every action keeps the invariant *)

\* A new command is audited and not yet in a directory.
LEMMA SubmitKeeps ==
    ASSUME IInv, NEW id \in Ids, Submit(id)
    PROVE  IInv'
<1>0. TypeOK /\ Places /\ Runs /\ AtWork /\ Rendered /\ Recorded /\ SuccessIsDurable
  BY DEF IInv
<1>1. TypeOK'
  BY <1>0 DEF Submit, disk, bridge, history, TypeOK, Calls, PCs
<1>2. Places'
  BY <1>0 DEF Submit, disk, bridge, history, Places, TypeOK
<1>3. Runs'
  BY <1>0 DEF Submit, disk, bridge, history, Runs
<1>4. AtWork'
  BY <1>0 DEF Submit, disk, bridge, history, AtWork, Kind, Job, Saved, Prepared,
      TypeOK, Places
<1>5. SuccessIsDurable'
  BY <1>0 DEF Submit, disk, bridge, history, SuccessIsDurable, TypeOK, Places
<1>6. Rendered' /\ Recorded'
  BY <1>0 DEF Submit, disk, bridge, history, Rendered, Recorded, Prepared
<1> QED
  BY <1>1, <1>2, <1>3, <1>4, <1>5, <1>6 DEF IInv

\* What is published was audited and has not run.
LEMMA EnqueueKeeps ==
    ASSUME IInv, NEW id \in Ids, Enqueue(id)
    PROVE  IInv'
<1>0. TypeOK /\ Places /\ Runs /\ AtWork /\ Rendered /\ Recorded /\ SuccessIsDurable
  BY DEF IInv
<1>1. TypeOK'
  BY <1>0 DEF Enqueue, bridge, history, TypeOK, Calls, PCs
<1>2. Places'
  BY <1>0 DEF Enqueue, bridge, history, Places, TypeOK
<1>3. Runs'
  BY <1>0 DEF Enqueue, bridge, history, Runs, TypeOK, Places
<1>4. SuccessIsDurable'
  BY <1>0 DEF Enqueue, bridge, history, SuccessIsDurable, TypeOK
<1>5. AtWork' /\ Rendered' /\ Recorded'
  BY <1>0 DEF Enqueue, bridge, history, AtWork, Rendered, Recorded, Kind, Job,
      Saved, Prepared
<1> QED
  BY <1>1, <1>2, <1>3, <1>4, <1>5 DEF IInv

\* A caller learns what the response file says.
LEMMA ReceiveResponseKeeps ==
    ASSUME IInv, NEW id \in Ids, ReceiveResponse(id)
    PROVE  IInv'
<1>0. TypeOK /\ Places /\ Runs /\ AtWork /\ Rendered /\ Recorded /\ SuccessIsDurable
  BY DEF IInv
<1>1. TypeOK'
  BY <1>0 DEF ReceiveResponse, disk, bridge, history, TypeOK, Calls, PCs
<1>2. Places'
  BY <1>0 DEF ReceiveResponse, disk, bridge, history, Places
<1>3. SuccessIsDurable'
  BY <1>0 DEF ReceiveResponse, disk, bridge, history, SuccessIsDurable
<1>4. Runs' /\ AtWork' /\ Rendered' /\ Recorded'
  BY <1>0 DEF ReceiveResponse, disk, bridge, history, Runs, AtWork, Rendered,
      Recorded, Kind, Job, Saved, Prepared
<1> QED
  BY <1>1, <1>2, <1>3, <1>4 DEF IInv

\* A caller that gives up changes no file.
LEMMA RaiseKeeps ==
    ASSUME IInv, NEW id \in Ids, Raise(id)
    PROVE  IInv'
<1>0. TypeOK /\ Places /\ Runs /\ AtWork /\ Rendered /\ Recorded /\ SuccessIsDurable
  BY DEF IInv
<1>1. TypeOK'
  BY <1>0 DEF Raise, disk, bridge, history, TypeOK, Calls, PCs
<1>2. Places'
  BY <1>0 DEF Raise, disk, bridge, history, Places
<1>3. SuccessIsDurable'
  BY <1>0 DEF Raise, disk, bridge, history, SuccessIsDurable
<1>4. Runs' /\ AtWork' /\ Rendered' /\ Recorded'
  BY <1>0 DEF Raise, disk, bridge, history, Runs, AtWork, Rendered, Recorded, Kind,
      Job, Saved, Prepared
<1> QED
  BY <1>1, <1>2, <1>3, <1>4 DEF IInv

\* A caller that dies changes no file.
LEMMA ClientCrashKeeps ==
    ASSUME IInv, NEW id \in Ids, ClientCrash(id)
    PROVE  IInv'
<1>0. TypeOK /\ Places /\ Runs /\ AtWork /\ Rendered /\ Recorded /\ SuccessIsDurable
  BY DEF IInv
<1>1. TypeOK'
  BY <1>0 DEF ClientCrash, disk, bridge, history, TypeOK, Calls, PCs
<1>2. Places'
  BY <1>0 DEF ClientCrash, disk, bridge, history, Places
<1>3. SuccessIsDurable'
  BY <1>0 DEF ClientCrash, disk, bridge, history, SuccessIsDurable
<1>4. Runs' /\ AtWork' /\ Rendered' /\ Recorded'
  BY <1>0 DEF ClientCrash, disk, bridge, history, Runs, AtWork, Rendered, Recorded,
      Kind, Job, Saved, Prepared
<1> QED
  BY <1>1, <1>2, <1>3, <1>4 DEF IInv

\* Only what is still queued, and so has not run, expires.
LEMMA ExpireKeeps ==
    ASSUME IInv, NEW id \in Ids, Expire(id)
    PROVE  IInv'
<1>0. TypeOK /\ Places /\ Runs /\ AtWork /\ Rendered /\ Recorded /\ SuccessIsDurable
  BY DEF IInv
<1>1. TypeOK'
  BY <1>0 DEF Expire, disk, clients, bridge, TypeOK, Calls, PCs
<1>2. Runs'
  BY <1>0 DEF Expire, disk, clients, bridge, Runs
<1>3. AtWork'
  BY <1>0 DEF Expire, disk, clients, bridge, AtWork, Kind, Job, Saved, Prepared,
      TypeOK, Places
<1>4. Places' /\ Rendered' /\ Recorded' /\ SuccessIsDurable'
  BY <1>0 DEF Expire, disk, clients, bridge, Places, Rendered, Recorded,
      SuccessIsDurable, Prepared
<1> QED
  BY <1>1, <1>2, <1>3, <1>4 DEF IInv

\* A loop begins without a command.
LEMMA StartBridgeKeeps ==
    ASSUME IInv, StartBridge
    PROVE  IInv'
<1>0. TypeOK /\ Places /\ Runs /\ AtWork /\ Rendered /\ Recorded /\ SuccessIsDurable
  BY DEF IInv
<1>1. TypeOK'
  BY <1>0 DEF StartBridge, disk, clients, history, Goto, TypeOK, Calls, PCs
<1>2. AtWork'
  BY <1>0 DEF StartBridge, disk, clients, history, Goto, AtWork, Kind, Job, Saved,
      Prepared
<1>3. Places' /\ Runs' /\ Rendered' /\ Recorded' /\ SuccessIsDurable'
  BY <1>0 DEF StartBridge, disk, clients, history, Goto, Places, Runs, Rendered,
      Recorded, SuccessIsDurable, Prepared
<1> QED
  BY <1>1, <1>2, <1>3 DEF IInv

\* What is claimed was queued, so it has not run.
LEMMA ClaimKeeps ==
    ASSUME IInv, Claim
    PROVE  IInv'
<1>0. TypeOK /\ Places /\ Runs /\ AtWork /\ Rendered /\ Recorded /\ SuccessIsDurable
  BY DEF IInv
<1>1. TypeOK'
  BY <1>0 DEF Claim, clients, history, TypeOK, Calls, PCs
<1>2. Places'
  BY <1>0 DEF Claim, clients, history, Places
<1>3. Runs'
  BY <1>0 DEF Claim, clients, history, Runs
<1>4. AtWork'
  BY <1>0, Types, NoneAssumption DEF Claim, clients, history, AtWork, Kind, Job,
      Saved, Prepared, TypeOK, Places, Runs, NoReceipt
<1>5. Rendered' /\ Recorded' /\ SuccessIsDurable'
  BY <1>0 DEF Claim, clients, history, Rendered, Recorded, SuccessIsDurable,
      Prepared
<1> QED
  BY <1>1, <1>2, <1>3, <1>4, <1>5 DEF IInv

\* A refusal leads to an error response and changes nothing.
LEMMA RefuseCommandKeeps ==
    ASSUME IInv, RefuseCommand
    PROVE  IInv'
<1>0. TypeOK /\ Places /\ Runs /\ AtWork /\ Rendered /\ Recorded /\ SuccessIsDurable
  BY DEF IInv
<1>1. TypeOK'
  BY <1>0 DEF RefuseCommand, disk, clients, history, Goto, TypeOK, Calls, PCs
<1>2. AtWork'
  BY <1>0 DEF RefuseCommand, disk, clients, history, Goto, AtWork, Kind, Job,
      Saved, Prepared
<1>3. Places' /\ Runs' /\ Rendered' /\ Recorded' /\ SuccessIsDurable'
  BY <1>0 DEF RefuseCommand, disk, clients, history, Goto, Places, Runs, Rendered,
      Recorded, SuccessIsDurable, Prepared
<1> QED
  BY <1>1, <1>2, <1>3 DEF IInv

\* A read needs no receipt.
LEMMA AnswerReadKeeps ==
    ASSUME IInv, AnswerRead
    PROVE  IInv'
<1>0. TypeOK /\ Places /\ Runs /\ AtWork /\ Rendered /\ Recorded /\ SuccessIsDurable
  BY DEF IInv
<1>1. TypeOK'
  BY <1>0 DEF AnswerRead, disk, clients, history, Kind, Valid, ReadKinds, TypeOK,
      Calls, PCs
<1>2. AtWork'
  BY <1>0 DEF AnswerRead, AtWork, Goto, disk, clients, history, Kind, Job, Saved,
      Prepared, ReadKinds, WriteKinds
<1>3. Places' /\ Runs' /\ Rendered' /\ Recorded' /\ SuccessIsDurable'
  BY <1>0 DEF AnswerRead, disk, clients, history, Kind, Valid, ReadKinds, Places,
      Runs, Rendered, Recorded, SuccessIsDurable, Prepared
<1> QED
  BY <1>1, <1>2, <1>3 DEF IInv

\* A replay answers from the receipt of this very request.
LEMMA ReplayKeeps ==
    ASSUME IInv, Replay
    PROVE  IInv'
<1>0. TypeOK /\ Places /\ Runs /\ AtWork /\ Rendered /\ Recorded /\ SuccessIsDurable
  BY DEF IInv
<1>1. TypeOK'
  BY <1>0 DEF Replay, disk, clients, history, Goto, Kind, Saved, Valid, WriteKinds,
      TypeOK, Calls, PCs
<1>2. AtWork'
  BY <1>0 DEF Replay, disk, clients, history, Goto, Kind, Saved, Valid, WriteKinds,
      AtWork, Job, Prepared
<1>3. Places' /\ Runs' /\ Rendered' /\ Recorded' /\ SuccessIsDurable'
  BY <1>0 DEF Replay, disk, clients, history, Goto, Kind, Saved, Valid, WriteKinds,
      Places, Runs, Rendered, Recorded, SuccessIsDurable, Prepared
<1> QED
  BY <1>1, <1>2, <1>3 DEF IInv

\* From here on the key has no receipt and the command is in time.
LEMMA BackUpKeeps ==
    ASSUME IInv, BackUp
    PROVE  IInv'
<1>0. TypeOK /\ Places /\ Runs /\ AtWork /\ Rendered /\ Recorded /\ SuccessIsDurable
  BY DEF IInv
<1>1. TypeOK'
  BY <1>0 DEF BackUp, clients, history, Goto, Kind, Job, Valid, Ready, KeyUnused,
      WriteKinds, Prepared, Saved, TypeOK, Calls, PCs, AtWork
<1>2. AtWork'
  BY <1>0 DEF BackUp, clients, history, Goto, Kind, Job, Valid, Ready, KeyUnused,
      WriteKinds, Prepared, Saved, AtWork
<1>3. Recorded'
  BY <1>0 DEF BackUp, clients, history, Goto, Kind, Job, Valid, Ready, KeyUnused,
      WriteKinds, Prepared, Saved, Recorded
<1>4. SuccessIsDurable'
  BY <1>0 DEF BackUp, clients, history, Goto, Kind, Job, Valid, Ready, KeyUnused,
      WriteKinds, Prepared, Saved, SuccessIsDurable
<1>5. Places' /\ Runs' /\ Rendered'
  BY <1>0 DEF BackUp, clients, history, Goto, Kind, Job, Valid, Ready, KeyUnused,
      WriteKinds, Prepared, Saved, Places, Runs, Rendered
<1> QED
  BY <1>1, <1>2, <1>3, <1>4, <1>5 DEF IInv

\* A creation without a backup is noted as one.
LEMMA SkipBackUpKeeps ==
    ASSUME IInv, SkipBackUp
    PROVE  IInv'
<1>0. TypeOK /\ Places /\ Runs /\ AtWork /\ Rendered /\ Recorded /\ SuccessIsDurable
  BY DEF IInv
<1>1. TypeOK'
  BY <1>0 DEF SkipBackUp, disk, clients, Goto, Kind, Job, Valid, Ready, KeyUnused,
      WriteKinds, Prepared, Saved, TypeOK, Calls, PCs, AtWork
<1>2. AtWork'
  BY <1>0 DEF SkipBackUp, disk, clients, Goto, Kind, Job, Valid, Ready, KeyUnused,
      WriteKinds, Prepared, Saved, AtWork
<1>3. Recorded'
  BY <1>0 DEF SkipBackUp, disk, clients, Goto, Kind, Job, Valid, Ready, KeyUnused,
      WriteKinds, Prepared, Saved, Recorded
<1>4. SuccessIsDurable'
  BY <1>0 DEF SkipBackUp, disk, clients, Goto, Kind, Job, Valid, Ready, KeyUnused,
      WriteKinds, Prepared, Saved, SuccessIsDurable
<1>5. Places' /\ Runs' /\ Rendered'
  BY <1>0 DEF SkipBackUp, disk, clients, Goto, Kind, Job, Valid, Ready, KeyUnused,
      WriteKinds, Prepared, Saved, Places, Runs, Rendered
<1> QED
  BY <1>1, <1>2, <1>3, <1>4, <1>5 DEF IInv

\* The change of a command that has not run is its first.
LEMMA MutateKeeps ==
    ASSUME IInv, Mutate
    PROVE  IInv'
<1>0. TypeOK /\ Places /\ Runs /\ AtWork /\ Rendered /\ Recorded /\ SuccessIsDurable
  BY DEF IInv
<1>1. TypeOK'
  BY <1>0 DEF Mutate, disk, clients, Goto, Kind, TypeOK, Calls, PCs, AtWork, Job,
      Saved, Prepared
<1>2. Places'
  BY <1>0 DEF Mutate, disk, clients, Goto, Kind, Places, TypeOK, AtWork, Job,
      Saved, Prepared
<1>3. Runs'
  BY <1>0 DEF Mutate, disk, clients, Goto, Kind, Runs, TypeOK, Places, AtWork, Job,
      Saved, Prepared
<1>4. AtWork'
  BY <1>0 DEF Mutate, disk, clients, Goto, Kind, AtWork, Job, Saved, Prepared,
      TypeOK
<1>5. Recorded'
  BY <1>0 DEF Mutate, disk, clients, Goto, Kind, Recorded, TypeOK, AtWork, Job,
      Saved, Prepared
<1>6. SuccessIsDurable'
  BY <1>0 DEF Mutate, disk, clients, Goto, Kind, SuccessIsDurable, TypeOK, AtWork,
      Job, Saved, Prepared
<1>7. Rendered'
  BY <1>0 DEF Mutate, disk, clients, Goto, Kind, Rendered, Prepared
<1> QED
  BY <1>1, <1>2, <1>3, <1>4, <1>5, <1>6, <1>7 DEF IInv

\* A job without a start record has not rendered.
LEMMA ReserveRenderStartKeeps ==
    ASSUME IInv, ReserveRenderStart
    PROVE  IInv'
<1>0. TypeOK /\ Places /\ Runs /\ AtWork /\ Rendered /\ Recorded /\ SuccessIsDurable
  BY DEF IInv
<1>1. TypeOK'
  BY <1>0, Types, NoneAssumption DEF ReserveRenderStart, clients, history, Goto,
      Kind, Job, TypeOK, Calls, PCs, AtWork, Saved, Prepared, NoReceipt
<1>2. AtWork'
  BY <1>0, Types, NoneAssumption DEF ReserveRenderStart, clients, history, Goto,
      Kind, Job, AtWork, Saved, Prepared, TypeOK, Places, Runs, Rendered, Recorded,
      SuccessIsDurable, NoReceipt
<1>3. Rendered'
  BY <1>0 DEF ReserveRenderStart, clients, history, Goto, Kind, Job, Rendered,
      Prepared
<1>4. Places' /\ Runs' /\ Recorded' /\ SuccessIsDurable'
  BY <1>0 DEF ReserveRenderStart, clients, history, Goto, Kind, Job, Places, Runs,
      Recorded, SuccessIsDurable
<1> QED
  BY <1>1, <1>2, <1>3, <1>4 DEF IInv

\* A reserved job that has not rendered renders once.
LEMMA StartRenderingKeeps ==
    ASSUME IInv, StartRendering
    PROVE  IInv'
<1>0. TypeOK /\ Places /\ Runs /\ AtWork /\ Rendered /\ Recorded /\ SuccessIsDurable
  BY DEF IInv
<1>1. TypeOK'
  BY <1>0 DEF StartRendering, disk, clients, Goto, Job, TypeOK, Calls, PCs, AtWork,
      Kind, Saved, Prepared
<1>2. Places'
  BY <1>0 DEF StartRendering, disk, clients, Goto, Job, Places, TypeOK, AtWork,
      Kind, Saved, Prepared
<1>3. Runs'
  BY <1>0 DEF StartRendering, disk, clients, Goto, Job, Runs, TypeOK, Places,
      AtWork, Kind, Saved, Prepared
<1>4. AtWork'
  BY <1>0 DEF StartRendering, disk, clients, Goto, Job, AtWork, Kind, Saved,
      Prepared, TypeOK
<1>5. Rendered'
  BY <1>0 DEF StartRendering, disk, clients, Goto, Job, Rendered, Prepared, TypeOK,
      AtWork, Kind, Saved
<1>6. Recorded'
  BY <1>0 DEF StartRendering, disk, clients, Goto, Job, Recorded, TypeOK, AtWork,
      Kind, Saved, Prepared
<1>7. SuccessIsDurable'
  BY <1>0 DEF StartRendering, disk, clients, Goto, Job, SuccessIsDurable, TypeOK,
      AtWork, Kind, Saved, Prepared
<1> QED
  BY <1>1, <1>2, <1>3, <1>4, <1>5, <1>6, <1>7 DEF IInv

\* The key had no receipt; its first is of the change just made.
LEMMA WriteReceiptKeeps ==
    ASSUME IInv, WriteReceipt
    PROVE  IInv'
<1>0. TypeOK /\ Places /\ Runs /\ AtWork /\ Rendered /\ Recorded /\ SuccessIsDurable
  BY DEF IInv
<1>1. TypeOK'
  <2>1. current \in Ids /\ command[current] \in Commands /\ pc = "mutated"
    BY <1>0 DEF WriteReceipt, TypeOK, Places, AtWork
  <2>2. command[current].key \in Keys
    BY <1>0, <2>1, Types DEF AtWork, Kind
  <2>3. [of |-> Fingerprint(command[current]), by |-> current] \in Receipts
    BY <2>1, Types
  <2>4. receipts' \in [Keys -> Receipts \cup {NoReceipt}]
    BY <1>0, <2>2, <2>3 DEF WriteReceipt, TypeOK
  <2> QED
    BY <1>0, <2>4 DEF WriteReceipt, Goto, clients, history, TypeOK, PCs
<1>2. AtWork'
  BY <1>0, Types, NoneAssumption DEF WriteReceipt, clients, history, Goto, AtWork,
      Kind, Job, Saved, Prepared, TypeOK, Places, NoReceipt
<1>3. Rendered'
  BY <1>0, Types, NoneAssumption DEF WriteReceipt, clients, history, Goto,
      Rendered, Prepared, TypeOK, AtWork, Kind, Job, Saved, NoReceipt
<1>4. Recorded'
  BY <1>0, Types DEF WriteReceipt, clients, history, Goto, Recorded, TypeOK, AtWork,
      Kind, Job, Saved, Prepared, Fingerprint
<1>5. SuccessIsDurable'
  <2>1. Saved = NoReceipt
    BY <1>0 DEF WriteReceipt, AtWork
  <2>2. ASSUME NEW id \in Ids, "success" \in {response[id], call[id]},
               command[id].kind \in WriteKinds
        PROVE  command[id].key # command[current].key
    <3>1. receipts[command[id].key].by \in backups \cup bare
      BY <1>0, <2>2 DEF SuccessIsDurable
    <3>2. NoReceipt.by \notin backups \cup bare
      BY <1>0, Types, NoneAssumption DEF TypeOK
    <3> QED
      BY <2>1, <3>1, <3>2 DEF Saved
  <2>3. ASSUME NEW id \in Ids, "success" \in {response[id], call[id]},
               command[id].kind \in WriteKinds
        PROVE  receipts'[command[id].key] = receipts[command[id].key]
    <3>1. command[id].key # command[current].key
      BY <2>2, <2>3
    <3>2. command[id] \in Commands /\ command[id].key \in Keys
      BY <1>0, <2>3, Types DEF TypeOK, WriteKinds
    <3> QED
      BY <1>0, <3>1, <3>2 DEF WriteReceipt, TypeOK
  <2>4. UNCHANGED <<response, call, command, backups, bare, applied>>
    BY DEF WriteReceipt, clients, history
  <2> QED
    BY <1>0, <2>3, <2>4 DEF SuccessIsDurable
<1>6. Places' /\ Runs'
  BY <1>0 DEF WriteReceipt, clients, history, Goto, Places, Runs
<1> QED
  BY <1>1, <1>2, <1>3, <1>4, <1>5, <1>6 DEF IInv

\* What follows the receipt may still fail.
LEMMA RefreshStateKeeps ==
    ASSUME IInv, RefreshState
    PROVE  IInv'
<1>0. TypeOK /\ Places /\ Runs /\ AtWork /\ Rendered /\ Recorded /\ SuccessIsDurable
  BY DEF IInv
<1>1. TypeOK'
  BY <1>0 DEF RefreshState, disk, clients, history, Goto, TypeOK, Calls, PCs
<1>2. AtWork'
  BY <1>0 DEF RefreshState, disk, clients, history, Goto, AtWork, Kind, Job, Saved,
      Prepared
<1>3. Places' /\ Runs' /\ Rendered' /\ Recorded' /\ SuccessIsDurable'
  BY <1>0 DEF RefreshState, disk, clients, history, Goto, Places, Runs, Rendered,
      Recorded, SuccessIsDurable, Prepared
<1> QED
  BY <1>1, <1>2, <1>3 DEF IInv

\* A success is published with its receipt on disk.
LEMMA RespondKeeps ==
    ASSUME IInv, Respond
    PROVE  IInv'
<1>0. TypeOK /\ Places /\ Runs /\ AtWork /\ Rendered /\ Recorded /\ SuccessIsDurable
  BY DEF IInv
<1>1. TypeOK'
  BY <1>0 DEF Respond, clients, history, Goto, TypeOK, Calls, PCs
<1>2. Places'
  BY <1>0 DEF Respond, clients, history, Goto, Places, TypeOK, AtWork, Kind, Job,
      Saved, Prepared
<1>3. AtWork'
  BY <1>0 DEF Respond, clients, history, Goto, AtWork, Kind, Job, Saved, Prepared
<1>4. SuccessIsDurable'
  <2>1. current \in Ids /\ command[current] \in Commands /\ pc = "responding"
    BY <1>0 DEF Respond, TypeOK, Places, AtWork
  <2>2. Fingerprint(command[current]) # NoReceipt.of
    BY <2>1, Types DEF NoReceipt, ReadKinds, WriteKinds
  <2>3. ASSUME Kind \in WriteKinds
        PROVE  /\ Saved.of = Fingerprint(command[current])
               /\ applied[Saved.by] = 1
               /\ Saved.by \in backups \/ (Saved.by \in bare /\ Kind = "create")
    <3>1. Saved.of = Fingerprint(command[current]) /\ command[current].key \in Keys
      BY <1>0, <2>1, <2>3, Types DEF AtWork, Kind
    <3>2. Fingerprint(command[current])[1] = Kind
      BY DEF Fingerprint, Kind
    <3> QED
      BY <1>0, <2>2, <3>1, <3>2 DEF Recorded, Saved
  <2> QED
    BY <1>0, <2>1, <2>3 DEF Respond, Goto, clients, history, SuccessIsDurable, TypeOK,
        Kind, Saved
<1>5. Runs' /\ Rendered' /\ Recorded'
  BY <1>0 DEF Respond, clients, history, Goto, Runs, Rendered, Recorded, Prepared
<1> QED
  BY <1>1, <1>2, <1>3, <1>4, <1>5 DEF IInv

\* The claimed file is removed and the loop lets go of the command.
LEMMA FinishKeeps ==
    ASSUME IInv, Finish
    PROVE  IInv'
<1>0. TypeOK /\ Places /\ Runs /\ AtWork /\ Rendered /\ Recorded /\ SuccessIsDurable
  BY DEF IInv
<1>1. TypeOK'
  BY <1>0 DEF Finish, clients, history, Goto, NextIteration, TypeOK, Calls, PCs
<1>2. Places'
  BY <1>0 DEF Finish, clients, history, Goto, NextIteration, Places
<1>3. AtWork'
  BY <1>0 DEF Finish, clients, history, Goto, NextIteration, AtWork, Kind, Job,
      Saved, Prepared
<1>4. Runs' /\ Rendered' /\ Recorded' /\ SuccessIsDurable'
  BY <1>0 DEF Finish, clients, history, Goto, NextIteration, Runs, Rendered,
      Recorded, SuccessIsDurable, Prepared
<1> QED
  BY <1>1, <1>2, <1>3, <1>4 DEF IInv

\* An error may replace a success and claims nothing.
LEMMA RespondErrorKeeps ==
    ASSUME IInv, RespondError
    PROVE  IInv'
<1>0. TypeOK /\ Places /\ Runs /\ AtWork /\ Rendered /\ Recorded /\ SuccessIsDurable
  BY DEF IInv
<1>1. TypeOK'
  BY <1>0 DEF RespondError, clients, history, Goto, TypeOK, Calls, PCs
<1>2. Places'
  BY <1>0 DEF RespondError, clients, history, Goto, Places, TypeOK, AtWork, Kind,
      Job, Saved, Prepared
<1>3. AtWork'
  BY <1>0 DEF RespondError, clients, history, Goto, AtWork, Kind, Job, Saved,
      Prepared
<1>4. SuccessIsDurable'
  BY <1>0 DEF RespondError, clients, history, Goto, SuccessIsDurable
<1>5. Runs' /\ Rendered' /\ Recorded'
  BY <1>0 DEF RespondError, clients, history, Goto, Runs, Rendered, Recorded,
      Prepared
<1> QED
  BY <1>1, <1>2, <1>3, <1>4, <1>5 DEF IInv

\* The claimed file is moved and the loop lets go of the command.
LEMMA MoveToFailedKeeps ==
    ASSUME IInv, MoveToFailed
    PROVE  IInv'
<1>0. TypeOK /\ Places /\ Runs /\ AtWork /\ Rendered /\ Recorded /\ SuccessIsDurable
  BY DEF IInv
<1>1. TypeOK'
  BY <1>0 DEF MoveToFailed, clients, history, NextIteration, TypeOK, Calls, PCs,
      AtWork, Kind, Job, Saved, Prepared
<1>2. Places'
  BY <1>0 DEF MoveToFailed, clients, history, NextIteration, Places
<1>3. AtWork'
  BY <1>0 DEF MoveToFailed, clients, history, NextIteration, AtWork, Kind, Job,
      Saved, Prepared
<1>4. Runs' /\ Rendered' /\ Recorded' /\ SuccessIsDurable'
  BY <1>0 DEF MoveToFailed, clients, history, NextIteration, Runs, Rendered,
      Recorded, SuccessIsDurable, Prepared
<1> QED
  BY <1>1, <1>2, <1>3, <1>4 DEF IInv

\* The claimed file stays where no loop looks again.
LEMMA BridgeCrashKeeps ==
    ASSUME IInv, BridgeCrash
    PROVE  IInv'
<1>0. TypeOK /\ Places /\ Runs /\ AtWork /\ Rendered /\ Recorded /\ SuccessIsDurable
  BY DEF IInv
<1>1. TypeOK'
  BY <1>0 DEF BridgeCrash, disk, clients, history, TypeOK, Calls, PCs
<1>2. AtWork'
  BY <1>0 DEF BridgeCrash, disk, clients, history, AtWork, Kind, Job, Saved,
      Prepared
<1>3. Places' /\ Runs' /\ Rendered' /\ Recorded' /\ SuccessIsDurable'
  BY <1>0 DEF BridgeCrash, disk, clients, history, Places, Runs, Rendered,
      Recorded, SuccessIsDurable, Prepared
<1> QED
  BY <1>1, <1>2, <1>3 DEF IInv


-----------------------------------------------------------------------------
(* The invariant and what follows from it *)

\* The earlier session left for every job that it prepared a receipt under a key
\* of its own.
LEMMA InitEstablishes ==
    ASSUME Init
    PROVE  IInv
<1>1. PICK key \in Injection(Earlier, Keys) :
          /\ receipts = [k \in Keys |->
                IF \E i \in Earlier : key[i] = k
                THEN PreparedBy(CHOOSE i \in Earlier : key[i] = k) ELSE NoReceipt]
          /\ command = [i \in Ids |->
                IF i \in Earlier THEN [kind |-> "prepare", key |-> key[i], job |-> None]
                ELSE NoCommand]
  BY DEF Init
<1>2. /\ key \in [Earlier -> Keys]
      /\ \A i, j \in Earlier : key[i] = key[j] => i = j
  BY DEF Injection, IsInjective
<1>3. /\ \A i \in Earlier : receipts[key[i]] = PreparedBy(i)
      /\ \A k \in Keys :
            receipts[k] # NoReceipt => \E i \in Earlier : receipts[k] = PreparedBy(i)
  BY <1>1, <1>2
<1>4. \A i \in Earlier : i \in Ids /\ command[i] \in Commands /\ PreparedBy(i) \in Receipts
                         /\ Fingerprint(command[i]) = PreparedBy(i).of
  <2> SUFFICES ASSUME NEW i \in Earlier
               PROVE  i \in Ids /\ command[i] \in Commands /\ PreparedBy(i) \in Receipts
                      /\ Fingerprint(command[i]) = PreparedBy(i).of
    OBVIOUS
  <2>1. i \in Ids /\ "prepare" \in Kinds /\ key[i] \in Keys
    BY <1>2, EarlierAssumption
  <2>2. command[i] = [kind |-> "prepare", key |-> key[i], job |-> None]
    BY <1>1, <2>1
  <2>3. command[i] \in Commands
    BY <2>1, <2>2 DEF Commands
  <2>4. Fingerprint(command[i]) = <<"prepare", None>>
    BY <2>2 DEF Fingerprint
  <2>5. PreparedBy(i) \in Receipts
    BY <2>1, <2>3, <2>4, Types DEF PreparedBy
  <2> QED
    BY <2>1, <2>3, <2>4, <2>5 DEF PreparedBy
<1>5. TypeOK
  <2>1. receipts \in [Keys -> Receipts \cup {NoReceipt}]
    <3>1. \A k \in Keys : receipts[k] \in Receipts \cup {NoReceipt}
      BY <1>3, <1>4
    <3> QED
      BY <1>1, <3>1
  <2>2. command \in [Ids -> Commands \cup {NoCommand}]
    BY <1>1, <1>4
  <2> QED
    BY <2>1, <2>2, EarlierAssumption DEF Init, TypeOK, Calls, PCs
<1>6. Places /\ Runs /\ AtWork /\ Rendered
  BY <1>4 DEF Init, Places, Runs, AtWork, Rendered
<1>7. Recorded
  BY <1>3, <1>4, EarlierAssumption DEF Init, Recorded, PreparedBy
<1>8. SuccessIsDurable
  <2> SUFFICES ASSUME NEW id \in Ids, "success" \in {response[id], call[id]}
               PROVE  /\ receipts[command[id].key].of = Fingerprint(command[id])
                      /\ receipts[command[id].key].by \in backups
                      /\ applied[receipts[command[id].key].by] = 1
    BY DEF SuccessIsDurable
  <2>1. id \in Earlier
    BY DEF Init
  <2>2. command[id].key = key[id]
    BY <1>1, <2>1
  <2>3. receipts[command[id].key] = PreparedBy(id) /\ PreparedBy(id).by = id
    BY <1>3, <2>1, <2>2 DEF PreparedBy
  <2> QED
    BY <1>4, <2>1, <2>3 DEF Init
<1> QED
  BY <1>5, <1>6, <1>7, <1>8 DEF IInv

\* Every step of the queue, of a client or of the user keeps the invariant.
LEMMA NextKeeps ==
    ASSUME IInv, [Next]_vars
    PROVE  IInv'
<1>1. CASE UNCHANGED vars
  BY <1>1 DEF vars, disk, clients, bridge, history, IInv, TypeOK, Places, Runs, AtWork,
      Rendered, Recorded, SuccessIsDurable, Kind, Job, Saved, Prepared
<1>2. ASSUME NEW id \in Ids, ClientStep(id) \/ ClientCrash(id) \/ Expire(id)
      PROVE  IInv'
  BY <1>2, SubmitKeeps, EnqueueKeeps, ReceiveResponseKeeps, RaiseKeeps,
      ClientCrashKeeps, ExpireKeeps DEF ClientStep
<1>3. CASE StartBridge \/ BridgeStep \/ BridgeCrash
  BY <1>3, StartBridgeKeeps, BridgeCrashKeeps, ClaimKeeps, RefuseCommandKeeps,
      AnswerReadKeeps, ReplayKeeps, BackUpKeeps, SkipBackUpKeeps, MutateKeeps,
      ReserveRenderStartKeeps,
      StartRenderingKeeps, WriteReceiptKeeps, RefreshStateKeeps, RespondKeeps,
      FinishKeeps, RespondErrorKeeps, MoveToFailedKeeps DEF BridgeStep
<1> QED
  BY <1>1, <1>2, <1>3 DEF Next

\* What a command did, what is on record and where it is on its way agree in
\* every state, whichever processes died before (ResolveBridge.py, client.py).
THEOREM QueueInvariant == Spec => []IInv
<1>1. Init => IInv
  BY InitEstablishes
<1>2. IInv /\ [Next]_vars => IInv'
  BY NextKeeps
<1> QED
  BY <1>1, <1>2, PTL DEF Spec

\* The types of the files, calls and steps of the queue.
THEOREM QueueTypes == Spec => []TypeOK
<1>1. IInv => TypeOK
  BY DEF IInv
<1> QED
  BY <1>1, QueueInvariant, PTL

\* Whatever is retried, restarted or asked for under other keys, a command runs
\* at most once, audited and in time, and a job renders at most once, prepared
\* (run_persistent_bridge, _reserve_render_start).
THEOREM ExecutedOnceHolds == Spec => []ExecutedOnce
<1>1. IInv => ExecutedOnce
  <2> SUFFICES ASSUME IInv PROVE ExecutedOnce
    OBVIOUS
  <2>0. TypeOK /\ Places /\ Runs /\ Rendered
    BY DEF IInv
  <2>1. ASSUME NEW id \in Ids
        PROVE  /\ applied[id] <= 1
               /\ applied[id] > 0 => id \in audited \ expired /\ call[id] # "not_queued"
    BY <2>0 DEF Runs, Places
  <2>2. ASSUME NEW job \in Ids
        PROVE  /\ renders[job] <= 1
               /\ renders[job] > 0 =>
                     \E k \in Keys : receipts[k] = [of |-> <<"prepare", None>>, by |-> job]
    <3>1. renders[job] <= 1 /\ (renders[job] > 0 => Prepared(job))
      BY <2>0 DEF Rendered
    <3>2. ASSUME NEW k \in Keys, receipts[k].of[1] = "prepare", receipts[k].by = job
          PROVE  receipts[k] = [of |-> <<"prepare", None>>, by |-> job]
      <4>1. receipts[k] \in Receipts
        BY <2>0, <3>2 DEF TypeOK, NoReceipt
      <4>2. PICK c \in Commands : receipts[k].of = Fingerprint(c)
        BY <4>1, Types
      <4>3. c.kind = "prepare" /\ receipts[k].of = <<c.kind, c.job>>
        BY <3>2, <4>2 DEF Fingerprint
      <4>4. c.job = None
        BY <4>2, <4>3 DEF Commands, ReadKinds
      <4> QED
        BY <3>2, <4>1, <4>3, <4>4 DEF Receipts
    <3> QED
      BY <3>1, <3>2 DEF Prepared
  <2> QED
    BY <2>1, <2>2 DEF ExecutedOnce
<1> QED
  BY <1>1, QueueInvariant, PTL

\* A caller that was told of a success finds the receipt, the backup and the one
\* execution behind it (_execute_write_command).
THEOREM SuccessIsDurableHolds == Spec => []SuccessIsDurable
<1>1. IInv => SuccessIsDurable
  BY DEF IInv
<1> QED
  BY <1>1, QueueInvariant, PTL

\* The receipt of a key is never written again, and nothing is changed under a
\* key that has one: a retry that comes late is answered from the receipt.
THEOREM SettledKeyIsFinalHolds == Spec => SettledKeyIsFinal
<1> DEFINE Final == \A k \in Keys : receipts[k] # NoReceipt =>
                        /\ receipts'[k] = receipts[k]
                        /\ \A id \in Ids : command[id].key = k => applied'[id] = applied[id]
<1>1. IInv /\ [Next]_vars => [Final]_vars
  <2> SUFFICES ASSUME IInv, [Next]_vars PROVE Final
    OBVIOUS
  <2>0. TypeOK /\ Places /\ AtWork
    BY DEF IInv
  <2>1. CASE WriteReceipt
    BY <2>0, <2>1 DEF WriteReceipt, history, TypeOK, AtWork, Saved
  <2>2. CASE Mutate
    BY <2>0, <2>2 DEF Mutate, disk, TypeOK, AtWork, Saved
  <2>3. CASE StartRendering
    BY <2>0, <2>3 DEF StartRendering, disk, TypeOK, AtWork, Saved
  <2>4. CASE UNCHANGED <<receipts, applied>>
    BY <2>4
  <2>5. WriteReceipt \/ Mutate \/ StartRendering \/ UNCHANGED <<receipts, applied>>
    <3>1. ASSUME NEW id \in Ids, ClientStep(id) \/ ClientCrash(id) \/ Expire(id)
          PROVE  UNCHANGED <<receipts, applied>>
      BY <3>1 DEF ClientStep, Submit, Enqueue, ReceiveResponse, Raise, ClientCrash,
          Expire, disk, history
    <3>2. CASE StartBridge \/ BridgeCrash
      BY <3>2 DEF StartBridge, BridgeCrash, disk, history
    <3>3. CASE BridgeStep
      BY <3>3 DEF BridgeStep, Claim, RefuseCommand, AnswerRead, Replay, BackUp,
          SkipBackUp, ReserveRenderStart, RefreshState, Respond, Finish, RespondError, MoveToFailed,
          disk, history
    <3>4. CASE UNCHANGED vars
      BY <3>4 DEF vars, disk, history
    <3> QED
      BY <3>1, <3>2, <3>3, <3>4 DEF Next
  <2> QED
    BY <2>1, <2>2, <2>3, <2>4, <2>5
<1> QED
  BY <1>1, QueueInvariant, PTL DEF Spec, SettledKeyIsFinal
=============================================================================
