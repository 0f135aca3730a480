------------------------ MODULE MarkerMailbox_proofs ------------------------
(***************************************************************************)
(* Proofs about MarkerMailbox for every set of clients, keys, projects and *)
(* ids.  IInv of MarkerMailboxInvariant is inductive; the theorems at the  *)
(* end follow from it.  There is one lemma per action, and in it one step  *)
(* per conjunct of IInv that the action can disturb.                       *)
(***************************************************************************)
EXTENDS MarkerMailboxInvariant, TLAPS

-----------------------------------------------------------------------------
(* What the types say of single requests, receipts and packets. *)

\* The request of a write names a key, a kind and a project.
LEMMA RequestType ==
    ASSUME TypeOK, NEW c \in Clients, IsWrite(c)
    PROVE  /\ request[c].key \in Keys
           /\ request[c].kind \in WriteKinds
           /\ request[c].project \in Projects
BY DEF TypeOK, IsWrite, Requests, NoRequest, Writes

\* A receipt is absent or complete.
LEMMA ReceiptType ==
    ASSUME TypeOK, NEW k \in Keys
    PROVE  /\ receipts[k].status \in {"absent", "pending", "completed", "rejected"}
           /\ receipts[k].status = "absent" <=> receipts[k].id = None
           /\ receipts[k].status = "absent" => receipts[k] = NoReceipt
           /\ receipts[k].status # "absent" => receipts[k] \in Receipt
           /\ receipts[k] \in Receipt =>
                /\ receipts[k].id \in Ids
                /\ receipts[k].kind \in WriteKinds
                /\ receipts[k].project \in Projects
BY NullAssumption DEF TypeOK, Receipt, NoReceipt

\* A slot is empty or holds a whole packet.
LEMMA PacketType ==
    ASSUME TypeOK
    PROVE  /\ inbox.id = None <=> inbox = EmptySlot
           /\ inbox.id # None => inbox \in Packets /\ inbox.id \in Ids
           /\ packet.id = None <=> packet = EmptySlot
           /\ packet.id # None => packet \in Packets /\ packet.id \in Ids
           /\ inbox.kind \in Writes =>
                inbox.key \in Keys /\ inbox.project \in Projects /\ inbox.id \in Ids
           /\ packet.kind \in Writes =>
                packet.key \in Keys /\ packet.project \in Projects /\ packet.id \in Ids
BY NullAssumption DEF TypeOK, Packets, EmptySlot, Writes

\* The receipt of the lock owner's own write, between Begin and Close.
LEMMA SettleType ==
    ASSUME IInv, NEW c \in Clients, IsWrite(c), pc[c] \in {"begun", "waiting"},
           NEW status \in {"completed", "rejected"}, Settle(c, status)
    PROVE  /\ receipts' \in [Keys -> Receipt \cup {NoReceipt}]
           /\ \A k \in Keys : /\ receipts'[k].id = receipts[k].id
                              /\ receipts'[k].kind = receipts[k].kind
                              /\ receipts'[k].project = receipts[k].project
                              /\ k # request[c].key => receipts'[k] = receipts[k]
           /\ receipts'[request[c].key].status = status
           /\ receipts[request[c].key].status = "pending"
           /\ receipts[request[c].key].id = command_id[c]
<1>1. TypeOK /\ CallInv
  BY DEF IInv
<1>2. Saved(c).status = "pending" /\ Saved(c).id = command_id[c] /\ Saved(c) \in Receipt
  BY <1>1, RequestType, ReceiptType DEF CallInv, CallOf, Saved
<1> QED
  BY <1>1, <1>2, RequestType DEF Settle, Receipt, Saved, TypeOK

\* The receipt that Begin makes durable.
BeginsReceipt(c) ==
    receipts' = [receipts EXCEPT ![request[c].key] =
        [status |-> "pending", id |-> command_id[c],
         kind |-> request[c].kind, project |-> request[c].project]]

\* WriteReceipt.begin writes one receipt of the right shape.
LEMMA BeginType ==
    ASSUME IInv, NEW c \in Clients, IsWrite(c), pc[c] = "prepared", BeginsReceipt(c)
    PROVE  /\ receipts' \in [Keys -> Receipt \cup {NoReceipt}]
           /\ \A k \in Keys : k # request[c].key => receipts'[k] = receipts[k]
           /\ request[c].key \in Keys
           /\ receipts'[request[c].key].status = "pending"
           /\ receipts'[request[c].key].id = command_id[c]
           /\ receipts'[request[c].key].kind = request[c].kind
           /\ receipts'[request[c].key].project = request[c].project
           /\ receipts[request[c].key] = NoReceipt
           /\ applied[request[c].key] = 0
           /\ command_id[c] \in Ids /\ Untouched(command_id[c])
           /\ \A k \in Keys : receipts[k].id # command_id[c]
<1>1. TypeOK /\ CallInv /\ EffectInv
  BY DEF IInv
<1>2. request[c].key \in Keys /\ Saved(c).status = "absent"
  BY <1>1, RequestType DEF CallInv, CallOf
<1>3. receipts[request[c].key] = NoReceipt /\ receipts[request[c].key].id = None
  BY <1>1, <1>2, ReceiptType DEF Saved
<1>4. applied[request[c].key] = 0
  BY <1>1, <1>2, <1>3 DEF EffectInv, TypeOK
<1>5. command_id[c] \in Ids /\ Untouched(command_id[c])
      /\ \A k \in Keys : receipts[k].id # command_id[c]
  BY <1>1 DEF CallInv, CallOf
<1> QED
  BY <1>1, <1>2, <1>3, <1>4, <1>5, RequestType DEF BeginsReceipt, Receipt, TypeOK

-----------------------------------------------------------------------------
(* Groups of conjuncts that whole classes of actions leave alone. *)

Shared == <<receipts, inbox, exports, backups, consumed, phase, packet, project,
            reply, handled, started, items, twins, applied>>

\* Steps that only move a client, the lock, the clock or the user.
LEMMA SharedStep ==
    ASSUME IInv, UNCHANGED Shared
    PROVE  (ReceiptInv /\ PacketInv /\ LoopInv /\ EffectInv /\ ExportInv
            /\ SettledInv /\ RenderInv)'
<1>0. ReceiptInv /\ PacketInv /\ LoopInv /\ EffectInv /\ ExportInv /\ SettledInv
      /\ RenderInv
  BY DEF IInv
<1>1. (ReceiptInv /\ PacketInv /\ LoopInv)'
  BY <1>0 DEF Shared, ReceiptInv, SinglePending, PacketInv, Recorded, LoopInv
<1>2. EffectInv'
  BY <1>0 DEF Shared, EffectInv, BeforeEffect, RefusedLate
<1>3. ExportInv'
  BY <1>0 DEF Shared, ExportInv, Finished, RefusedLate
<1>4. SettledInv'
  BY <1>0 DEF Shared, SettledInv, RejectionNeedsRepeatedCheck,
              CompletedTookEffect, Finished
<1>5. RenderInv'
  BY <1>0 DEF Shared, RenderInv, RenderStartedOnce
<1> QED
  BY <1>1, <1>2, <1>3, <1>4, <1>5

\* Steps of the bridge.
LEMMA LockUnchanged ==
    ASSUME IInv, UNCHANGED <<client_lock, pc, request, command_id, acknowledged>>
    PROVE  LockInv'
BY DEF IInv, LockInv

-----------------------------------------------------------------------------
(* Client steps. *)

\* A client that starts a call has neither the lock nor a command.
LEMMA EnterStep ==
    ASSUME IInv, NEW c \in Clients, Enter(c)
    PROVE  IInv'
<1>0. TypeOK /\ LockInv /\ UsedInv /\ CallInv /\ ReceiptInv /\ PacketInv
      /\ LoopInv /\ EffectInv /\ ExportInv /\ SettledInv /\ RenderInv
  BY DEF IInv
<1> USE DEF TypeOK, files, client, native, world, Goto, Writes
<1>1. TypeOK'
  BY <1>0 DEF Enter, OrNone, PCs, Phases, Codes
<1>2. LockInv'
  BY <1>0 DEF Enter, LockInv, NoRequest
<1>3. UsedInv'
  BY <1>0 DEF Enter, UsedInv
<1>4. CallInv'
  BY <1>0, PacketType DEF Enter, CallInv, CallOf, Untouched, IsWrite, Saved,
     SameFingerprint, LockInv, UsedInv
<1>5. UNCHANGED Shared
  BY DEF Enter, Shared
<1> QED
  BY <1>1, <1>2, <1>3, <1>4, <1>5, SharedStep DEF IInv

\* client.lock gets at most one owner.
LEMMA AcquireStep ==
    ASSUME IInv, NEW c \in Clients, Acquire(c)
    PROVE  IInv'
<1>0. TypeOK /\ LockInv /\ UsedInv /\ CallInv /\ ReceiptInv /\ PacketInv
      /\ LoopInv /\ EffectInv /\ ExportInv /\ SettledInv /\ RenderInv
  BY DEF IInv
<1> USE DEF TypeOK, files, client, native, world, Goto, Writes
<1>1. TypeOK'
  BY <1>0 DEF Acquire, Return, OrNone, PCs
<1>2. LockInv'
  BY <1>0, NullAssumption DEF Acquire, Return, LockInv, NoRequest, OrNone
<1>3. UsedInv'
  BY <1>0 DEF Acquire, Return, UsedInv
<1>4. CallInv'
  BY <1>0 DEF Acquire, Return, CallInv, CallOf, Untouched, IsWrite, Saved,
     SameFingerprint
<1>5. UNCHANGED Shared
  BY DEF Acquire, Shared, Return
<1> QED
  BY <1>1, <1>2, <1>3, <1>4, <1>5, SharedStep DEF IInv

\* A resumed call waits for the command its pending receipt names.
LEMMA ResumeStep ==
    ASSUME IInv, NEW c \in Clients, Resume(c)
    PROVE  IInv'
<1>0. TypeOK /\ LockInv /\ UsedInv /\ CallInv /\ ReceiptInv /\ PacketInv
      /\ LoopInv /\ EffectInv /\ ExportInv /\ SettledInv /\ RenderInv
  BY DEF IInv
<1> USE DEF TypeOK, files, client, native, world, Goto, Writes
<1>1. TypeOK'
  BY <1>0, PacketType, ReceiptType, RequestType DEF Resume, OrNone, PCs,
     Phases, Codes, Saved, LoopInv, IsWrite
<1>2. LockInv'
  BY <1>0 DEF Resume, LockInv, NoRequest
<1>3. UsedInv'
  BY SMTT(30), <1>0, NullAssumption, PacketType, ReceiptType, RequestType DEF Resume,
     UsedInv, LoopInv, EmptySlot, IsWrite, Saved
<1>4. CallInv'
  BY <1>0 DEF Resume, CallInv, CallOf, Untouched, IsWrite, Saved,
     SameFingerprint
<1>5. UNCHANGED Shared
  BY DEF Resume, Shared
<1> QED
  BY <1>1, <1>2, <1>3, <1>4, <1>5, SharedStep DEF IInv

\* A replay removes at most the slot of the completed command.
LEMMA ReplayStep ==
    ASSUME IInv, NEW c \in Clients, Replay(c)
    PROVE  IInv'
<1>0. TypeOK /\ LockInv /\ UsedInv /\ CallInv /\ ReceiptInv /\ PacketInv
      /\ LoopInv /\ EffectInv /\ ExportInv /\ SettledInv /\ RenderInv
  BY DEF IInv
<1> USE DEF TypeOK, files, client, native, world, Goto, Writes
<1>1. TypeOK'
  BY <1>0 DEF Replay, OrNone, PCs, Phases, Codes
<1>2. LockInv'
  BY <1>0 DEF Replay, LockInv, NoRequest
<1>3. UsedInv'
  BY <1>0, NullAssumption, PacketType DEF Replay, UsedInv, EmptySlot
<1>4. CallInv'
  BY <1>0, NullAssumption, PacketType DEF Replay, CallInv, CallOf, Untouched,
     IsWrite, Saved, SameFingerprint, EmptySlot
<1>5. ReceiptInv'
  BY <1>0 DEF Replay, ReceiptInv, SinglePending
<1>6. PacketInv'
  BY <1>0, NullAssumption, PacketType DEF Replay, PacketInv, Recorded,
     EmptySlot
<1>7. LoopInv'
  BY <1>0 DEF Replay, LoopInv
<1>8. EffectInv'
  BY <1>0 DEF Replay, EffectInv, BeforeEffect, RefusedLate
<1>9. ExportInv'
  BY <1>0, PacketType DEF Replay, ExportInv, Finished, RefusedLate, LoopInv,
     EffectInv, CallInv, CallOf, Untouched
<1>10. SettledInv'
  BY <1>0, NullAssumption, PacketType, ReceiptType, RequestType DEF Replay,
     SettledInv, Finished, RejectionNeedsRepeatedCheck,
     CompletedTookEffect, ExportInv, CallInv, CallOf, Untouched, LoopInv,
     EmptySlot, IsWrite, Saved
<1>11. RenderInv'
  BY <1>0 DEF Replay, RenderInv, RenderStartedOnce
<1> QED
  BY <1>1, <1>2, <1>3, <1>4, <1>5, <1>6, <1>7, <1>8, <1>9, <1>10, <1>11 DEF
     IInv

\* A refused call changes no file.
LEMMA RefuseStep ==
    ASSUME IInv, NEW c \in Clients, Refuse(c)
    PROVE  IInv'
<1>0. TypeOK /\ LockInv /\ UsedInv /\ CallInv /\ ReceiptInv /\ PacketInv
      /\ LoopInv /\ EffectInv /\ ExportInv /\ SettledInv /\ RenderInv
  BY DEF IInv
<1> USE DEF TypeOK, files, client, native, world, Goto, Writes
<1>1. TypeOK'
  BY <1>0 DEF Refuse, OrNone, PCs, Phases, Codes
<1>2. LockInv'
  BY <1>0 DEF Refuse, LockInv, NoRequest
<1>3. UsedInv'
  BY <1>0 DEF Refuse, UsedInv
<1>4. CallInv'
  BY <1>0 DEF Refuse, CallInv, CallOf, Untouched, IsWrite, Saved,
     SameFingerprint
<1>5. UNCHANGED Shared
  BY DEF Refuse, Shared
<1> QED
  BY <1>1, <1>2, <1>3, <1>4, <1>5, SharedStep DEF IInv

\* The id that is drawn has been seen by nobody.
LEMMA PrepareStep ==
    ASSUME IInv, NEW c \in Clients, Prepare(c)
    PROVE  IInv'
<1>0. TypeOK /\ LockInv /\ UsedInv /\ CallInv /\ ReceiptInv /\ PacketInv
      /\ LoopInv /\ EffectInv /\ ExportInv /\ SettledInv /\ RenderInv
  BY DEF IInv
<1> USE DEF TypeOK, files, client, native, world, Goto, Writes
<1>1. TypeOK'
  BY <1>0 DEF Prepare, NewCommand, OrNone, PCs
<1>2. LockInv'
  BY <1>0 DEF Prepare, NewCommand, LockInv, NoRequest
<1>3. UsedInv'
  BY <1>0, NullAssumption, PacketType DEF Prepare, NewCommand, UsedInv,
     EmptySlot
<1>4. CallInv'
  BY <1>0, NullAssumption, PacketType, ReceiptType, RequestType DEF Prepare,
     NewCommand, CallInv, CallOf, Untouched, IsWrite, Saved, SameFingerprint,
     LockInv, UsedInv, EmptySlot
<1>5. ReceiptInv'
  BY <1>0 DEF Prepare, NewCommand, ReceiptInv, SinglePending
<1>6. PacketInv'
  BY <1>0, NullAssumption, PacketType DEF Prepare, NewCommand, PacketInv,
     Recorded, EmptySlot
<1>7. LoopInv'
  BY <1>0 DEF Prepare, NewCommand, LoopInv
<1>8. EffectInv'
  BY <1>0 DEF Prepare, NewCommand, EffectInv, BeforeEffect, RefusedLate
<1>9. ExportInv'
  BY <1>0, PacketType DEF Prepare, NewCommand, ExportInv, Finished,
     RefusedLate, LoopInv, EffectInv, CallInv, CallOf, Untouched
<1>10. SettledInv'
  BY <1>0, NullAssumption, PacketType, ReceiptType, RequestType DEF Prepare,
     NewCommand, SettledInv, Finished, RejectionNeedsRepeatedCheck,
     CompletedTookEffect, ExportInv, CallInv, CallOf, Untouched, LoopInv,
     EmptySlot, IsWrite, Saved
<1>11. RenderInv'
  BY <1>0 DEF Prepare, NewCommand, RenderInv, RenderStartedOnce
<1> QED
  BY <1>1, <1>2, <1>3, <1>4, <1>5, <1>6, <1>7, <1>8, <1>9, <1>10, <1>11 DEF
     IInv

\* The pending receipt is the only one, and of a command nobody has seen.
LEMMA BeginStep ==
    ASSUME IInv, NEW c \in Clients, Begin(c)
    PROVE  IInv'
<1>0. TypeOK /\ LockInv /\ UsedInv /\ CallInv /\ ReceiptInv /\ PacketInv
      /\ LoopInv /\ EffectInv /\ ExportInv /\ SettledInv /\ RenderInv
  BY DEF IInv
<1> USE DEF TypeOK, files, client, native, world, Goto, Writes
<1>1. TypeOK'
  BY SMTT(30), <1>0, RequestType, ReceiptType, PacketType, NullAssumption DEF Begin,
     AnyPending, OrNone, PCs, Phases, Codes, Receipt, Requests, NoRequest,
     NoReceipt, Packets, EmptySlot, Exports, LockInv, CallInv, CallOf,
     LoopInv, IsWrite, Saved, SameFingerprint
<1>2. LockInv'
  BY <1>0 DEF Begin, AnyPending, LockInv, NoRequest
<1>3. UsedInv'
  BY <1>0 DEF Begin, AnyPending, UsedInv
<1>4. CallInv'
  <2>1. CASE UNCHANGED receipts
    BY <2>1, <1>0, ReceiptType, RequestType DEF Begin, CallInv, CallOf, Untouched, IsWrite, Saved,
          SameFingerprint
  <2>2. CASE IsWrite(c) /\ BeginsReceipt(c) /\ ~AnyPending
    <3> DEFINE key == request[c].key
    <3>1. /\ key \in Keys
          /\ \A k \in Keys : k # key => receipts'[k] = receipts[k]
          /\ receipts'[key].status = "pending" /\ receipts'[key].id = command_id[c]
          /\ receipts'[key].kind = request[c].kind
          /\ receipts'[key].project = request[c].project
          /\ receipts[key] = NoReceipt /\ applied[key] = 0
          /\ command_id[c] \in Ids /\ Untouched(command_id[c])
          /\ \A k \in Keys : receipts[k].id # command_id[c]
      BY <2>2, BeginType DEF Begin
    <3>2. UNCHANGED <<inbox, exports, backups, packet, handled, applied, request,
                      command_id, acknowledged>>
      BY DEF Begin
    <3>3. pc[c] = "prepared" /\ pc' = [pc EXCEPT ![c] = "begun"]
      BY <2>2, <3>1 DEF Begin
    <3>4. ASSUME NEW d \in Clients, d # c
          PROVE  pc'[d] = pc[d] /\ pc[d] \in {"idle", "acquiring"}
      BY <1>0, <3>3, <3>4 DEF LockInv
    <3>5. \A d \in Clients : d # c => command_id[d] = None /\ ~acknowledged[d]
      BY <1>0, <3>4 DEF LockInv
    <3>6. ~acknowledged[c] /\ pc'[c] = "begun" /\ IsWrite(c)'
      BY <1>0, <2>2, <3>2, <3>3 DEF LockInv, IsWrite
    <3> HIDE DEF key
    <3>7. \A d \in Clients : d # c =>
            /\ pc'[d] \notin {"prepared", "begun", "waiting"}
            /\ command_id'[d] = None /\ ~acknowledged'[d]
      BY <3>2, <3>4, <3>5
    <3>8. Untouched(command_id[c])' /\ SameFingerprint(c)'
      BY <3>1, <3>2 DEF Untouched, SameFingerprint, Saved, key
    <3>9. Saved(c)'.status = "pending" /\ Saved(c)'.id = command_id'[c]
          /\ applied'[request[c].key] = 0 /\ request' = request
          /\ command_id'[c] \in Ids
      BY <3>1, <3>2 DEF Saved, key
    <3>10. CallOf(c)'
      BY <2>2, <3>1, <3>2, <3>6, <3>8, <3>9 DEF CallOf
    <3>11. ASSUME NEW d \in Clients, d # c PROVE CallOf(d)'
      BY <3>7, <3>11 DEF CallOf
    <3> QED
      BY <3>10, <3>11 DEF CallInv
  <2> QED
    BY <2>1, <2>2 DEF Begin, BeginsReceipt
<1>5. ReceiptInv'
  BY <1>0, PacketType DEF Begin, AnyPending, ReceiptInv, SinglePending,
     CallInv, CallOf
<1>6. PacketInv'
  <2>1. CASE UNCHANGED receipts
    BY <2>1, <1>0 DEF Begin, PacketInv, Recorded
  <2>2. CASE IsWrite(c) /\ BeginsReceipt(c) /\ ~AnyPending
    <3> DEFINE key == request[c].key
    <3>1. /\ key \in Keys
          /\ \A k \in Keys : k # key => receipts'[k] = receipts[k]
          /\ receipts'[key].status = "pending" /\ receipts'[key].id = command_id[c]
          /\ receipts'[key].kind = request[c].kind
          /\ receipts'[key].project = request[c].project
          /\ receipts[key] = NoReceipt /\ applied[key] = 0
          /\ command_id[c] \in Ids /\ Untouched(command_id[c])
          /\ \A k \in Keys : receipts[k].id # command_id[c]
      BY <2>2, BeginType DEF Begin
    <3>2. UNCHANGED <<inbox, exports, backups, consumed, phase, packet, handled,
                      items, twins, applied, project, started>>
      BY DEF Begin
    <3> HIDE DEF key
    <3> QED
      BY <1>0, <3>1, <3>2, PacketType, NullAssumption DEF PacketInv, Recorded, Untouched, NoReceipt
  <2> QED
    BY <2>1, <2>2 DEF Begin, BeginsReceipt
<1>7. LoopInv'
  BY <1>0 DEF Begin, AnyPending, LoopInv
<1>8. EffectInv'
  BY SMTT(30), <1>0, <1>1, RequestType, ReceiptType, PacketType, NullAssumption DEF
     Begin, AnyPending, NoReceipt, NoRequest, EmptySlot, OrNone, Phases,
     Codes, BeforeEffect, RefusedLate, Recorded, IsWrite, Saved,
     SameFingerprint, LockInv, CallInv, CallOf, ReceiptInv, PacketInv,
     LoopInv, EffectInv, ExportInv
<1>9. ExportInv'
  BY <1>0, PacketType DEF Begin, AnyPending, ExportInv, Finished, RefusedLate,
     LoopInv, EffectInv, CallInv, CallOf, Untouched
<1>10. SettledInv'
  <2>1. CASE UNCHANGED receipts
    BY <2>1, <1>0 DEF Begin, SettledInv, Finished, CompletedTookEffect,
          RejectionNeedsRepeatedCheck
  <2>2. CASE IsWrite(c) /\ BeginsReceipt(c) /\ ~AnyPending
    <3> DEFINE key == request[c].key
    <3>1. /\ key \in Keys
          /\ \A k \in Keys : k # key => receipts'[k] = receipts[k]
          /\ receipts'[key].status = "pending" /\ receipts'[key].id = command_id[c]
          /\ receipts'[key].kind = request[c].kind
          /\ receipts'[key].project = request[c].project
          /\ receipts[key] = NoReceipt /\ applied[key] = 0
          /\ command_id[c] \in Ids /\ Untouched(command_id[c])
          /\ \A k \in Keys : receipts[k].id # command_id[c]
      BY <2>2, BeginType DEF Begin
    <3>2. UNCHANGED <<inbox, exports, backups, consumed, phase, packet, handled,
                      items, twins, applied, project, started>>
      BY DEF Begin
    <3> HIDE DEF key
    <3> QED
      BY <1>0, <3>1, <3>2 DEF SettledInv, Finished,
            CompletedTookEffect, RejectionNeedsRepeatedCheck
  <2> QED
    BY <2>1, <2>2 DEF Begin, BeginsReceipt
<1>11. RenderInv'
  <2>1. CASE UNCHANGED receipts
    BY <2>1, <1>0 DEF Begin, RenderInv, RenderStartedOnce
  <2>2. CASE IsWrite(c) /\ BeginsReceipt(c) /\ ~AnyPending
    <3> DEFINE key == request[c].key
    <3>1. /\ key \in Keys
          /\ \A k \in Keys : k # key => receipts'[k] = receipts[k]
          /\ receipts'[key].status = "pending" /\ receipts'[key].id = command_id[c]
          /\ receipts'[key].kind = request[c].kind
          /\ receipts'[key].project = request[c].project
          /\ receipts[key] = NoReceipt /\ applied[key] = 0
          /\ command_id[c] \in Ids /\ Untouched(command_id[c])
          /\ \A k \in Keys : receipts[k].id # command_id[c]
      BY <2>2, BeginType DEF Begin
    <3>2. UNCHANGED <<inbox, exports, backups, consumed, phase, packet, handled,
                      items, twins, applied, project, started>>
      BY DEF Begin
    <3> HIDE DEF key
    <3> QED
      BY <1>0, <3>1, <3>2 DEF RenderInv, RenderStartedOnce
  <2> QED
    BY <2>1, <2>2 DEF Begin, BeginsReceipt
<1> QED
  BY <1>1, <1>2, <1>3, <1>4, <1>5, <1>6, <1>7, <1>8, <1>9, <1>10, <1>11 DEF
     IInv

\* A refused render destination leaves no receipt.
LEMMA RefuseDestinationStep ==
    ASSUME IInv, NEW c \in Clients, RefuseDestination(c)
    PROVE  IInv'
<1>0. TypeOK /\ LockInv /\ UsedInv /\ CallInv /\ ReceiptInv /\ PacketInv
      /\ LoopInv /\ EffectInv /\ ExportInv /\ SettledInv /\ RenderInv
  BY DEF IInv
<1> USE DEF TypeOK, files, client, native, world, Goto, Writes
<1>1. TypeOK'
  BY <1>0 DEF RefuseDestination, OrNone, PCs, Phases, Codes
<1>2. LockInv'
  BY <1>0 DEF RefuseDestination, LockInv, NoRequest
<1>3. UsedInv'
  BY <1>0 DEF RefuseDestination, UsedInv
<1>4. CallInv'
  BY <1>0 DEF RefuseDestination, CallInv, CallOf, Untouched, IsWrite, Saved,
     SameFingerprint
<1>5. UNCHANGED Shared
  BY DEF RefuseDestination, Shared
<1> QED
  BY <1>1, <1>2, <1>3, <1>4, <1>5, SharedStep DEF IInv

\* What is published is the command of the receipt.
LEMMA PublishStep ==
    ASSUME IInv, NEW c \in Clients, Publish(c)
    PROVE  IInv'
<1>0. TypeOK /\ LockInv /\ UsedInv /\ CallInv /\ ReceiptInv /\ PacketInv
      /\ LoopInv /\ EffectInv /\ ExportInv /\ SettledInv /\ RenderInv
  BY DEF IInv
<1> USE DEF TypeOK, files, client, native, world, Goto, Writes
<1>1. TypeOK'
  BY <1>0, RequestType, ReceiptType, PacketType, NullAssumption DEF Publish,
     OrNone, PCs, Phases, Codes, Receipt, Requests, NoRequest, NoReceipt,
     Packets, EmptySlot, Exports, LockInv, CallInv, CallOf, LoopInv, IsWrite,
     Saved, SameFingerprint
<1>2. LockInv'
  BY <1>0 DEF Publish, LockInv, NoRequest
<1>3. UsedInv'
  BY <1>0 DEF Publish, UsedInv
<1>4. CallInv'
  BY <1>0, PacketType DEF Publish, CallInv, CallOf, Untouched, IsWrite,
     Saved, SameFingerprint, LockInv, UsedInv
<1>5. ReceiptInv'
  BY <1>0 DEF Publish, ReceiptInv, SinglePending
<1>6. PacketInv'
  BY <1>0, <1>1, RequestType, ReceiptType, PacketType, NullAssumption DEF
     Publish, NoReceipt, NoRequest, EmptySlot, OrNone, Phases, Codes,
     Recorded, IsWrite, Saved, SameFingerprint, LockInv, UsedInv, CallInv,
     CallOf, ReceiptInv, PacketInv, LoopInv
<1>7. LoopInv'
  BY <1>0 DEF Publish, LoopInv
<1>8. EffectInv'
  BY <1>0 DEF Publish, EffectInv, BeforeEffect, RefusedLate
<1>9. ExportInv'
  BY <1>0, PacketType DEF Publish, ExportInv, Finished, RefusedLate, LoopInv,
     EffectInv, CallInv, CallOf, Untouched
<1>10. SettledInv'
  BY <1>0, <1>1, RequestType, ReceiptType, PacketType, NullAssumption DEF
     Publish, NoReceipt, NoRequest, EmptySlot, OrNone, Phases, Codes,
     BeforeEffect, Finished, Untouched, RefusedLate, Recorded,
     RejectionNeedsRepeatedCheck, CompletedTookEffect, IsWrite, Saved,
     SameFingerprint, LockInv, UsedInv, CallInv, CallOf, ReceiptInv,
     PacketInv, LoopInv, EffectInv, ExportInv, SettledInv
<1>11. RenderInv'
  BY <1>0 DEF Publish, RenderInv, RenderStartedOnce
<1> QED
  BY <1>1, <1>2, <1>3, <1>4, <1>5, <1>6, <1>7, <1>8, <1>9, <1>10, <1>11 DEF
     IInv

\* A command that was not exposed did not run.
LEMMA NotPublishedStep ==
    ASSUME IInv, NEW c \in Clients, NotPublished(c)
    PROVE  IInv'
<1>0. TypeOK /\ LockInv /\ UsedInv /\ CallInv /\ ReceiptInv /\ PacketInv
      /\ LoopInv /\ EffectInv /\ ExportInv /\ SettledInv /\ RenderInv
  BY DEF IInv
<1> USE DEF TypeOK, files, client, native, world, Goto, Writes
<1>1. TypeOK'
  BY <1>0, SettleType DEF NotPublished, PCs
<1>2. LockInv'
  BY <1>0, SettleType, RequestType DEF NotPublished, LockInv, IsWrite, Saved,
     NoRequest
<1>3. UsedInv'
  BY <1>0, SettleType, RequestType DEF NotPublished, UsedInv, IsWrite, Saved
<1>4. CallInv'
  BY <1>0, SettleType, RequestType, PacketType DEF NotPublished, CallInv,
     CallOf, Untouched, IsWrite, Saved, SameFingerprint, LockInv, UsedInv
<1>5. ReceiptInv'
  BY <1>0, SettleType, RequestType DEF NotPublished, ReceiptInv,
     SinglePending, IsWrite, Saved
<1>6. PacketInv'
  BY <1>0, SettleType, RequestType, NullAssumption, PacketType DEF
     NotPublished, PacketInv, Recorded, IsWrite, Saved, EmptySlot
<1>7. LoopInv'
  BY <1>0, SettleType, RequestType DEF NotPublished, LoopInv, IsWrite, Saved
<1>8. EffectInv'
  BY <1>0, SettleType, RequestType, NullAssumption, PacketType DEF
     NotPublished, EffectInv, BeforeEffect, RefusedLate, IsWrite, Saved,
     EmptySlot
<1>9. ExportInv'
  BY <1>0, SettleType, RequestType DEF NotPublished, ExportInv, Finished,
     RefusedLate, IsWrite, Saved
<1>10. SettledInv'
  BY SMTT(30), <1>0, SettleType, RequestType, NullAssumption, PacketType, ReceiptType
     DEF NotPublished, SettledInv, Finished, RejectionNeedsRepeatedCheck,
     CompletedTookEffect, IsWrite, Saved, ExportInv, CallInv, CallOf,
     Untouched, LoopInv, EmptySlot
<1>11. RenderInv'
  BY SMTT(30), <1>0, SettleType, RequestType DEF NotPublished, RenderInv,
     RenderStartedOnce, IsWrite, Saved
<1> QED
  BY <1>1, <1>2, <1>3, <1>4, <1>5, <1>6, <1>7, <1>8, <1>9, <1>10, <1>11 DEF
     IInv

\* An archive with a listed code is the last word on its command.
LEMMA SeeErrorStep ==
    ASSUME IInv, NEW c \in Clients, SeeError(c)
    PROVE  IInv'
<1>0. TypeOK /\ LockInv /\ UsedInv /\ CallInv /\ ReceiptInv /\ PacketInv
      /\ LoopInv /\ EffectInv /\ ExportInv /\ SettledInv /\ RenderInv
  BY DEF IInv
<1> USE DEF TypeOK, files, client, native, world, Goto, Writes
<1>1. TypeOK'
  BY <1>0, SettleType DEF SeeError, PCs
<1>2. LockInv'
  BY <1>0, SettleType, RequestType DEF SeeError, Errors, LockInv, IsWrite,
     Saved, NoRequest
<1>3. UsedInv'
  BY <1>0, SettleType, RequestType DEF SeeError, Errors, UsedInv, IsWrite,
     Saved
<1>4. CallInv'
  BY <1>0, SettleType, RequestType, PacketType DEF SeeError, Errors, CallInv,
     CallOf, Untouched, IsWrite, Saved, SameFingerprint, LockInv, UsedInv
<1>5. ReceiptInv'
  BY <1>0, SettleType, RequestType DEF SeeError, Errors, ReceiptInv,
     SinglePending, IsWrite, Saved
<1>6. PacketInv'
  BY <1>0, SettleType, RequestType, NullAssumption, PacketType DEF SeeError,
     Errors, PacketInv, Recorded, IsWrite, Saved, EmptySlot
<1>7. LoopInv'
  BY <1>0, SettleType, RequestType DEF SeeError, Errors, LoopInv, IsWrite,
     Saved
<1>8. EffectInv'
  BY <1>0, SettleType, RequestType, NullAssumption, PacketType DEF SeeError,
     Errors, EffectInv, BeforeEffect, RefusedLate, IsWrite, Saved, EmptySlot
<1>9. ExportInv'
  BY <1>0, SettleType, RequestType DEF SeeError, Errors, ExportInv, Finished,
     RefusedLate, IsWrite, Saved
<1>10. SettledInv'
  <2>1. CASE UNCHANGED receipts
    BY <2>1, <1>0 DEF SeeError, SettledInv, Finished, CompletedTookEffect,
          RejectionNeedsRepeatedCheck
  <2>2. ASSUME NEW e \in exports, e.id = command_id[c], e.code = "rejected",
               IsWrite(c), Settle(c, "rejected")
        PROVE  SettledInv'
    <3>1. Finished(receipts[request[c].key].id) /\ request[c].key \in Keys
      BY <1>0, <2>2, SettleType, RequestType DEF SeeError, ExportInv
    <3>2. applied[request[c].key] = 0 \/ RefusedLate(request[c].key)
      BY <1>0, <2>2, SettleType, RequestType DEF SeeError, ExportInv
    <3>3. UNCHANGED <<inbox, exports, backups, consumed, phase, packet, handled,
                      items, twins, applied>>
      BY DEF SeeError
    <3>4. pc[c] = "waiting"
      BY DEF SeeError
    <3>5. \A k \in Keys :
            /\ receipts'[k].id = receipts[k].id
            /\ receipts'[k].kind = receipts[k].kind
            /\ receipts'[k].project = receipts[k].project
            /\ k # request[c].key => receipts'[k] = receipts[k]
            /\ k = request[c].key => receipts'[k].status = "rejected"
      BY <2>2, <3>4, SettleType
    <3> QED
      BY <1>0, <3>1, <3>2, <3>3, <3>5 DEF SettledInv, Finished, RefusedLate,
            CompletedTookEffect, RejectionNeedsRepeatedCheck
  <2> QED
    BY <2>1, <2>2 DEF SeeError, Errors
<1>11. RenderInv'
  BY <1>0, SettleType, RequestType DEF SeeError, Errors, RenderInv,
     RenderStartedOnce, IsWrite, Saved
<1> QED
  BY <1>1, <1>2, <1>3, <1>4, <1>5, <1>6, <1>7, <1>8, <1>9, <1>10, <1>11 DEF
     IInv

\* A confirmed response proves the backup and the effect.
LEMMA SeeResponseStep ==
    ASSUME IInv, NEW c \in Clients, SeeResponse(c)
    PROVE  IInv'
<1>0. TypeOK /\ LockInv /\ UsedInv /\ CallInv /\ ReceiptInv /\ PacketInv
      /\ LoopInv /\ EffectInv /\ ExportInv /\ SettledInv /\ RenderInv
  BY DEF IInv
<1> USE DEF TypeOK, files, client, native, world, Goto, Writes
<1>1. TypeOK'
  BY <1>0, SettleType DEF SeeResponse, PCs
<1>2. LockInv'
  BY <1>0, SettleType, RequestType DEF SeeResponse, Errors, Responses,
     LockInv, IsWrite, Saved, NoRequest
<1>3. UsedInv'
  BY <1>0, SettleType, RequestType DEF SeeResponse, Errors, Responses,
     UsedInv, IsWrite, Saved
<1>4. CallInv'
  BY <1>0, SettleType, RequestType, PacketType DEF SeeResponse, Errors,
     Responses, CallInv, CallOf, Untouched, IsWrite, Saved, SameFingerprint,
     LockInv, UsedInv
<1>5. ReceiptInv'
  BY <1>0, SettleType, RequestType DEF SeeResponse, Errors, Responses,
     ReceiptInv, SinglePending, IsWrite, Saved
<1>6. PacketInv'
  BY <1>0, SettleType, RequestType, NullAssumption, PacketType DEF
     SeeResponse, Errors, Responses, PacketInv, Recorded, IsWrite, Saved,
     EmptySlot
<1>7. LoopInv'
  BY <1>0, SettleType, RequestType DEF SeeResponse, Errors, Responses,
     LoopInv, IsWrite, Saved
<1>8. EffectInv'
  BY <1>0, SettleType, RequestType, NullAssumption, PacketType DEF
     SeeResponse, Errors, Responses, EffectInv, BeforeEffect, RefusedLate,
     IsWrite, Saved, EmptySlot
<1>9. ExportInv'
  BY <1>0, SettleType, RequestType DEF SeeResponse, Errors, Responses,
     ExportInv, Finished, RefusedLate, IsWrite, Saved
<1>10. SettledInv'
  <2>1. CASE UNCHANGED receipts
    BY <2>1, <1>0 DEF SeeResponse, SettledInv, Finished, CompletedTookEffect,
          RejectionNeedsRepeatedCheck
  <2>2. ASSUME NEW e \in exports, e.id = command_id[c],
               e.code \in {"ok", "accepted"}, command_id[c] \in backups,
               IsWrite(c), Settle(c, "completed")
        PROVE  SettledInv'
    <3> DEFINE key == request[c].key
    <3>1. key \in Keys /\ receipts[key].id = command_id[c]
      BY <1>0, <2>2, SettleType, RequestType DEF SeeResponse
    <3>2. receipts[key].kind = "edit" => Finished(receipts[key].id) /\ applied[key] = 1
      BY <1>0, <2>2, <3>1 DEF ExportInv
    <3>3. receipts[key].kind # "edit" =>
            \E a \in exports : a.id = receipts[key].id /\ a.code = "accepted"
      BY <1>0, <2>2, <3>1 DEF ExportInv
    <3>4. UNCHANGED <<inbox, exports, backups, consumed, phase, packet, handled,
                      items, twins, applied>>
      BY DEF SeeResponse
    <3>5. \A k \in Keys :
            /\ receipts'[k].id = receipts[k].id
            /\ receipts'[k].kind = receipts[k].kind
            /\ receipts'[k].project = receipts[k].project
            /\ k # key => receipts'[k] = receipts[k]
            /\ k = key => receipts'[k].status = "completed"
      BY <2>2, SettleType DEF SeeResponse
    <3> HIDE DEF key
    <3> QED
      BY <1>0, <2>2, <3>1, <3>2, <3>3, <3>4, <3>5 DEF SettledInv, Finished,
            CompletedTookEffect, RejectionNeedsRepeatedCheck
  <2> QED
    BY <2>1, <2>2 DEF SeeResponse, Responses
<1>11. RenderInv'
  BY SMTT(30), <1>0, SettleType, RequestType DEF SeeResponse, Errors, Responses,
     RenderInv, RenderStartedOnce, IsWrite, Saved
<1> QED
  BY <1>1, <1>2, <1>3, <1>4, <1>5, <1>6, <1>7, <1>8, <1>9, <1>10, <1>11 DEF
     IInv

\* A timeout changes no file.
LEMMA TimeoutStep ==
    ASSUME IInv, NEW c \in Clients, Timeout(c)
    PROVE  IInv'
<1>0. TypeOK /\ LockInv /\ UsedInv /\ CallInv /\ ReceiptInv /\ PacketInv
      /\ LoopInv /\ EffectInv /\ ExportInv /\ SettledInv /\ RenderInv
  BY DEF IInv
<1> USE DEF TypeOK, files, client, native, world, Goto, Writes
<1>1. TypeOK'
  BY <1>0 DEF Timeout, OrNone, PCs, Phases, Codes
<1>2. LockInv'
  BY <1>0 DEF Timeout, LockInv, NoRequest
<1>3. UsedInv'
  BY <1>0 DEF Timeout, UsedInv
<1>4. CallInv'
  BY <1>0 DEF Timeout, CallInv, CallOf, Untouched, IsWrite, Saved,
     SameFingerprint
<1>5. UNCHANGED Shared
  BY DEF Timeout, Shared
<1> QED
  BY <1>1, <1>2, <1>3, <1>4, <1>5, SharedStep DEF IInv

\* A slot that is cleared has a settled receipt.
LEMMA CloseStep ==
    ASSUME IInv, NEW c \in Clients, Close(c)
    PROVE  IInv'
<1>0. TypeOK /\ LockInv /\ UsedInv /\ CallInv /\ ReceiptInv /\ PacketInv
      /\ LoopInv /\ EffectInv /\ ExportInv /\ SettledInv /\ RenderInv
  BY DEF IInv
<1> USE DEF TypeOK, files, client, native, world, Goto, Writes
<1>1. TypeOK'
  BY <1>0 DEF Close, OrNone, PCs, Phases, Codes
<1>2. LockInv'
  BY <1>0 DEF Close, LockInv, NoRequest
<1>3. UsedInv'
  BY <1>0, NullAssumption, PacketType DEF Close, UsedInv, EmptySlot
<1>4. CallInv'
  BY <1>0, NullAssumption, PacketType DEF Close, CallInv, CallOf, Untouched,
     IsWrite, Saved, SameFingerprint, EmptySlot
<1>5. ReceiptInv'
  BY <1>0 DEF Close, ReceiptInv, SinglePending
<1>6. PacketInv'
  BY <1>0, NullAssumption, PacketType DEF Close, PacketInv, Recorded,
     EmptySlot
<1>7. LoopInv'
  BY <1>0 DEF Close, LoopInv
<1>8. EffectInv'
  BY <1>0 DEF Close, EffectInv, BeforeEffect, RefusedLate
<1>9. ExportInv'
  BY <1>0, PacketType DEF Close, ExportInv, Finished, RefusedLate, LoopInv,
     EffectInv, CallInv, CallOf, Untouched
<1>10. SettledInv'
  BY <1>0, NullAssumption, PacketType, ReceiptType, RequestType DEF Close,
     SettledInv, Finished, RejectionNeedsRepeatedCheck,
     CompletedTookEffect, ExportInv, CallInv, CallOf, Untouched, LoopInv,
     EmptySlot, IsWrite, Saved
<1>11. RenderInv'
  BY <1>0 DEF Close, RenderInv, RenderStartedOnce
<1> QED
  BY <1>1, <1>2, <1>3, <1>4, <1>5, <1>6, <1>7, <1>8, <1>9, <1>10, <1>11 DEF
     IInv

\* The call ends with its locals.
LEMMA UnlockStep ==
    ASSUME IInv, NEW c \in Clients, Unlock(c)
    PROVE  IInv'
<1>0. TypeOK /\ LockInv /\ UsedInv /\ CallInv /\ ReceiptInv /\ PacketInv
      /\ LoopInv /\ EffectInv /\ ExportInv /\ SettledInv /\ RenderInv
  BY DEF IInv
<1> USE DEF TypeOK, files, client, native, world, Goto, Writes
<1>1. TypeOK'
  BY <1>0 DEF Unlock, Return, OrNone, PCs, Phases, Codes
<1>2. LockInv'
  BY <1>0 DEF Unlock, Return, LockInv, NoRequest
<1>3. UsedInv'
  BY <1>0 DEF Unlock, Return, UsedInv
<1>4. CallInv'
  BY <1>0 DEF Unlock, Return, CallInv, CallOf, Untouched, IsWrite, Saved,
     SameFingerprint
<1>5. UNCHANGED Shared
  BY DEF Unlock, Shared, Return
<1> QED
  BY <1>1, <1>2, <1>3, <1>4, <1>5, SharedStep DEF IInv

\* The lock of a dead client still excludes the others.
LEMMA CrashStep ==
    ASSUME IInv, NEW c \in Clients, Crash(c)
    PROVE  IInv'
<1>0. TypeOK /\ LockInv /\ UsedInv /\ CallInv /\ ReceiptInv /\ PacketInv
      /\ LoopInv /\ EffectInv /\ ExportInv /\ SettledInv /\ RenderInv
  BY DEF IInv
<1> USE DEF TypeOK, files, client, native, world, Goto, Writes
<1>1. TypeOK'
  BY <1>0 DEF Crash, Return, OrNone, PCs, Phases, Codes
<1>2. LockInv'
  BY <1>0 DEF Crash, Return, LockInv, NoRequest
<1>3. UsedInv'
  BY <1>0 DEF Crash, Return, UsedInv
<1>4. CallInv'
  BY <1>0 DEF Crash, Return, CallInv, CallOf, Untouched, IsWrite, Saved,
     SameFingerprint
<1>5. UNCHANGED Shared
  BY DEF Crash, Shared, Return
<1> QED
  BY <1>1, <1>2, <1>3, <1>4, <1>5, SharedStep DEF IInv

-----------------------------------------------------------------------------
(* Steps of the bridge and of the environment. *)

\* Removing the lock of a dead client lets nobody into the middle of a call.
LEMMA RemoveStaleLockStep ==
    ASSUME IInv, RemoveStaleLock
    PROVE  IInv'
<1>0. TypeOK /\ LockInv /\ UsedInv /\ CallInv /\ ReceiptInv /\ PacketInv
      /\ LoopInv /\ EffectInv /\ ExportInv /\ SettledInv /\ RenderInv
  BY DEF IInv
<1> USE DEF TypeOK, files, client, native, world, Goto, Writes
<1>1. TypeOK'
  BY <1>0 DEF RemoveStaleLock, OrNone, PCs, Phases, Codes
<1>2. LockInv'
  BY <1>0, NullAssumption DEF RemoveStaleLock, LockInv, NoRequest, OrNone
<1>3. UsedInv'
  BY <1>0 DEF RemoveStaleLock, UsedInv
<1>4. CallInv'
  BY <1>0 DEF RemoveStaleLock, CallInv, CallOf, Untouched, IsWrite, Saved,
     SameFingerprint
<1>5. UNCHANGED Shared
  BY DEF RemoveStaleLock, Shared
<1> QED
  BY <1>1, <1>2, <1>3, <1>4, <1>5, SharedStep DEF IInv

\* A session is consumed before its loop takes the first command.
LEMMA StartBridgeStep ==
    ASSUME IInv, StartBridge
    PROVE  IInv'
<1>0. TypeOK /\ LockInv /\ UsedInv /\ CallInv /\ ReceiptInv /\ PacketInv
      /\ LoopInv /\ EffectInv /\ ExportInv /\ SettledInv /\ RenderInv
  BY DEF IInv
<1> USE DEF TypeOK, files, client, native, world, Goto, Writes
<1>1. TypeOK'
  BY <1>0 DEF StartBridge, OrNone, PCs, Phases, Codes
<1>2. LockInv'
  BY LockUnchanged DEF StartBridge
<1>3. UsedInv'
  BY <1>0 DEF StartBridge, UsedInv
<1>4. CallInv'
  BY <1>0 DEF StartBridge, CallInv, CallOf, Untouched, IsWrite, Saved,
     SameFingerprint
<1>5. ReceiptInv'
  BY <1>0 DEF StartBridge, ReceiptInv, SinglePending
<1>6. PacketInv'
  BY <1>0 DEF StartBridge, PacketInv, Recorded
<1>7. LoopInv'
  BY <1>0 DEF StartBridge, LoopInv
<1>8. EffectInv'
  BY <1>0, PacketType DEF StartBridge, EffectInv, BeforeEffect, RefusedLate,
     PacketInv, Recorded, LoopInv, ReceiptInv
<1>9. ExportInv'
  BY <1>0, PacketType DEF StartBridge, ExportInv, Finished, RefusedLate,
     LoopInv, EffectInv, CallInv, CallOf, Untouched
<1>10. SettledInv'
  BY <1>0 DEF StartBridge, SettledInv, Finished,
     RejectionNeedsRepeatedCheck, CompletedTookEffect
<1>11. RenderInv'
  BY <1>0, PacketType DEF StartBridge, RenderInv, RenderStartedOnce,
     PacketInv, Recorded, LoopInv, ReceiptInv
<1> QED
  BY <1>1, <1>2, <1>3, <1>4, <1>5, <1>6, <1>7, <1>8, <1>9, <1>10, <1>11 DEF
     IInv

\* The packet in hand is one that this loop has never handled.
LEMMA PollStep ==
    ASSUME IInv, Poll
    PROVE  IInv'
<1>0. TypeOK /\ LockInv /\ UsedInv /\ CallInv /\ ReceiptInv /\ PacketInv
      /\ LoopInv /\ EffectInv /\ ExportInv /\ SettledInv /\ RenderInv
  BY DEF IInv
<1> USE DEF TypeOK, files, client, native, world, Goto, Writes
<1>1. TypeOK'
  BY <1>0, PacketType, ReceiptType, RequestType DEF Poll, Fresh, OrNone, PCs,
     Phases, Codes, Saved, LoopInv, IsWrite
<1>2. LockInv'
  BY LockUnchanged DEF Poll
<1>3. UsedInv'
  BY <1>0 DEF Poll, Fresh, UsedInv
<1>4. CallInv'
  BY <1>0 DEF Poll, Fresh, CallInv, CallOf, Untouched, IsWrite, Saved,
     SameFingerprint
<1>5. ReceiptInv'
  BY <1>0 DEF Poll, Fresh, ReceiptInv, SinglePending
<1>6. PacketInv'
  BY <1>0 DEF Poll, Fresh, PacketInv, Recorded
<1>7. LoopInv'
  BY <1>0, <1>1, RequestType, ReceiptType, PacketType, NullAssumption DEF
     Poll, Fresh, NoReceipt, NoRequest, EmptySlot, OrNone, Phases, Codes,
     Recorded, LockInv, PacketInv, LoopInv, CallInv, CallOf
<1>8. EffectInv'
  BY <1>0, PacketType DEF Poll, Fresh, EffectInv, BeforeEffect, RefusedLate,
     PacketInv, Recorded, LoopInv, ReceiptInv
<1>9. ExportInv'
  BY <1>0 DEF Poll, Fresh, ExportInv, Finished, RefusedLate
<1>10. SettledInv'
  BY <1>0 DEF Poll, Fresh, SettledInv, Finished,
     RejectionNeedsRepeatedCheck, CompletedTookEffect
<1>11. RenderInv'
  BY <1>0 DEF Poll, Fresh, RenderInv, RenderStartedOnce
<1> QED
  BY <1>1, <1>2, <1>3, <1>4, <1>5, <1>6, <1>7, <1>8, <1>9, <1>10, <1>11 DEF
     IInv

\* A read has no effect.
LEMMA AnswerReadStep ==
    ASSUME IInv, AnswerRead
    PROVE  IInv'
<1>0. TypeOK /\ LockInv /\ UsedInv /\ CallInv /\ ReceiptInv /\ PacketInv
      /\ LoopInv /\ EffectInv /\ ExportInv /\ SettledInv /\ RenderInv
  BY DEF IInv
<1> USE DEF TypeOK, files, client, native, world, Goto, Writes
<1>1. TypeOK'
  BY <1>0 DEF AnswerRead, Answer, OrNone, PCs, Phases, Codes
<1>2. LockInv'
  BY LockUnchanged DEF AnswerRead
<1>3. UsedInv'
  BY <1>0 DEF AnswerRead, Answer, UsedInv
<1>4. CallInv'
  BY <1>0 DEF AnswerRead, Answer, CallInv, CallOf, Untouched, IsWrite, Saved,
     SameFingerprint
<1>5. ReceiptInv'
  BY <1>0 DEF AnswerRead, Answer, ReceiptInv, SinglePending
<1>6. PacketInv'
  BY <1>0 DEF AnswerRead, Answer, PacketInv, Recorded
<1>7. LoopInv'
  BY <1>0 DEF AnswerRead, Answer, LoopInv
<1>8. EffectInv'
  BY <1>0 DEF AnswerRead, Answer, EffectInv, BeforeEffect, RefusedLate
<1>9. ExportInv'
  BY <1>0 DEF AnswerRead, Answer, ExportInv, Finished, RefusedLate
<1>10. SettledInv'
  BY <1>0 DEF AnswerRead, Answer, SettledInv, Finished,
     RejectionNeedsRepeatedCheck, CompletedTookEffect
<1>11. RenderInv'
  BY <1>0 DEF AnswerRead, Answer, RenderInv, RenderStartedOnce
<1> QED
  BY <1>1, <1>2, <1>3, <1>4, <1>5, <1>6, <1>7, <1>8, <1>9, <1>10, <1>11 DEF
     IInv

\* A refusal before the backup has no effect.
LEMMA RefuseWriteStep ==
    ASSUME IInv, RefuseWrite
    PROVE  IInv'
<1>0. TypeOK /\ LockInv /\ UsedInv /\ CallInv /\ ReceiptInv /\ PacketInv
      /\ LoopInv /\ EffectInv /\ ExportInv /\ SettledInv /\ RenderInv
  BY DEF IInv
<1> USE DEF TypeOK, files, client, native, world, Goto, Writes
<1>1. TypeOK'
  BY <1>0 DEF RefuseWrite, Answer, OrNone, PCs, Phases, Codes
<1>2. LockInv'
  BY LockUnchanged DEF RefuseWrite
<1>3. UsedInv'
  BY <1>0 DEF RefuseWrite, Answer, UsedInv
<1>4. CallInv'
  BY <1>0 DEF RefuseWrite, Answer, CallInv, CallOf, Untouched, IsWrite,
     Saved, SameFingerprint
<1>5. ReceiptInv'
  BY <1>0 DEF RefuseWrite, Answer, ReceiptInv, SinglePending
<1>6. PacketInv'
  BY <1>0 DEF RefuseWrite, Answer, PacketInv, Recorded
<1>7. LoopInv'
  BY <1>0 DEF RefuseWrite, Answer, LoopInv
<1>8. EffectInv'
  BY <1>0 DEF RefuseWrite, Answer, EffectInv, BeforeEffect, RefusedLate
<1>9. ExportInv'
  BY <1>0 DEF RefuseWrite, Answer, ExportInv, Finished, RefusedLate
<1>10. SettledInv'
  BY <1>0 DEF RefuseWrite, Answer, SettledInv, Finished,
     RejectionNeedsRepeatedCheck, CompletedTookEffect
<1>11. RenderInv'
  BY <1>0 DEF RefuseWrite, Answer, RenderInv, RenderStartedOnce
<1> QED
  BY <1>1, <1>2, <1>3, <1>4, <1>5, <1>6, <1>7, <1>8, <1>9, <1>10, <1>11 DEF
     IInv

\* The backup is exported before anything is changed.
LEMMA BackUpStep ==
    ASSUME IInv, BackUp
    PROVE  IInv'
<1>0. TypeOK /\ LockInv /\ UsedInv /\ CallInv /\ ReceiptInv /\ PacketInv
      /\ LoopInv /\ EffectInv /\ ExportInv /\ SettledInv /\ RenderInv
  BY DEF IInv
<1> USE DEF TypeOK, files, client, native, world, Goto, Writes
<1>1. TypeOK'
  BY <1>0, PacketType, ReceiptType, RequestType DEF BackUp, Admissible,
     OrNone, PCs, Phases, Codes, Saved, LoopInv, IsWrite
<1>2. LockInv'
  BY LockUnchanged DEF BackUp
<1>3. UsedInv'
  BY <1>0, NullAssumption, PacketType DEF BackUp, Admissible, UsedInv,
     EmptySlot
<1>4. CallInv'
  BY <1>0 DEF BackUp, Admissible, CallInv, CallOf, Untouched, IsWrite, Saved,
     SameFingerprint
<1>5. ReceiptInv'
  BY <1>0 DEF BackUp, Admissible, ReceiptInv, SinglePending
<1>6. PacketInv'
  BY <1>0 DEF BackUp, Admissible, PacketInv, Recorded
<1>7. LoopInv'
  BY <1>0 DEF BackUp, Admissible, LoopInv
<1>8. EffectInv'
  BY <1>0 DEF BackUp, Admissible, EffectInv, BeforeEffect, RefusedLate
<1>9. ExportInv'
  BY <1>0 DEF BackUp, Admissible, ExportInv, Finished, RefusedLate
<1>10. SettledInv'
  BY <1>0 DEF BackUp, Admissible, SettledInv, Finished,
     RejectionNeedsRepeatedCheck, CompletedTookEffect
<1>11. RenderInv'
  BY <1>0 DEF BackUp, Admissible, RenderInv, RenderStartedOnce
<1> QED
  BY <1>1, <1>2, <1>3, <1>4, <1>5, <1>6, <1>7, <1>8, <1>9, <1>10, <1>11 DEF
     IInv

\* A refusal after the backup has no effect.
LEMMA RecheckStep ==
    ASSUME IInv, Recheck
    PROVE  IInv'
<1>0. TypeOK /\ LockInv /\ UsedInv /\ CallInv /\ ReceiptInv /\ PacketInv
      /\ LoopInv /\ EffectInv /\ ExportInv /\ SettledInv /\ RenderInv
  BY DEF IInv
<1> USE DEF TypeOK, files, client, native, world, Goto, Writes
<1>1. TypeOK'
  BY <1>0 DEF Recheck, Answer, OrNone, PCs, Phases, Codes
<1>2. LockInv'
  BY LockUnchanged DEF Recheck
<1>3. UsedInv'
  BY <1>0 DEF Recheck, Answer, UsedInv
<1>4. CallInv'
  BY <1>0 DEF Recheck, Answer, CallInv, CallOf, Untouched, IsWrite, Saved,
     SameFingerprint
<1>5. ReceiptInv'
  BY <1>0 DEF Recheck, Answer, ReceiptInv, SinglePending
<1>6. PacketInv'
  BY <1>0 DEF Recheck, Answer, PacketInv, Recorded
<1>7. LoopInv'
  BY <1>0 DEF Recheck, Answer, LoopInv
<1>8. EffectInv'
  BY <1>0 DEF Recheck, Answer, EffectInv, BeforeEffect, RefusedLate
<1>9. ExportInv'
  BY <1>0 DEF Recheck, Answer, ExportInv, Finished, RefusedLate
<1>10. SettledInv'
  BY <1>0 DEF Recheck, Answer, SettledInv, Finished,
     RejectionNeedsRepeatedCheck, CompletedTookEffect
<1>11. RenderInv'
  BY <1>0 DEF Recheck, Answer, RenderInv, RenderStartedOnce
<1> QED
  BY <1>1, <1>2, <1>3, <1>4, <1>5, <1>6, <1>7, <1>8, <1>9, <1>10, <1>11 DEF
     IInv

\* An edit is applied once, for the packet in hand.
LEMMA EditStep ==
    ASSUME IInv, Edit
    PROVE  IInv'
<1>0. TypeOK /\ LockInv /\ UsedInv /\ CallInv /\ ReceiptInv /\ PacketInv
      /\ LoopInv /\ EffectInv /\ ExportInv /\ SettledInv /\ RenderInv
  BY DEF IInv
<1> USE DEF TypeOK, files, client, native, world, Goto, Writes
<1>1. TypeOK'
  BY <1>0, PacketType DEF Edit, Change, Answer, OrNone, PCs, Phases, Codes
<1>2. LockInv'
  BY LockUnchanged DEF Edit
<1>3. UsedInv'
  BY <1>0 DEF Edit, Change, Answer, UsedInv
<1>4. CallInv'
  BY <1>0, <1>1, RequestType, ReceiptType, PacketType, NullAssumption DEF
     Edit, Change, Answer, NoReceipt, NoRequest, EmptySlot, OrNone, Phases, Codes,
     Untouched, Recorded, IsWrite, Saved, SameFingerprint, LockInv, UsedInv,
     CallInv, CallOf, ReceiptInv, PacketInv, LoopInv
<1>5. ReceiptInv'
  BY <1>0 DEF Edit, Change, Answer, ReceiptInv, SinglePending
<1>6. PacketInv'
  BY <1>0 DEF Edit, Change, Answer, PacketInv, Recorded
<1>7. LoopInv'
  BY <1>0 DEF Edit, Change, Answer, LoopInv
<1>8. EffectInv'
  BY <1>0, NullAssumption, PacketType, ReceiptType, RequestType DEF Edit, Change,
     Answer, EffectInv, BeforeEffect, RefusedLate, PacketInv, Recorded,
     LoopInv, ReceiptInv, EmptySlot, IsWrite, Saved
<1>9. ExportInv'
  <2>1. /\ phase = "cleared" /\ packet.kind = "edit" /\ packet.key \in Keys
        /\ receipts[packet.key].id = packet.id /\ receipts[packet.key].kind = "edit"
    BY <1>0, PacketType DEF Edit, PacketInv, Recorded
  <2>2. /\ \A k \in Keys : k # packet.key => applied'[k] = applied[k]
        /\ \A p \in Projects : items'[p] = items[p] \/ items'[p] = items[p] + 1
        /\ twins \subseteq twins'
    BY <1>0 DEF Edit, Change
  <2>3. UNCHANGED <<receipts, inbox, exports, backups, consumed, packet, handled>>
        /\ phase' \in {"mutated", "replying"}
    BY DEF Edit, Change, Answer
  <2>4. ASSUME NEW e \in exports PROVE e.id # packet.id
    BY <1>0, <2>1, <2>4 DEF ExportInv, Finished
  <2>5. \A e \in exports, k \in Keys : receipts[k].id = e.id =>
            k # packet.key /\ (RefusedLate(k) => RefusedLate(k)')
    <3> SUFFICES ASSUME NEW e \in exports, NEW k \in Keys, receipts[k].id = e.id
                 PROVE  k # packet.key /\ (RefusedLate(k) => RefusedLate(k)')
      OBVIOUS
    <3>1. k # packet.key
      BY <2>1, <2>4
    <3>2. receipts[k].id # None
      BY <1>0, NullAssumption DEF Exports
    <3>3. receipts[k].project \in Projects
      BY <1>0, <3>2, ReceiptType
    <3> QED
      BY <1>0, <2>2, <2>3, <3>1, <3>3, ItemsAssumption DEF RefusedLate
  <2> QED
    BY <1>0, <2>1, <2>2, <2>3, <2>4, <2>5 DEF ExportInv, Finished
<1>10. SettledInv'
  <2>1. /\ phase = "cleared" /\ packet.kind = "edit" /\ packet.key \in Keys
        /\ receipts[packet.key].id = packet.id /\ receipts[packet.key].kind = "edit"
    BY <1>0, PacketType DEF Edit, PacketInv, Recorded
  <2>2. /\ \A k \in Keys : k # packet.key => applied'[k] = applied[k]
        /\ \A p \in Projects : items'[p] = items[p] \/ items'[p] = items[p] + 1
        /\ twins \subseteq twins'
    BY <1>0 DEF Edit, Change
  <2>3. UNCHANGED <<receipts, inbox, exports, backups, consumed, packet, handled>>
        /\ phase' \in {"mutated", "replying"}
    BY DEF Edit, Change, Answer
  <2>4. \A k \in Keys :
            \/ receipts[k].status = "rejected"
            \/ receipts[k].status = "completed" /\ receipts[k].kind = "edit"
            => k # packet.key
    BY <1>0, <2>1 DEF SettledInv, Finished
  <2>5. \A k \in Keys : receipts[k].status # "absent" /\ RefusedLate(k) => RefusedLate(k)'
    BY <1>0, <2>2, <2>3, ReceiptType, ItemsAssumption DEF RefusedLate
  <2>6. RejectionNeedsRepeatedCheck'
    BY <1>0, <2>1, <2>2, <2>3, <2>4, <2>5
       DEF SettledInv, RejectionNeedsRepeatedCheck, RefusedLate
  <2>7. CompletedTookEffect'
    BY <1>0, <2>1, <2>2, <2>3, <2>4 DEF SettledInv, CompletedTookEffect
  <2> QED
    BY <1>0, <2>1, <2>3, <2>4, <2>6, <2>7 DEF SettledInv, Finished
<1>11. RenderInv'
  BY <1>0, PacketType DEF Edit, Change, Answer, RenderInv, RenderStartedOnce,
     PacketInv, Recorded, LoopInv, ReceiptInv
<1> QED
  BY <1>1, <1>2, <1>3, <1>4, <1>5, <1>6, <1>7, <1>8, <1>9, <1>10, <1>11 DEF
     IInv

\* A listed code after the edit is given only by a repeated check that fails.
LEMMA VerifyStep ==
    ASSUME IInv, Verify
    PROVE  IInv'
<1>0. TypeOK /\ LockInv /\ UsedInv /\ CallInv /\ ReceiptInv /\ PacketInv
      /\ LoopInv /\ EffectInv /\ ExportInv /\ SettledInv /\ RenderInv
  BY DEF IInv
<1> USE DEF TypeOK, files, client, native, world, Goto, Writes
<1>1. TypeOK'
  BY <1>0 DEF Verify, RepeatedCheckFails, Answer, OrNone, PCs, Phases, Codes
<1>2. LockInv'
  BY LockUnchanged DEF Verify
<1>3. UsedInv'
  BY <1>0 DEF Verify, RepeatedCheckFails, Answer, UsedInv
<1>4. CallInv'
  BY <1>0 DEF Verify, RepeatedCheckFails, Answer, CallInv, CallOf, Untouched, IsWrite, Saved,
     SameFingerprint
<1>5. ReceiptInv'
  BY <1>0 DEF Verify, RepeatedCheckFails, Answer, ReceiptInv, SinglePending
<1>6. PacketInv'
  BY <1>0 DEF Verify, RepeatedCheckFails, Answer, PacketInv, Recorded
<1>7. LoopInv'
  BY <1>0 DEF Verify, RepeatedCheckFails, Answer, LoopInv
<1>8. EffectInv'
  BY <1>0, PacketType DEF Verify, RepeatedCheckFails, Answer, EffectInv, BeforeEffect, RefusedLate,
     PacketInv, Recorded, LoopInv, ReceiptInv
<1>9. ExportInv'
  BY <1>0 DEF Verify, RepeatedCheckFails, Answer, ExportInv, Finished, RefusedLate
<1>10. SettledInv'
  BY <1>0 DEF Verify, RepeatedCheckFails, Answer, SettledInv, Finished,
     RejectionNeedsRepeatedCheck, CompletedTookEffect
<1>11. RenderInv'
  BY <1>0 DEF Verify, RepeatedCheckFails, Answer, RenderInv, RenderStartedOnce
<1> QED
  BY <1>1, <1>2, <1>3, <1>4, <1>5, <1>6, <1>7, <1>8, <1>9, <1>10, <1>11 DEF
     IInv

\* A start is accepted once per job.
LEMMA AcceptRenderStep ==
    ASSUME IInv, AcceptRender
    PROVE  IInv'
<1>0. TypeOK /\ LockInv /\ UsedInv /\ CallInv /\ ReceiptInv /\ PacketInv
      /\ LoopInv /\ EffectInv /\ ExportInv /\ SettledInv /\ RenderInv
  BY DEF IInv
<1> USE DEF TypeOK, files, client, native, world, Goto, Writes
<1>1. TypeOK'
  BY <1>0, RequestType, ReceiptType, PacketType, NullAssumption DEF
     AcceptRender, Answer, OrNone, PCs, Phases, Codes, Receipt, Requests,
     NoRequest, NoReceipt, Packets, EmptySlot, Exports, LockInv, CallInv,
     CallOf, LoopInv, IsWrite, Saved, SameFingerprint
<1>2. LockInv'
  BY LockUnchanged DEF AcceptRender
<1>3. UsedInv'
  BY <1>0, NullAssumption, PacketType DEF AcceptRender, Answer, UsedInv,
     EmptySlot
<1>4. CallInv'
  BY <1>0 DEF AcceptRender, Answer, CallInv, CallOf, Untouched, IsWrite,
     Saved, SameFingerprint
<1>5. ReceiptInv'
  BY <1>0 DEF AcceptRender, Answer, ReceiptInv, SinglePending
<1>6. PacketInv'
  BY <1>0 DEF AcceptRender, Answer, PacketInv, Recorded
<1>7. LoopInv'
  BY <1>0 DEF AcceptRender, Answer, LoopInv
<1>8. EffectInv'
  <2>1. phase = "cleared" /\ packet.kind = "start_render" /\ packet.key \in Keys
    BY <1>0, PacketType DEF AcceptRender
  <2>2. UNCHANGED <<receipts, packet, handled, applied>>
    BY DEF AcceptRender
  <2>3. applied[packet.key] = 0
    BY <1>0, <2>1 DEF EffectInv, BeforeEffect
  <2>4. CASE phase' = "replying" /\ reply' = "uncertain"
    BY <1>0, <2>1, <2>2, <2>4 DEF EffectInv, BeforeEffect
  <2>5. ASSUME phase' = "started",
               exports' = exports \cup
                 {[id |-> packet.id, code |-> "accepted", project |-> project]}
        PROVE  EffectInv'
    <3>1. \E e \in exports' : e.id = packet.id /\ e.code = "accepted"
      <4> DEFINE a == [id |-> packet.id, code |-> "accepted", project |-> project]
      <4>1. a \in exports' /\ a.id = packet.id /\ a.code = "accepted"
        BY <2>5
      <4> QED
        BY <4>1
    <3> QED
      BY <1>0, <2>1, <2>2, <2>3, <2>5, <3>1 DEF EffectInv, BeforeEffect
  <2> QED
    BY <2>4, <2>5 DEF AcceptRender, Answer
<1>9. ExportInv'
  BY <1>0, <1>1, RequestType, ReceiptType, PacketType, NullAssumption DEF
     AcceptRender, Answer, NoReceipt, NoRequest, EmptySlot, OrNone, Phases,
     Codes, BeforeEffect, Finished, Untouched, RefusedLate, Recorded, IsWrite,
     Saved, SameFingerprint, LockInv, UsedInv, CallInv, CallOf, ReceiptInv,
     PacketInv, LoopInv, EffectInv, ExportInv
<1>10. SettledInv'
  BY <1>0 DEF AcceptRender, Answer, SettledInv, Finished,
     RejectionNeedsRepeatedCheck, CompletedTookEffect
<1>11. RenderInv'
  BY <1>0 DEF AcceptRender, Answer, RenderInv, RenderStartedOnce
<1> QED
  BY <1>1, <1>2, <1>3, <1>4, <1>5, <1>6, <1>7, <1>8, <1>9, <1>10, <1>11 DEF
     IInv

\* An accepted start is requested once.
LEMMA StartRenderingStep ==
    ASSUME IInv, StartRendering
    PROVE  IInv'
<1>0. TypeOK /\ LockInv /\ UsedInv /\ CallInv /\ ReceiptInv /\ PacketInv
      /\ LoopInv /\ EffectInv /\ ExportInv /\ SettledInv /\ RenderInv
  BY DEF IInv
<1> USE DEF TypeOK, files, client, native, world, Goto, Writes
<1>1. TypeOK'
  BY <1>0 DEF StartRendering, Answer, OrNone, PCs, Phases, Codes
<1>2. LockInv'
  BY LockUnchanged DEF StartRendering
<1>3. UsedInv'
  BY <1>0 DEF StartRendering, Answer, UsedInv
<1>4. CallInv'
  BY <1>0, <1>1, RequestType, ReceiptType, PacketType, NullAssumption DEF
     StartRendering, Answer, NoReceipt, NoRequest, EmptySlot, OrNone, Phases,
     Codes, Untouched, Recorded, IsWrite, Saved, SameFingerprint, LockInv,
     UsedInv, CallInv, CallOf, ReceiptInv, PacketInv, LoopInv
<1>5. ReceiptInv'
  BY <1>0 DEF StartRendering, Answer, ReceiptInv, SinglePending
<1>6. PacketInv'
  BY <1>0 DEF StartRendering, Answer, PacketInv, Recorded
<1>7. LoopInv'
  BY <1>0 DEF StartRendering, Answer, LoopInv
<1>8. EffectInv'
  BY <1>0, NullAssumption, PacketType, ReceiptType, RequestType DEF
     StartRendering, Answer, EffectInv, BeforeEffect, RefusedLate, PacketInv,
     Recorded, LoopInv, ReceiptInv, EmptySlot, IsWrite, Saved
<1>9. ExportInv'
  BY <1>0, <1>1, RequestType, ReceiptType, PacketType, NullAssumption DEF
     StartRendering, Answer, NoReceipt, NoRequest, EmptySlot, OrNone, Phases,
     Codes, BeforeEffect, Finished, Untouched, RefusedLate, Recorded, IsWrite,
     Saved, SameFingerprint, LockInv, UsedInv, CallInv, CallOf, ReceiptInv,
     PacketInv, LoopInv, EffectInv, ExportInv
<1>10. SettledInv'
  BY <1>0, <1>1, RequestType, ReceiptType, PacketType, NullAssumption DEF
     StartRendering, Answer, NoReceipt, NoRequest, EmptySlot, OrNone, Phases,
     Codes, BeforeEffect, Finished, Untouched, RefusedLate, Recorded,
     RejectionNeedsRepeatedCheck, CompletedTookEffect, IsWrite, Saved,
     SameFingerprint, LockInv, UsedInv, CallInv, CallOf, ReceiptInv,
     PacketInv, LoopInv, EffectInv, ExportInv, SettledInv
<1>11. RenderInv'
  BY <1>0, PacketType DEF StartRendering, Answer, RenderInv,
     RenderStartedOnce, PacketInv, Recorded, LoopInv, ReceiptInv
<1> QED
  BY <1>1, <1>2, <1>3, <1>4, <1>5, <1>6, <1>7, <1>8, <1>9, <1>10, <1>11 DEF
     IInv

\* What is exported is true of the packet in hand.
LEMMA ReplyStep ==
    ASSUME IInv, Reply
    PROVE  IInv'
<1>0. TypeOK /\ LockInv /\ UsedInv /\ CallInv /\ ReceiptInv /\ PacketInv
      /\ LoopInv /\ EffectInv /\ ExportInv /\ SettledInv /\ RenderInv
  BY DEF IInv
<1> USE DEF TypeOK, files, client, native, world, Goto, Writes
<1>1. TypeOK'
  BY <1>0, RequestType, ReceiptType, PacketType, NullAssumption DEF Reply,
     AfterResponse, OrNone, PCs, Phases, Codes, Receipt, Requests, NoRequest,
     NoReceipt, Packets, EmptySlot, Exports, LockInv, CallInv, CallOf,
     LoopInv, IsWrite, Saved, SameFingerprint
<1>2. LockInv'
  BY LockUnchanged DEF Reply
<1>3. UsedInv'
  BY <1>0, NullAssumption, PacketType, ReceiptType, RequestType DEF Reply,
     AfterResponse, UsedInv, LoopInv, EmptySlot, IsWrite, Saved
<1>4. CallInv'
  BY <1>0, NullAssumption, PacketType DEF Reply, AfterResponse, CallInv,
     CallOf, Untouched, IsWrite, Saved, SameFingerprint, EmptySlot
<1>5. ReceiptInv'
  BY <1>0 DEF Reply, AfterResponse, ReceiptInv, SinglePending
<1>6. PacketInv'
  BY <1>0, NullAssumption, PacketType DEF Reply, AfterResponse, PacketInv,
     Recorded, EmptySlot
<1>7. LoopInv'
  BY <1>0 DEF Reply, AfterResponse, LoopInv
<1>8. EffectInv'
  BY <1>0 DEF Reply, AfterResponse, EffectInv, BeforeEffect, RefusedLate
<1>9. ExportInv'
  <2>1. UNCHANGED <<receipts, inbox, backups, consumed, handled, items, twins, applied>>
        /\ phase = "replying" /\ packet \in Packets /\ packet.id \in handled
        /\ packet.kind \in {"read", "stop"} \cup WriteKinds
    BY <1>0 DEF Reply, LoopInv, Packets
  <2>2. phase' = "quitting" =>
            reply = "accepted" /\ packet' = packet /\ packet.kind = "quit_resolve"
    BY DEF Reply, AfterResponse
  <2>3. phase' # "quitting" => packet' = EmptySlot /\ phase' \in {"off", "polling"}
    BY DEF Reply, AfterResponse
  <2>4. packet.id # None /\ packet'.id \in {packet.id, None} /\ consumed
    BY <1>0, <2>1, <2>2, <2>3, NullAssumption DEF Packets, EmptySlot, LoopInv
  <2>5. exports \subseteq exports'
    BY DEF Reply
  <2>6. ASSUME NEW e \in exports
        PROVE  /\ phase' # "off" => e.id \in handled'
               /\ e.code # "accepted" => Finished(e.id)'
               /\ e.code = "accepted" /\ e.id = packet'.id =>
                    phase' \in {"started", "replying", "quitting"}
    <3>1. /\ e.id \in handled
          /\ e.code # "accepted" => Finished(e.id)
          /\ e.id # None
      BY <1>0, <2>1, NullAssumption DEF ExportInv, Exports
    <3> QED
      BY <2>1, <2>2, <2>3, <2>4, <3>1, NullAssumption DEF Finished, EmptySlot
  <2>7. ASSUME NEW e \in exports, NEW k \in Keys, receipts'[k].id = e.id
        PROVE  /\ e.code = "rejected" => applied'[k] = 0 \/ RefusedLate(k)'
               /\ e.code \in {"ok", "accepted"} => e.id \in backups'
               /\ e.code = "accepted" => receipts'[k].kind # "edit"
               /\ e.code = "ok" /\ receipts'[k].kind = "edit" => applied'[k] = 1
               /\ e.code = "ok" /\ receipts'[k].kind # "edit" =>
                    \E a \in exports' : a.id = e.id /\ a.code = "accepted"
    BY <1>0, <2>1, <2>5, <2>7 DEF ExportInv, RefusedLate
  <2>8. ASSUME NEW e \in exports', e \notin exports
        PROVE  e.id = packet.id /\ e.code = reply
    BY <2>8 DEF Reply
  <2>9. ASSUME NEW e \in exports', e \notin exports
        PROVE  /\ phase' # "off" => e.id \in handled'
               /\ e.code # "accepted" => Finished(e.id)'
               /\ e.code = "accepted" /\ e.id = packet'.id =>
                    phase' \in {"started", "replying", "quitting"}
    BY <2>1, <2>2, <2>3, <2>4, <2>8, <2>9 DEF Finished, EmptySlot
  <2>10. ASSUME NEW e \in exports', e \notin exports, NEW k \in Keys,
                receipts'[k].id = e.id
         PROVE  /\ e.code = "rejected" => applied'[k] = 0 \/ RefusedLate(k)'
                /\ e.code \in {"ok", "accepted"} => e.id \in backups'
                /\ e.code = "accepted" => receipts'[k].kind # "edit"
                /\ e.code = "ok" /\ receipts'[k].kind = "edit" => applied'[k] = 1
                /\ e.code = "ok" /\ receipts'[k].kind # "edit" =>
                     \E a \in exports' : a.id = e.id /\ a.code = "accepted"
    <3>1. receipts[k].id = packet.id /\ e.id = packet.id /\ e.code = reply
      BY <2>1, <2>8, <2>10
    <3>2. packet.kind \in Writes /\ packet.key \in Keys
      BY <1>0, <2>1, <3>1, PacketType, WriteKindsAssumption DEF PacketInv, Recorded
    <3>3. k = packet.key /\ receipts[k].kind = packet.kind
      BY <1>0, <2>4, <3>1, <3>2 DEF ReceiptInv, PacketInv, Recorded
    <3>4. reply \in {"ok", "accepted"} => packet.id \in backups
      BY <1>0, <2>1, <3>2 DEF LoopInv
    <3>5. reply = "accepted" => packet.kind = "quit_resolve"
      BY <1>0, <2>1, <3>2 DEF LoopInv
    <3>6. reply = "ok" => packet.kind \in {"edit", "start_render"}
      BY <1>0, <2>1, <3>2 DEF LoopInv
    <3>7. /\ reply = "rejected" => applied[k] = 0 \/ RefusedLate(k)
          /\ reply = "ok" /\ packet.kind = "edit" => applied[k] = 1
          /\ reply = "ok" /\ packet.kind = "start_render" =>
               \E a \in exports : a.id = packet.id /\ a.code = "accepted"
      BY <1>0, <2>1, <3>2, <3>3 DEF EffectInv
    <3> QED
      BY <2>1, <2>5, <3>1, <3>3, <3>4, <3>5, <3>6, <3>7 DEF RefusedLate
  <2> QED
    BY <2>6, <2>7, <2>9, <2>10 DEF ExportInv
<1>10. SettledInv'
  BY <1>0, NullAssumption, PacketType, ReceiptType, RequestType DEF Reply,
     AfterResponse, SettledInv, Finished, RejectionNeedsRepeatedCheck,
     CompletedTookEffect, ExportInv, CallInv, CallOf, Untouched, LoopInv,
     EmptySlot, IsWrite, Saved
<1>11. RenderInv'
  BY <1>0 DEF Reply, AfterResponse, RenderInv, RenderStartedOnce
<1> QED
  BY <1>1, <1>2, <1>3, <1>4, <1>5, <1>6, <1>7, <1>8, <1>9, <1>10, <1>11 DEF
     IInv

\* A quit follows its exported acceptance.
LEMMA QuitStep ==
    ASSUME IInv, Quit
    PROVE  IInv'
<1>0. TypeOK /\ LockInv /\ UsedInv /\ CallInv /\ ReceiptInv /\ PacketInv
      /\ LoopInv /\ EffectInv /\ ExportInv /\ SettledInv /\ RenderInv
  BY DEF IInv
<1> USE DEF TypeOK, files, client, native, world, Goto, Writes
<1>1. TypeOK'
  BY <1>0, PacketType, ReceiptType, RequestType DEF Quit, OrNone, PCs,
     Phases, Codes, Saved, LoopInv, IsWrite
<1>2. LockInv'
  BY LockUnchanged DEF Quit
<1>3. UsedInv'
  BY <1>0, NullAssumption, PacketType DEF Quit, UsedInv, EmptySlot
<1>4. CallInv'
  BY <1>0, <1>1, RequestType, ReceiptType, PacketType, NullAssumption DEF
     Quit, NoReceipt, NoRequest, EmptySlot, OrNone, Phases, Codes, Untouched,
     Recorded, IsWrite, Saved, SameFingerprint, LockInv, UsedInv, CallInv,
     CallOf, ReceiptInv, PacketInv, LoopInv
<1>5. ReceiptInv'
  BY <1>0 DEF Quit, ReceiptInv, SinglePending
<1>6. PacketInv'
  BY <1>0, NullAssumption, PacketType DEF Quit, PacketInv, Recorded,
     EmptySlot
<1>7. LoopInv'
  BY <1>0 DEF Quit, LoopInv
<1>8. EffectInv'
  BY <1>0, NullAssumption, PacketType, ReceiptType, RequestType DEF Quit,
     EffectInv, BeforeEffect, RefusedLate, PacketInv, Recorded, LoopInv,
     ReceiptInv, EmptySlot, IsWrite, Saved
<1>9. ExportInv'
  BY <1>0, <1>1, RequestType, ReceiptType, PacketType, NullAssumption DEF
     Quit, NoReceipt, NoRequest, EmptySlot, OrNone, Phases, Codes,
     BeforeEffect, Finished, Untouched, RefusedLate, Recorded, IsWrite, Saved,
     SameFingerprint, LockInv, UsedInv, CallInv, CallOf, ReceiptInv,
     PacketInv, LoopInv, EffectInv, ExportInv
<1>10. SettledInv'
  BY <1>0, <1>1, RequestType, ReceiptType, PacketType, NullAssumption DEF
     Quit, NoReceipt, NoRequest, EmptySlot, OrNone, Phases, Codes,
     BeforeEffect, Finished, Untouched, RefusedLate, Recorded,
     RejectionNeedsRepeatedCheck, CompletedTookEffect, IsWrite, Saved,
     SameFingerprint, LockInv, UsedInv, CallInv, CallOf, ReceiptInv,
     PacketInv, LoopInv, EffectInv, ExportInv, SettledInv
<1>11. RenderInv'
  BY <1>0, PacketType DEF Quit, RenderInv, RenderStartedOnce, PacketInv,
     Recorded, LoopInv, ReceiptInv
<1> QED
  BY <1>1, <1>2, <1>3, <1>4, <1>5, <1>6, <1>7, <1>8, <1>9, <1>10, <1>11 DEF
     IInv

\* A loop that has left does not return.
LEMMA ExitBridgeStep ==
    ASSUME IInv, ExitBridge
    PROVE  IInv'
<1>0. TypeOK /\ LockInv /\ UsedInv /\ CallInv /\ ReceiptInv /\ PacketInv
      /\ LoopInv /\ EffectInv /\ ExportInv /\ SettledInv /\ RenderInv
  BY DEF IInv
<1> USE DEF TypeOK, files, client, native, world, Goto, Writes
<1>1. TypeOK'
  BY <1>0 DEF ExitBridge, OrNone, PCs, Phases, Codes
<1>2. LockInv'
  BY LockUnchanged DEF ExitBridge
<1>3. UsedInv'
  BY <1>0 DEF ExitBridge, UsedInv
<1>4. CallInv'
  BY <1>0 DEF ExitBridge, CallInv, CallOf, Untouched, IsWrite, Saved,
     SameFingerprint
<1>5. ReceiptInv'
  BY <1>0 DEF ExitBridge, ReceiptInv, SinglePending
<1>6. PacketInv'
  BY <1>0 DEF ExitBridge, PacketInv, Recorded
<1>7. LoopInv'
  BY <1>0 DEF ExitBridge, LoopInv
<1>8. EffectInv'
  BY <1>0 DEF ExitBridge, EffectInv, BeforeEffect, RefusedLate
<1>9. ExportInv'
  BY <1>0 DEF ExitBridge, ExportInv, Finished, RefusedLate
<1>10. SettledInv'
  BY <1>0 DEF ExitBridge, SettledInv, Finished,
     RejectionNeedsRepeatedCheck, CompletedTookEffect
<1>11. RenderInv'
  BY <1>0 DEF ExitBridge, RenderInv, RenderStartedOnce
<1> QED
  BY <1>1, <1>2, <1>3, <1>4, <1>5, <1>6, <1>7, <1>8, <1>9, <1>10, <1>11 DEF
     IInv

\* A crash forgets only what a consumed session can no longer use.
LEMMA ResolveCrashStep ==
    ASSUME IInv, ResolveCrash
    PROVE  IInv'
<1>0. TypeOK /\ LockInv /\ UsedInv /\ CallInv /\ ReceiptInv /\ PacketInv
      /\ LoopInv /\ EffectInv /\ ExportInv /\ SettledInv /\ RenderInv
  BY DEF IInv
<1> USE DEF TypeOK, files, client, native, world, Goto, Writes
<1>1. TypeOK'
  BY <1>0 DEF ResolveCrash, OrNone, PCs, Phases, Codes
<1>2. LockInv'
  BY LockUnchanged DEF ResolveCrash
<1>3. UsedInv'
  BY <1>0, NullAssumption, PacketType DEF ResolveCrash, UsedInv, EmptySlot
<1>4. CallInv'
  BY <1>0, NullAssumption, PacketType DEF ResolveCrash, CallInv, CallOf,
     Untouched, IsWrite, Saved, SameFingerprint, EmptySlot
<1>5. ReceiptInv'
  BY <1>0 DEF ResolveCrash, ReceiptInv, SinglePending
<1>6. PacketInv'
  BY <1>0, NullAssumption, PacketType DEF ResolveCrash, PacketInv, Recorded,
     EmptySlot
<1>7. LoopInv'
  BY <1>0 DEF ResolveCrash, LoopInv
<1>8. EffectInv'
  BY <1>0 DEF ResolveCrash, EffectInv, BeforeEffect, RefusedLate
<1>9. ExportInv'
  BY <1>0, NullAssumption, PacketType DEF ResolveCrash, ExportInv, Finished,
     RefusedLate, EmptySlot
<1>10. SettledInv'
  BY <1>0, NullAssumption, PacketType, ReceiptType, RequestType DEF
     ResolveCrash, SettledInv, Finished, RejectionNeedsRepeatedCheck,
     CompletedTookEffect, ExportInv, CallInv, CallOf, Untouched, LoopInv,
     EmptySlot, IsWrite, Saved
<1>11. RenderInv'
  BY <1>0 DEF ResolveCrash, RenderInv, RenderStartedOnce
<1> QED
  BY <1>1, <1>2, <1>3, <1>4, <1>5, <1>6, <1>7, <1>8, <1>9, <1>10, <1>11 DEF
     IInv

\* The user may switch the project at any moment.
LEMMA SwitchProjectStep ==
    ASSUME IInv, SwitchProject
    PROVE  IInv'
<1>0. TypeOK /\ LockInv /\ UsedInv /\ CallInv /\ ReceiptInv /\ PacketInv
      /\ LoopInv /\ EffectInv /\ ExportInv /\ SettledInv /\ RenderInv
  BY DEF IInv
<1> USE DEF TypeOK, files, client, native, world, Goto, Writes
<1>1. TypeOK'
  BY <1>0 DEF SwitchProject, OrNone, PCs, Phases, Codes
<1>2. LockInv'
  BY LockUnchanged DEF SwitchProject
<1>3. UsedInv'
  BY <1>0 DEF SwitchProject, OrNone, UsedInv
<1>4. CallInv'
  BY <1>0 DEF SwitchProject, OrNone, CallInv, CallOf, Untouched, IsWrite,
     Saved, SameFingerprint
<1>5. UNCHANGED Shared
  BY DEF SwitchProject, Shared
<1> QED
  BY <1>1, <1>2, <1>3, <1>4, <1>5, SharedStep DEF IInv

\* A deadline may pass at any moment.
LEMMA ExpireStep ==
    ASSUME IInv, Expire
    PROVE  IInv'
<1>0. TypeOK /\ LockInv /\ UsedInv /\ CallInv /\ ReceiptInv /\ PacketInv
      /\ LoopInv /\ EffectInv /\ ExportInv /\ SettledInv /\ RenderInv
  BY DEF IInv
<1> USE DEF TypeOK, files, client, native, world, Goto, Writes
<1>1. TypeOK'
  BY <1>0, PacketType, ReceiptType, RequestType DEF Expire, OrNone, PCs,
     Phases, Codes, Saved, LoopInv, IsWrite
<1>2. LockInv'
  BY LockUnchanged DEF Expire
<1>3. UsedInv'
  BY <1>0 DEF Expire, UsedInv
<1>4. CallInv'
  BY <1>0 DEF Expire, CallInv, CallOf, Untouched, IsWrite, Saved,
     SameFingerprint
<1>5. UNCHANGED Shared
  BY DEF Expire, Shared
<1> QED
  BY <1>1, <1>2, <1>3, <1>4, <1>5, SharedStep DEF IInv

-----------------------------------------------------------------------------
(* The invariant. *)

\* Every initial state satisfies the invariant: no call, no packet, no receipt.
LEMMA InitIInv == Init => IInv
<1> SUFFICES ASSUME Init PROVE IInv
  OBVIOUS
<1> USE NullAssumption DEF Init
<1>1. TypeOK
  BY ItemsAssumption DEF TypeOK, OrNone, PCs, Phases, Codes
<1>2. LockInv /\ UsedInv
  BY DEF LockInv, UsedInv, NoReceipt, EmptySlot
<1>3. CallInv
  BY DEF CallInv, CallOf, IsWrite, NoRequest, Writes
<1>4. ReceiptInv /\ PacketInv
  BY DEF ReceiptInv, SinglePending, PacketInv, Recorded, NoReceipt, EmptySlot, Writes
<1>5. LoopInv /\ EffectInv /\ ExportInv
  BY DEF LoopInv, EffectInv, ExportInv, EmptySlot, BeforeEffect, Writes
<1>6. SettledInv /\ RenderInv
  BY DEF SettledInv, RenderInv, RejectionNeedsRepeatedCheck, CompletedTookEffect,
         RenderStartedOnce, NoReceipt, EmptySlot
<1> QED
  BY <1>1, <1>2, <1>3, <1>4, <1>5, <1>6 DEF IInv

\* A step that changes nothing preserves the invariant.
LEMMA StutterStep ==
    ASSUME IInv, UNCHANGED vars
    PROVE  IInv'
<1>1. UNCHANGED Shared /\ UNCHANGED <<files, client, native, world>>
  BY DEF vars, files, client, native, world, Shared
<1>2. TypeOK'
  BY <1>1 DEF IInv, TypeOK, files, client, native, world
<1>3. LockInv' /\ UsedInv'
  BY <1>1 DEF IInv, LockInv, UsedInv, files, client, native, world
<1>4. CallInv'
  BY <1>1 DEF IInv, CallInv, CallOf, Untouched, IsWrite, Saved, SameFingerprint,
              files, client, native, world
<1> QED
  BY <1>1, <1>2, <1>3, <1>4, SharedStep DEF IInv

\* Every step of a client process, of the bridge and of the environment
\* preserves the invariant.
LEMMA NextStep ==
    ASSUME IInv, [Next]_vars
    PROVE  IInv'
<1>1. ASSUME NEW c \in Clients, Enter(c) \/ ClientStep(c) \/ Crash(c)
      PROVE  IInv'
  BY <1>1, EnterStep, AcquireStep, ResumeStep, ReplayStep, RefuseStep, PrepareStep,
     BeginStep, RefuseDestinationStep, PublishStep, NotPublishedStep, SeeErrorStep,
     SeeResponseStep, TimeoutStep, CloseStep, UnlockStep, CrashStep
     DEF ClientStep
<1>2. CASE BridgeStep
  BY <1>2, PollStep, AnswerReadStep, RefuseWriteStep, BackUpStep, RecheckStep, EditStep,
     VerifyStep, AcceptRenderStep, StartRenderingStep, ReplyStep, QuitStep
     DEF BridgeStep
<1>3. CASE RemoveStaleLock \/ StartBridge \/ ExitBridge \/ ResolveCrash
           \/ SwitchProject \/ Expire
  BY <1>3, RemoveStaleLockStep, StartBridgeStep, ExitBridgeStep, ResolveCrashStep,
     SwitchProjectStep, ExpireStep
<1>4. CASE UNCHANGED vars
  BY <1>4, StutterStep
<1> QED
  BY <1>1, <1>2, <1>3, <1>4 DEF Next

\* IInv holds in every reachable state.
THEOREM Invariance == Spec => []IInv
<1>1. Init => IInv
  BY InitIInv
<1>2. IInv /\ [Next]_vars => IInv'
  BY NextStep
<1> QED
  BY <1>1, <1>2, PTL DEF Spec

-----------------------------------------------------------------------------
(* Safety. *)

\* The files, the clients, the loop and the project always have their types.
THEOREM TypeCorrect == Spec => []TypeOK
<1>1. IInv => TypeOK
  BY DEF IInv
<1> QED
  BY <1>1, Invariance, PTL

\* However often the write of a key is submitted, retried or recovered, by
\* however many clients and across their crashes and that of Resolve, its
\* mutating call is made at most once.
THEOREM AtMostOnceHolds == Spec => []AtMostOnce
<1>1. IInv => AtMostOnce
  BY DEF IInv, EffectInv, AtMostOnce
<1> QED
  BY <1>1, Invariance, PTL

\* No two keys start the same render job.
THEOREM RenderStartedOnceHolds == Spec => []RenderStartedOnce
<1>1. IInv => RenderStartedOnce
  BY DEF IInv, RenderInv
<1> QED
  BY <1>1, Invariance, PTL

\* A receipt says "completed" only of a write that has its backup and its
\* effect, or its exported acceptance.
THEOREM CompletedTookEffectHolds == Spec => []CompletedTookEffect
<1>1. IInv => CompletedTookEffect
  BY DEF IInv, SettledInv
<1> QED
  BY <1>1, Invariance, PTL

\* A write that is recorded as rejected although it reached Resolve is an edit
\* that outgrew the item limit.
THEOREM RejectionHolds == Spec => []RejectionNeedsRepeatedCheck
<1>1. IInv => RejectionNeedsRepeatedCheck
  BY DEF IInv, SettledInv
<1> QED
  BY <1>1, Invariance, PTL

\* At most one receipt of a session is pending.
THEOREM SinglePendingHolds == Spec => []SinglePending
<1>1. IInv => SinglePending
  BY DEF IInv, ReceiptInv
<1> QED
  BY <1>1, Invariance, PTL

-----------------------------------------------------------------------------
(* What a step may never do. *)

\* The receipt of a write that is about to reach Resolve.
LEMMA InFlight ==
    ASSUME IInv, packet.kind \in Writes, phase \in {"cleared", "started", "quitting"}
    PROVE  /\ packet.key \in Keys /\ packet.id \in backups
           /\ receipts[packet.key].id = packet.id
           /\ receipts[packet.key].kind = packet.kind
           /\ applied[packet.key] = 0
           /\ \/ receipts[packet.key].status = "pending"
              \/ receipts[packet.key].status = "completed" /\ packet.kind # "edit"
<1>1. packet.key \in Keys /\ packet.id \in Ids
  BY PacketType DEF IInv
<1>2. packet.id \in backups
  BY DEF IInv, LoopInv
<1>3. receipts[packet.key].id = packet.id /\ receipts[packet.key].kind = packet.kind
  BY DEF IInv, PacketInv, Recorded
<1>4. applied[packet.key] = 0
  BY DEF IInv, EffectInv, BeforeEffect
<1>5. ~Finished(receipts[packet.key].id)
  BY <1>3 DEF Finished
<1>6. /\ receipts[packet.key].status # "rejected"
      /\ ~(receipts[packet.key].status = "completed" /\ receipts[packet.key].kind = "edit")
  BY <1>1, <1>5 DEF IInv, SettledInv
<1>7. receipts[packet.key].status \in {"pending", "completed"}
  BY <1>1, <1>3, <1>6, ReceiptType, NullAssumption DEF IInv
<1> QED
  BY <1>1, <1>2, <1>3, <1>4, <1>6, <1>7

\* Only three actions reach Resolve, each for the packet in hand.
LEMMA EffectStep ==
    ASSUME IInv, [Next]_vars, applied' # applied
    PROVE  /\ packet.kind \in Writes /\ phase \in {"cleared", "started", "quitting"}
           /\ applied' = [applied EXCEPT ![packet.key] = @ + 1]
           /\ UNCHANGED receipts
<1> USE DEF files, client, native, world, Goto, Return
<1>1. UNCHANGED applied \/ Edit \/ StartRendering \/ Quit
  <2>1. ASSUME NEW c \in Clients, Enter(c) \/ ClientStep(c) \/ Crash(c)
        PROVE  UNCHANGED applied
    BY <2>1 DEF Enter, ClientStep, Crash, Acquire, Resume, Replay, Refuse, Prepare,
                Begin, RefuseDestination, Publish, NotPublished, SeeError, SeeResponse,
                Timeout, Close, Unlock
  <2>2. BridgeStep => UNCHANGED applied \/ Edit \/ StartRendering \/ Quit
    BY DEF BridgeStep, Poll, AnswerRead, RefuseWrite, BackUp, Recheck, Verify,
           AcceptRender, Reply
  <2>3. RemoveStaleLock \/ StartBridge \/ ExitBridge \/ ResolveCrash \/ SwitchProject
        \/ Expire => UNCHANGED applied
    BY DEF RemoveStaleLock, StartBridge, ExitBridge, ResolveCrash, SwitchProject, Expire
  <2>4. UNCHANGED vars => UNCHANGED applied
    BY DEF vars
  <2> QED
    BY <2>1, <2>2, <2>3, <2>4 DEF Next
<1>2. CASE Edit
  BY <1>2 DEF Edit, Change, Answer, Writes
<1>3. CASE StartRendering
  BY <1>3 DEF StartRendering, IInv, LoopInv, Writes
<1>4. CASE Quit
  BY <1>4 DEF Quit, IInv, LoopInv, Writes
<1> QED
  BY <1>1, <1>2, <1>3, <1>4

\* Nothing reaches Resolve without a durable, unsettled receipt of the very
\* command and without its backup.
THEOREM WriteAheadHolds == Spec => WriteAhead
<1>1. IInv /\ [Next]_vars =>
        [\A k \in Keys : applied'[k] # applied[k] =>
            /\ receipts[k].id = packet.id /\ packet.id \in backups
            /\ \/ receipts[k].status = "pending"
               \/ receipts[k].status = "completed" /\ receipts[k].kind # "edit"]_vars
  <2> SUFFICES ASSUME IInv, [Next]_vars, NEW k \in Keys, applied'[k] # applied[k]
               PROVE  /\ receipts[k].id = packet.id /\ packet.id \in backups
                      /\ \/ receipts[k].status = "pending"
                         \/ /\ receipts[k].status = "completed"
                            /\ receipts[k].kind # "edit"
    OBVIOUS
  <2>1. k = packet.key
    BY EffectStep DEF IInv, TypeOK
  <2> QED
    BY <2>1, EffectStep, InFlight
<1> QED
  BY <1>1, Invariance, PTL DEF Spec, WriteAhead

\* The receipt of the command in a write's slot has the slot's key.
LEMMA SlotKey ==
    ASSUME IInv, inbox.kind \in Writes, NEW k \in Keys, receipts[k].id = inbox.id
    PROVE  inbox.key = k
<1>1. inbox.key \in Keys /\ inbox.id # None
  BY PacketType, NullAssumption DEF IInv
<1>2. receipts[inbox.key].id = inbox.id
  BY DEF IInv, PacketInv, Recorded
<1> QED
  BY <1>1, <1>2 DEF IInv, ReceiptInv

\* The inbox changes in four actions only.
LEMMA InboxStep ==
    ASSUME [Next]_vars, inbox' # inbox
    PROVE  \E c \in Clients : Replay(c) \/ Prepare(c) \/ Publish(c) \/ Close(c)
<1> USE DEF files, client, native, world, Goto, Return
<1>1. ASSUME NEW c \in Clients, Enter(c) \/ ClientStep(c) \/ Crash(c)
      PROVE  Replay(c) \/ Prepare(c) \/ Publish(c) \/ Close(c)
  BY <1>1 DEF Enter, ClientStep, Crash, Acquire, Resume, Refuse, Begin,
              RefuseDestination, NotPublished, SeeError, SeeResponse, Timeout, Unlock
<1>2. ~BridgeStep
  BY DEF BridgeStep, Poll, AnswerRead, RefuseWrite, BackUp, Recheck, Edit, Verify,
         AcceptRender, StartRendering, Reply, Quit
<1>3. ~(RemoveStaleLock \/ StartBridge \/ ExitBridge \/ ResolveCrash \/ SwitchProject
        \/ Expire)
  BY DEF RemoveStaleLock, StartBridge, ExitBridge, ResolveCrash, SwitchProject, Expire
<1>4. ~UNCHANGED vars
  BY DEF vars
<1> QED
  BY <1>1, <1>2, <1>3, <1>4 DEF Next

\* A write's slot leaves the inbox only once its receipt is settled.
THEOREM UncertainSlotStaysHolds == Spec => UncertainSlotStays
<1> DEFINE Settled == /\ receipts[inbox.key].id = inbox.id
                      /\ receipts[inbox.key].status \in {"completed", "rejected"}
<1>1. IInv /\ [Next]_vars => [inbox.kind \in Writes /\ inbox' # inbox => Settled]_vars
  <2> SUFFICES ASSUME IInv, [Next]_vars, inbox.kind \in Writes, inbox' # inbox
               PROVE  Settled
    OBVIOUS
  <2>1. receipts[inbox.key].id = inbox.id
    BY DEF IInv, PacketInv, Recorded
  <2>2. inbox.id # None
    BY PacketType, NullAssumption DEF IInv
  <2>3. PICK c \in Clients : Replay(c) \/ Prepare(c) \/ Publish(c) \/ Close(c)
    BY InboxStep
  <2>4. CASE Replay(c)
    <3>1. IsWrite(c) /\ Saved(c).status = "completed" /\ inbox.id = Saved(c).id
      BY <2>4 DEF Replay
    <3> QED
      BY <2>1, <3>1, SlotKey, RequestType DEF IInv, Saved
  <2>5. CASE Prepare(c)
    BY <2>5 DEF Prepare, ReadSlotRecoverable, Writes
  <2>6. CASE Publish(c)
    BY <2>6 DEF Publish, EmptySlot, Writes
  <2>7. CASE Close(c)
    <3>1. inbox.id = command_id[c] /\ (acknowledged[c] \/ ~IsWrite(c))
      BY <2>7 DEF Close
    <3>2. inbox.key \in Keys
      BY PacketType DEF IInv
    <3>3. IsWrite(c) /\ acknowledged[c]
      BY <2>1, <2>2, <3>1, <3>2 DEF IInv, CallInv, CallOf
    <3>4. Saved(c).id = command_id[c] /\ Saved(c).status \in {"completed", "rejected"}
      BY <3>3 DEF IInv, CallInv, CallOf
    <3> QED
      BY <2>1, <3>1, <3>3, <3>4, SlotKey, RequestType DEF IInv, Saved
  <2> QED
    BY <2>3, <2>4, <2>5, <2>6, <2>7
<1> QED
  BY <1>1, Invariance, PTL DEF Spec, UncertainSlotStays

\* stopped.json is written under client.lock, so that no call that passed the
\* last check of it is still on its way to publish.
StopInv == stopped => \A c \in Clients : pc[c] \notin {"prepared", "begun"}

\* Every step preserves StopInv.
LEMMA StopStep ==
    ASSUME IInv, StopInv, [Next]_vars
    PROVE  StopInv'
<1> USE DEF files, client, native, world, Goto, Return, StopInv
<1>0. pc \in [Clients -> PCs] /\ LockInv
  BY DEF IInv, TypeOK
<1>1. ASSUME NEW c \in Clients, SeeResponse(c)
      PROVE  StopInv'
  <2>1. pc[c] = "waiting" /\ pc' = [pc EXCEPT ![c] = "closing"]
    BY <1>1 DEF SeeResponse
  <2>2. \A d \in Clients : d # c => pc[d] \notin {"prepared", "begun"}
    BY <1>0, <2>1 DEF LockInv
  <2> QED
    BY <1>0, <2>1, <2>2
<1>2. ASSUME NEW c \in Clients, Prepare(c) \/ Begin(c)
      PROVE  StopInv'
  BY <1>0, <1>2 DEF Prepare, NewCommand, Begin
<1>3. ASSUME NEW c \in Clients,
             Enter(c) \/ Crash(c) \/ Acquire(c) \/ Resume(c) \/ Replay(c) \/ Refuse(c)
             \/ RefuseDestination(c) \/ Publish(c) \/ NotPublished(c) \/ SeeError(c)
             \/ Timeout(c) \/ Close(c) \/ Unlock(c)
      PROVE  StopInv'
  BY <1>0, <1>3 DEF Enter, Crash, Acquire, Resume, Replay, Refuse, RefuseDestination,
                    Publish, NotPublished, SeeError, Timeout, Close, Unlock
<1>4. CASE UNCHANGED <<stopped, pc>>
  BY <1>4
<1>5. BridgeStep \/ RemoveStaleLock \/ StartBridge \/ ExitBridge \/ ResolveCrash
      \/ SwitchProject \/ Expire \/ UNCHANGED vars => UNCHANGED <<stopped, pc>>
  BY DEF BridgeStep, Poll, AnswerRead, RefuseWrite, BackUp, Recheck, Edit, Verify,
         AcceptRender, StartRendering, Reply, Quit, RemoveStaleLock, StartBridge,
         ExitBridge, ResolveCrash, SwitchProject, Expire, vars
<1> QED
  BY <1>1, <1>2, <1>3, <1>4, <1>5 DEF Next, ClientStep

\* Once a session is stopped its inbox can only become empty.
THEOREM NothingPublishedAfterStopHolds == Spec => NothingPublishedAfterStop
<1>1. Init => StopInv
  BY DEF Init, StopInv
<1>2. IInv /\ StopInv /\ [Next]_vars => StopInv'
  BY StopStep
<1>3. IInv /\ StopInv /\ [Next]_vars =>
        [stopped /\ inbox' # inbox => inbox' = EmptySlot]_vars
  <2> SUFFICES ASSUME StopInv, [Next]_vars, stopped, inbox' # inbox
               PROVE  inbox' = EmptySlot
    OBVIOUS
  <2>1. PICK c \in Clients : Replay(c) \/ Prepare(c) \/ Publish(c) \/ Close(c)
    BY InboxStep
  <2> QED
    BY <2>1 DEF Replay, Prepare, Publish, Close, StopInv
<1> QED
  BY <1>1, <1>2, <1>3, Invariance, PTL DEF Spec, NothingPublishedAfterStop

-----------------------------------------------------------------------------
(* Refinement. *)

\* Settling the pending receipt of the lock owner's write moves exactly this
\* key's outcome.
LEMMA SettleOutcome ==
    ASSUME IInv, NEW c \in Clients, IsWrite(c), pc[c] \in {"begun", "waiting"},
           NEW status \in {"completed", "rejected"}, Settle(c, status),
           UNCHANGED applied
    PROVE  /\ request[c].key \in Keys
           /\ Outcome[request[c].key] = "unsettled"
           /\ Outcome' = [Outcome EXCEPT ![request[c].key] =
                            IF status = "completed" THEN "done"
                            ELSE IF applied[request[c].key] = 0 THEN "refused"
                            ELSE "misreported"]
<1>1. request[c].key \in Keys
  BY RequestType DEF IInv
<1>2. /\ receipts[request[c].key].status = "pending"
      /\ receipts'[request[c].key].status = status
      /\ \A k \in Keys : k # request[c].key => receipts'[k] = receipts[k]
  BY SettleType
<1> QED
  BY <1>1, <1>2 DEF Outcome, Meaning

\* A client's step begins, confirms, refuses or misreports one write of the
\* abstract session, or is invisible to it.
LEMMA ClientRefines ==
    ASSUME IInv, NEW c \in Clients,
           Enter(c) \/ ClientStep(c) \/ Crash(c)
    PROVE  [Abstract!Next]_Abstract!vars
<1> USE DEF files, client, native, world, Goto, Return
<1> DEFINE key == request[c].key
<1>0. UNCHANGED applied
  BY DEF Enter, ClientStep, Crash, Acquire, Resume, Replay, Refuse, Prepare, Begin,
         RefuseDestination, Publish, NotPublished, SeeError, SeeResponse, Timeout,
         Close, Unlock
<1>1. ASSUME UNCHANGED receipts
      PROVE  UNCHANGED Abstract!vars
  BY <1>0, <1>1 DEF Abstract!vars, Outcome, Meaning
<1>2. CASE Begin(c)
  <2>1. CASE IsWrite(c) /\ BeginsReceipt(c) /\ ~AnyPending
    <3>1. /\ key \in Keys /\ receipts[key] = NoReceipt
          /\ receipts'[key].status = "pending"
          /\ \A k \in Keys : k # key => receipts'[k] = receipts[k]
      BY <1>2, <2>1, BeginType DEF Begin
    <3>2. Outcome[key] = "none" /\ \A l \in Keys : Outcome[l] # "unsettled"
      BY <2>1, <3>1, ReceiptType DEF Outcome, Meaning, NoReceipt, AnyPending, IInv
    <3>3. Outcome' = [Outcome EXCEPT ![key] = "unsettled"]
      BY <1>0, <3>1 DEF Outcome, Meaning
    <3> QED
      BY <1>0, <3>1, <3>2, <3>3 DEF Abstract!Next, Abstract!Begin
  <2>2. CASE UNCHANGED receipts
    BY <1>1, <2>2
  <2> QED
    BY <1>2, <2>1, <2>2 DEF Begin, BeginsReceipt
<1>3. CASE NotPublished(c) /\ IsWrite(c)
  <2>1. pc[c] = "begun" /\ Settle(c, "rejected")
    BY <1>3 DEF NotPublished
  <2>2. applied[key] = 0
    BY <1>3, <2>1 DEF IInv, CallInv, CallOf
  <2> QED
    BY <1>0, <1>3, <2>1, <2>2, SettleOutcome DEF Abstract!Next, Abstract!Refuse
<1>4. CASE SeeError(c) /\ IsWrite(c) /\ ~UNCHANGED receipts
  <2>1. PICK e \in Errors(command_id[c]) :
            e.code = "rejected" /\ Settle(c, "rejected") /\ pc[c] = "waiting"
    BY <1>4 DEF SeeError
  <2>2. key \in Keys /\ Saved(c).id = command_id[c]
    BY <1>4, <2>1, RequestType DEF IInv, CallInv, CallOf
  <2>3. applied[key] \in {0, 1}
    BY <2>2 DEF IInv, EffectInv, TypeOK
  <2>4. /\ Outcome[key] = "unsettled"
        /\ Outcome' = [Outcome EXCEPT ![key] =
                         IF applied[key] = 0 THEN "refused" ELSE "misreported"]
    BY <1>0, <1>4, <2>1, SettleOutcome
  <2>5. CASE applied[key] = 0
    BY <1>0, <2>2, <2>4, <2>5 DEF Abstract!Next, Abstract!Refuse
  <2>6. CASE applied[key] = 1
    <3>1. Outcome' = [Outcome EXCEPT ![key] = "misreported"]
      BY <2>4, <2>6
    <3>2. Abstract!Misreport(key)
      BY <1>0, <2>4, <2>6, <3>1 DEF Abstract!Misreport
    <3> QED
      BY <2>2, <3>2 DEF Abstract!Next
  <2> QED
    BY <2>3, <2>5, <2>6
<1>5. CASE SeeResponse(c) /\ IsWrite(c) /\ ~UNCHANGED receipts
  <2>1. pc[c] = "waiting" /\ Settle(c, "completed")
    BY <1>5 DEF SeeResponse
  <2> QED
    BY <1>0, <1>5, <2>1, SettleOutcome DEF Abstract!Next, Abstract!Confirm
<1>6. CASE UNCHANGED receipts
  BY <1>1, <1>6
<1>7. \/ UNCHANGED receipts
      \/ Begin(c)
      \/ IsWrite(c) /\ (NotPublished(c) \/ SeeError(c) \/ SeeResponse(c))
  <2>1. NotPublished(c) \/ SeeError(c) \/ SeeResponse(c) => IsWrite(c) \/ UNCHANGED receipts
    BY DEF NotPublished, SeeError, SeeResponse
  <2>2. Enter(c) \/ Crash(c) \/ Acquire(c) \/ Resume(c) \/ Replay(c) \/ Refuse(c)
        \/ Prepare(c) \/ RefuseDestination(c) \/ Publish(c) \/ Timeout(c) \/ Close(c)
        \/ Unlock(c) => UNCHANGED receipts
    BY DEF Enter, Crash, Acquire, Resume, Replay, Refuse, Prepare, RefuseDestination,
           Publish, Timeout, Close, Unlock
  <2> QED
    BY <2>1, <2>2 DEF ClientStep
<1> QED
  BY <1>2, <1>3, <1>4, <1>5, <1>6, <1>7

\* A step that reaches Resolve is the effect of one begun write.
LEMMA EffectRefines ==
    ASSUME IInv, [Next]_vars, applied' # applied
    PROVE  Abstract!Next
<1>1. /\ packet.key \in Keys /\ applied[packet.key] = 0
      /\ receipts[packet.key].status \in {"pending", "completed"}
      /\ applied' = [applied EXCEPT ![packet.key] = @ + 1]
      /\ UNCHANGED receipts
  BY EffectStep, InFlight
<1>2. Outcome[packet.key] \in {"unsettled", "done"} /\ UNCHANGED Outcome
  BY <1>1 DEF Outcome, Meaning, IInv, TypeOK
<1>3. applied' = [applied EXCEPT ![packet.key] = 1]
  BY <1>1 DEF IInv, TypeOK
<1> QED
  BY <1>1, <1>2, <1>3 DEF Abstract!Next, Abstract!TakeEffect

\* Every behaviour of the session implements the contract of OnceWrites: per
\* key one begin, one outcome that is never revised, and one effect at most.
\* What was refused without an effect never gets one; a refusal that came after
\* the effect is mapped to an outcome of its own.
THEOREM Refinement == Spec => RefinesOnceWrites
<1>1. Init => Abstract!Init
  BY DEF Init, Abstract!Init, Outcome, Meaning, NoReceipt
<1>2. IInv /\ [Next]_vars => [Abstract!Next]_Abstract!vars
  <2> SUFFICES ASSUME IInv, [Next]_vars
               PROVE  [Abstract!Next]_Abstract!vars
    OBVIOUS
  <2>1. CASE applied' # applied
    BY <2>1, EffectRefines
  <2>2. ASSUME NEW c \in Clients, Enter(c) \/ ClientStep(c) \/ Crash(c)
        PROVE  [Abstract!Next]_Abstract!vars
    BY <2>2, ClientRefines
  <2>3. CASE UNCHANGED <<receipts, applied>>
    BY <2>3 DEF Abstract!vars, Outcome, Meaning
  <2>4. BridgeStep \/ RemoveStaleLock \/ StartBridge \/ ExitBridge \/ ResolveCrash
        \/ SwitchProject \/ Expire \/ UNCHANGED vars => UNCHANGED receipts
    BY DEF BridgeStep, Poll, AnswerRead, RefuseWrite, BackUp, Recheck, Edit, Verify,
           AcceptRender, StartRendering, Reply, Quit, RemoveStaleLock, StartBridge,
           ExitBridge, ResolveCrash, SwitchProject, Expire, vars, files, client,
           native, world
  <2> QED
    BY <2>1, <2>2, <2>3, <2>4 DEF Next
<1> QED
  BY <1>1, <1>2, Invariance, PTL DEF Spec, RefinesOnceWrites, Abstract!Spec

-----------------------------------------------------------------------------
(* The properties of the runs that join two of the above. *)

\* Neither a key nor a prepared render job has its effect twice.
THEOREM NoSecondEffectHolds == Spec => []NoSecondEffect
<1>1. AtMostOnce /\ RenderStartedOnce => NoSecondEffect
  BY DEF NoSecondEffect
<1> QED
  BY <1>1, AtMostOnceHolds, RenderStartedOnceHolds, PTL

\* A settled receipt tells the truth about the project, but for an edit that a
\* repeated check refused after its change.
THEOREM ReceiptsTellTheTruthHolds == Spec => []ReceiptsTellTheTruth
<1>1. CompletedTookEffect /\ RejectionNeedsRepeatedCheck => ReceiptsTellTheTruth
  BY DEF ReceiptsTellTheTruth
<1> QED
  BY <1>1, CompletedTookEffectHolds, RejectionHolds, PTL

\* An uncertain write keeps the slot, and a stopped session fills none.
THEOREM SlotDisciplineHolds == Spec => SlotDiscipline
  BY UncertainSlotStaysHolds, NothingPublishedAfterStopHolds DEF SlotDiscipline
=============================================================================
