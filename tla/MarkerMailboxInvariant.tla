----------------------- MODULE MarkerMailboxInvariant -----------------------
(***************************************************************************)
(* The inductive invariant of MarkerMailbox.  The properties a user cares  *)
(* about are not inductive: that a write runs once depends on who holds    *)
(* client.lock, on which ids were ever drawn, published and handled, and   *)
(* on what the loop still remembers.  Each conjunct below is one of these  *)
(* arguments.                                                              *)
(***************************************************************************)
EXTENDS MarkerMailbox

\* Only the owner of client.lock is past Acquire; a call that is over, or has
\* not got the lock yet, has no command.
LockInv ==
    \A c \in Clients :
        /\ pc[c] \notin {"idle", "acquiring"} => client_lock = c
        /\ pc[c] = "idle" => request[c] = NoRequest
        /\ pc[c] # "idle" => request[c] \in Requests
        /\ pc[c] \in {"idle", "acquiring", "reconciling"} => command_id[c] = None
        /\ pc[c] \notin {"closing", "unlocking"} => ~acknowledged[c]

\* Every id that occurs anywhere was drawn.
UsedInv ==
    /\ \A k \in Keys : receipts[k].id \in used \cup {None}
    /\ \A c \in Clients : command_id[c] \in used \cup {None}
    /\ {inbox.id, packet.id} \subseteq used \cup {None}
    /\ handled \subseteq used /\ backups \subseteq used
    /\ \A e \in exports : e.id \in used

\* Nobody but the drawing client has seen this id.
Untouched(id) ==
    /\ id \notin {inbox.id, packet.id} \cup handled \cup backups
    /\ \A e \in exports : e.id # id

\* How the call of the lock owner relates to the receipt of its key.
CallOf(c) ==
    /\ pc[c] \in {"prepared", "begun"} =>
        command_id[c] \in Ids /\ Untouched(command_id[c])
    /\ pc[c] = "prepared" =>
        /\ \A k \in Keys : receipts[k].id # command_id[c]
        /\ IsWrite(c) => Saved(c).status = "absent"
    /\ pc[c] \in {"begun", "waiting"} /\ IsWrite(c) =>
        /\ Saved(c).status = "pending" /\ Saved(c).id = command_id[c]
        /\ SameFingerprint(c)
    /\ pc[c] = "begun" /\ IsWrite(c) => applied[request[c].key] = 0
    /\ ~IsWrite(c) =>
        \A k \in Keys : receipts[k].id = command_id[c] => command_id[c] = None
    /\ acknowledged[c] /\ IsWrite(c) =>
        /\ Saved(c).id = command_id[c]
        /\ Saved(c).status \in {"completed", "rejected"}
CallInv == \A c \in Clients : CallOf(c)

\* A command id belongs to one key, and one write at most is unsettled.
ReceiptInv ==
    /\ \A k, l \in Keys : receipts[k].id = receipts[l].id =>
            k = l \/ receipts[k].id = None
    /\ SinglePending

\* A write packet is the one its receipt speaks of, a read has no receipt.
Recorded(slot) ==
    /\ slot.kind \in Writes =>
        /\ receipts[slot.key].id = slot.id
        /\ receipts[slot.key].kind = slot.kind
        /\ receipts[slot.key].project = slot.project
    /\ slot.kind \in {"read", "stop"} => \A k \in Keys : receipts[k].id # slot.id
PacketInv == Recorded(inbox) /\ Recorded(packet)

\* What the loop has established when it is in a phase.
LoopInv ==
    /\ phase \in {"off", "polling"} => packet = EmptySlot
    /\ phase \notin {"off", "polling"} =>
        packet \in Packets /\ packet.id \in handled
    /\ phase \in {"backed_up", "cleared", "mutated", "started"} =>
        packet.id \in backups /\ project = packet.project
    /\ phase = "checking" => project \in Projects
    /\ phase \in {"backed_up", "quitting"} => packet.kind \in Writes
    /\ phase = "cleared" => packet.kind \in {"edit", "start_render"}
    /\ phase = "mutated" => packet.kind = "edit"
    /\ phase = "started" => packet.kind = "start_render"
    /\ phase = "quitting" => packet.kind = "quit_resolve" /\ packet.id \in backups
    /\ phase = "replying" /\ packet.kind \in Writes =>
        /\ reply = "accepted" => packet.kind = "quit_resolve"
        /\ reply = "ok" => packet.kind \in {"edit", "start_render"}
        /\ reply \in {"ok", "accepted"} => packet.id \in backups
    /\ phase # "off" => consumed
    /\ ~consumed => handled = {} /\ exports = {} /\ \A k \in Keys : applied[k] = 0

\* The loop will not take this id (again).
Finished(id) ==
    /\ packet.id # id
    /\ inbox.id = id => consumed /\ (phase # "off" => id \in handled)

\* A check that the edit of this key repeats after its change would fail.
RefusedLate(k) ==
    /\ receipts[k].kind = "edit"
    /\ items[receipts[k].project] > MaxItems \/ k \in twins

BeforeEffect ==
    \/ phase \in {"checking", "backed_up", "cleared", "started", "quitting"}
    \/ phase = "replying" /\ reply = "accepted"

\* How often each write reached Resolve.
EffectInv ==
    /\ \A k \in Keys : applied[k] <= 1
    /\ \A k \in Keys : applied[k] > 0 =>
        /\ receipts[k].id # None
        /\ phase # "off" => receipts[k].id \in handled
    /\ packet.kind \in Writes /\ BeforeEffect => applied[packet.key] = 0
    /\ phase = "mutated" => applied[packet.key] = 1
    /\ phase = "replying" /\ packet.kind = "edit" /\ reply = "ok" =>
        applied[packet.key] = 1
    /\ phase = "replying" /\ packet.kind \in Writes /\ reply = "rejected" =>
        applied[packet.key] = 0 \/ RefusedLate(packet.key)
    /\ \/ phase = "started"
       \/ phase = "replying" /\ packet.kind = "start_render" /\ reply = "ok"
       => \E e \in exports : e.id = packet.id /\ e.code = "accepted"

\* What an exported response proves.
ExportInv ==
    \A e \in exports :
        /\ phase # "off" => e.id \in handled
        /\ e.code # "accepted" => Finished(e.id)
        /\ e.code = "accepted" /\ e.id = packet.id =>
            phase \in {"started", "replying", "quitting"}
        /\ \A k \in Keys : receipts[k].id = e.id =>
            /\ e.code = "rejected" => applied[k] = 0 \/ RefusedLate(k)
            /\ e.code \in {"ok", "accepted"} => e.id \in backups
            /\ e.code = "accepted" => receipts[k].kind # "edit"
            /\ e.code = "ok" /\ receipts[k].kind = "edit" => applied[k] = 1
            /\ e.code = "ok" /\ receipts[k].kind # "edit" =>
                \E a \in exports : a.id = e.id /\ a.code = "accepted"

\* What a settled receipt proves.
SettledInv ==
    /\ RejectionNeedsRepeatedCheck
    /\ CompletedTookEffect
    /\ \A k \in Keys :
        \/ receipts[k].status = "rejected"
        \/ receipts[k].status = "completed" /\ receipts[k].kind = "edit"
        => Finished(receipts[k].id)

\* Which jobs have been started.
RenderInv ==
    /\ RenderStartedOnce
    /\ \A k \in Keys :
        receipts[k].kind = "start_render" /\ applied[k] > 0 /\ phase # "off" =>
            receipts[k].project \in started
    /\ packet.kind = "start_render" /\ phase \in {"backed_up", "cleared"} =>
        project \notin started
    /\ phase = "started" =>
        /\ project \in started
        /\ \A k \in Keys :
            receipts[k].kind = "start_render" /\ receipts[k].project = project =>
                applied[k] = 0

IInv ==
    /\ TypeOK
    /\ LockInv /\ UsedInv /\ CallInv /\ ReceiptInv /\ PacketInv
    /\ LoopInv /\ EffectInv /\ ExportInv /\ SettledInv /\ RenderInv
=============================================================================
