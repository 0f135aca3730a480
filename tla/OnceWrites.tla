----------------------------- MODULE OnceWrites -----------------------------
(***************************************************************************)
(* What a caller of a Resolve session may rely on, per idempotency key: a  *)
(* write is begun at most once, at most one write is unsettled at a time,  *)
(* an outcome never changes once it is known, the write reaches Resolve at *)
(* most once, and a write that was refused without an effect never gets    *)
(* one.  A write that was refused although it had its effect is            *)
(* "misreported": it is over as well, and its effect is its only one.      *)
(***************************************************************************)
EXTENDS Naturals

CONSTANT Keys

VARIABLES outcome, effects

vars == <<outcome, effects>>

Outcomes == {"none", "unsettled", "done", "refused", "misreported"}

Init ==
    /\ outcome = [k \in Keys |-> "none"]
    /\ effects = [k \in Keys |-> 0]

Begin(k) ==
    /\ outcome[k] = "none" /\ \A l \in Keys : outcome[l] # "unsettled"
    /\ outcome' = [outcome EXCEPT ![k] = "unsettled"]
    /\ UNCHANGED effects

\* A render start or a quit is acknowledged before it takes effect.
TakeEffect(k) ==
    /\ outcome[k] \in {"unsettled", "done"} /\ effects[k] = 0
    /\ effects' = [effects EXCEPT ![k] = 1]
    /\ UNCHANGED outcome

Confirm(k) ==
    /\ outcome[k] = "unsettled"
    /\ outcome' = [outcome EXCEPT ![k] = "done"]
    /\ UNCHANGED effects

Refuse(k) ==
    /\ outcome[k] = "unsettled" /\ effects[k] = 0
    /\ outcome' = [outcome EXCEPT ![k] = "refused"]
    /\ UNCHANGED effects

\* The refusal of a write that took effect.
Misreport(k) ==
    /\ outcome[k] = "unsettled" /\ effects[k] = 1
    /\ outcome' = [outcome EXCEPT ![k] = "misreported"]
    /\ UNCHANGED effects

Next == \E k \in Keys :
    Begin(k) \/ TakeEffect(k) \/ Confirm(k) \/ Refuse(k) \/ Misreport(k)

Spec == Init /\ [][Next]_vars
=============================================================================
