-------------------------- MODULE MCBridgeActions --------------------------
(* Two timelines; every action is sent up to three times. *)
EXTENDS BridgeActions
=============================================================================
