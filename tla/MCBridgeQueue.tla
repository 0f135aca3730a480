---------------------------- MODULE MCBridgeQueue ----------------------------
(* Small instances of BridgeQueue for TLC. *)
EXTENDS BridgeQueue
=============================================================================
