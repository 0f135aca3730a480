----------------------------- MODULE MCSDKWorker -----------------------------
(* Small instances of SDKWorker for TLC. *)
EXTENDS SDKWorker, TLC

Symmetry == Permutations(Ids) \cup Permutations(Keys)
=============================================================================
