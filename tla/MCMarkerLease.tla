---------------------------- MODULE MCMarkerLease ----------------------------
(* A small instance of MarkerLease for TLC. *)
EXTENDS MarkerLease, TLC

Symmetry == Permutations(Keepers) \cup Permutations(Requests)
=============================================================================
