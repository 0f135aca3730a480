-------------------------- MODULE MCMarkerMailbox --------------------------
(* Small instances of MarkerMailbox for TLC. *)
EXTENDS MarkerMailboxInvariant, TLC

Symmetry == Permutations(Clients) \cup Permutations(Keys)
            \cup Permutations(Projects) \cup Permutations(Ids)
=============================================================================
