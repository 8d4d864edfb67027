--------------------------- MODULE MCConnTracker ---------------------------
(* Instances of ConnTracker for TLC. *)
EXTENDS ConnTracker, TLC

Symmetry == Permutations(Dials) \cup Permutations(Closers)
=============================================================================
