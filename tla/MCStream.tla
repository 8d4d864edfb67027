------------------------------ MODULE MCStream ------------------------------
(* Instances of Stream for TLC, without symmetry: they check liveness too. *)
EXTENDS Stream
=============================================================================
