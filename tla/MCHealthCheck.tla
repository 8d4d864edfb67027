--------------------------- MODULE MCHealthCheck ---------------------------
(* Instances of HealthCheck for TLC, without symmetry: they check liveness too. *)
EXTENDS HealthCheck
=============================================================================
