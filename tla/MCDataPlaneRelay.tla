-------------------------- MODULE MCDataPlaneRelay --------------------------
(* Instances of DataPlaneRelay for TLC. *)
EXTENDS DataPlaneRelay

CONSTANT s1
=============================================================================
