------------------------- MODULE MCSchedulerRunner --------------------------
(* Instance of SchedulerRunner for TLC. *)
EXTENDS SchedulerRunner

CONSTANTS r1, r2, r3
=============================================================================
