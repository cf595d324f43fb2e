---------------------------- MODULE MCScheduler ----------------------------
(* Scheduler on a small instance.  A run that checks liveness exchanges      *)
(* nothing, so no symmetry is declared.                                      *)
EXTENDS Scheduler
=============================================================================
