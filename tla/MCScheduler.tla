---------------------------- MODULE MCScheduler ----------------------------
(* Instances of Scheduler for TLC.                                          *)
EXTENDS Scheduler

CONSTANTS b1, b2, b3, b4, a1, a2, p1, p2
=============================================================================
