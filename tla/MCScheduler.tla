----------------------------- MODULE MCScheduler ----------------------------
(* Scheduler for TLC: two processes, three threads, deltas up to three.    *)
EXTENDS Scheduler

CONSTANTS p1, p2, t1, t2, t3

MCDeltas == 1 .. 3
=============================================================================
