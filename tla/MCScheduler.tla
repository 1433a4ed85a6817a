----------------------------- MODULE MCScheduler -----------------------------
(* Instance of Scheduler for TLC. *)
EXTENDS Scheduler

MCMaxProcs   == 5
MCStackCount == 5
MCBlockSize  == 4
MCPoolStart  == 6
=============================================================================
