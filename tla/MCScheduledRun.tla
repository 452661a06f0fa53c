---------------------------- MODULE MCScheduledRun ----------------------------
(* ScheduledRun on a small mailbox. *)
EXTENDS ScheduledRun, TLC

ThreadSymmetry == Permutations(Threads)
=============================================================================
