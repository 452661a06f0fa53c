------------------------------ MODULE MCFallback ------------------------------
(* Fallback on a small mailbox. *)
EXTENDS Fallback, TLC

ThreadSymmetry == Permutations(Threads)
=============================================================================
