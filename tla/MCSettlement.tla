---------------------------- MODULE MCSettlement ----------------------------
(* Settlement on a small mailbox. *)
EXTENDS Settlement, TLC

ThreadSymmetry == Permutations(Threads)
=============================================================================
