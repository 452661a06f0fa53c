----------------------------- MODULE MCManualJob ------------------------------
(* The manual job on a small mailbox. *)
EXTENDS ManualJob, TLC

ThreadSymmetry == Permutations(Threads)
=============================================================================
