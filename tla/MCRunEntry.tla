------------------------------ MODULE MCRunEntry ------------------------------
(* Overlapping executions within a few clock readings. *)
EXTENDS RunEntry, TLC

ExecutionSymmetry == Permutations(Executions)
=============================================================================
