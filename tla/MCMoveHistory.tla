---------------------------- MODULE MCMoveHistory ----------------------------
(* MoveHistory on a small mailbox. *)
EXTENDS MoveHistory, TLC

ThreadSymmetry == Permutations(Threads)

\* Bound: no thread is deleted, and each record after the first is of one thread.
SmallMailbox ==
    /\ gone = {}
    /\ \A i \in 2..Len(history) : Cardinality(Wanted(history[i])) <= 1
=============================================================================
