----------------------------- MODULE MCWorkQueue -----------------------------
(* WorkQueue with the requests its three callers make. *)
EXTENDS WorkQueue, TLC

\* New mail (ingest.ts), a Jev/Error removal (ingest.ts), and a manual refill
\* with and without moves (manual-refill.ts), at two times.
MCRequests ==
    {[source |-> "scheduled", enqueuedAt |-> time, positionSavedAt |-> 1,
      firstClassification |-> "unset", applyMoves |-> FALSE,
      resetStrikes |-> FALSE] : time \in 1..2}
    \cup
    {[source |-> "scheduled", enqueuedAt |-> time, positionSavedAt |-> NoTime,
      firstClassification |-> "notFirst", applyMoves |-> FALSE,
      resetStrikes |-> TRUE] : time \in 1..2}
    \cup
    {[source |-> "manual", enqueuedAt |-> time, positionSavedAt |-> NoTime,
      firstClassification |-> "unset", applyMoves |-> moves,
      resetStrikes |-> FALSE] : time \in 1..2, moves \in BOOLEAN}

ThreadSymmetry == Permutations(Threads)
=============================================================================
