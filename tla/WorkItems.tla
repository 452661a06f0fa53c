------------------------------ MODULE WorkItems ------------------------------
(***************************************************************************)
(* What the work queue of src/core/work-queue.ts holds, without its order. *)
(* A queue is a function from the queued thread IDs to their work items:   *)
(* "one item per thread" is then part of the type, and the order in which  *)
(* items are taken is read off their fields (Before).  WorkQueue models    *)
(* the array the code really keeps and is checked to implement this view.  *)
(***************************************************************************)
EXTENDS Integers, FiniteSets

CONSTANTS
    QueueMaxItems,        \* QUEUE_MAX_ITEMS (1000)
    QueueMaxManualItems,  \* QUEUE_MAX_MANUAL_ITEMS (200)
    MaxStoredStrikes      \* MAX_STORED_STRIKES (2)

ASSUME QueueBoundsAssumption ==
    /\ QueueMaxItems \in Nat \ {0}
    /\ QueueMaxManualItems \in Nat \ {0}
    /\ MaxStoredStrikes \in Nat \ {0}

Sources == {"scheduled", "manual"}

\* An absent positionSavedAt.  A stored timestamp is never negative.
NoTime == -1
Timestamps == Nat
OptionalTimestamps == Timestamps \cup {NoTime}

\* firstClassification is unset until the first read of the thread decides it.
Verdicts == {"unset", "first", "notFirst"}

\* applyMoves is `true` or absent: the code only ever asks `=== true`.
WorkItem ==
    [source : Sources,
     enqueuedAt : Timestamps,
     strikes : 0..MaxStoredStrikes,
     positionSavedAt : OptionalTimestamps,
     firstClassification : Verdicts,
     applyMoves : BOOLEAN]

EnqueueRequest ==
    [source : Sources,
     enqueuedAt : Timestamps,
     positionSavedAt : OptionalTimestamps,
     firstClassification : Verdicts,
     applyMoves : BOOLEAN,
     resetStrikes : BOOLEAN]

NewItem(request) ==
    [source |-> request.source,
     enqueuedAt |-> request.enqueuedAt,
     strikes |-> 0,
     positionSavedAt |-> request.positionSavedAt,
     firstClassification |-> request.firstClassification,
     applyMoves |-> request.applyMoves]

\* Fault: the newer request decides again.
FaultyMergedItem(item, request) ==
    [item EXCEPT
        !.source = IF request.source = "scheduled" THEN "scheduled" ELSE @,
        !.firstClassification =
            IF request.firstClassification = "unset" THEN @
            ELSE request.firstClassification]

\* A request for a thread that is already queued.
MergedItem(item, request) ==
    [source |-> IF "scheduled" \in {item.source, request.source}
                THEN "scheduled" ELSE "manual",
     enqueuedAt |-> IF request.enqueuedAt < item.enqueuedAt
                    THEN request.enqueuedAt ELSE item.enqueuedAt,
     strikes |-> IF request.resetStrikes THEN 0 ELSE item.strikes,
     positionSavedAt |-> IF item.positionSavedAt = NoTime
                         THEN request.positionSavedAt ELSE item.positionSavedAt,
     firstClassification |-> IF item.firstClassification = "unset"
                             THEN request.firstClassification
                             ELSE item.firstClassification,
     applyMoves |-> item.applyMoves \/ request.applyMoves]

-----------------------------------------------------------------------------
(* The operations, on a function q from queued threads to items.           *)

Without(q, S) == [t \in DOMAIN q \ S |-> q[t]]

ManualThreads(q) == {t \in DOMAIN q : q[t].source = "manual"}

\* The two caps, in the order the code asks: total, then manual.
HasRoom(q, source) ==
    /\ Cardinality(DOMAIN q) < QueueMaxItems
    /\ source = "manual" => Cardinality(ManualThreads(q)) < QueueMaxManualItems

\* A thread that is already queued merges, even at a cap.
CanEnqueue(q, t, source) == t \in DOMAIN q \/ HasRoom(q, source)

Enqueued(q, t, request) ==
    [u \in DOMAIN q \cup {t} |->
        CASE u # t                   -> q[u]
          [] u = t /\ t \in DOMAIN q -> MergedItem(q[t], request)
          [] OTHER                   -> NewItem(request)]

\* One strike; the item leaves with the strike that passes the stored maximum.
Struck(q, t) ==
    IF q[t].strikes < MaxStoredStrikes
    THEN [q EXCEPT ![t].strikes = @ + 1]
    ELSE Without(q, {t})

\* A verdict once decided stays.
Decided(q, t, verdict) ==
    IF q[t].firstClassification = "unset"
    THEN [q EXCEPT ![t].firstClassification = verdict]
    ELSE q

\* Cancel or replace a manual job.
WithoutManualWork(q) ==
    [t \in DOMAIN q \ ManualThreads(q) |-> [q[t] EXCEPT !.applyMoves = FALSE]]

-----------------------------------------------------------------------------
(* What a call answers.                                                    *)

NoAnswer == [call |-> "none"]
EnqueueAnswer(t, outcome) == [call |-> "enqueue", threadId |-> t, outcome |-> outcome]
DequeueAnswer(t) == [call |-> "dequeue", threadId |-> t]
StrikeAnswer(t, strikes) == [call |-> "addStrike", threadId |-> t, strikes |-> strikes]
VerdictAnswer(t) == [call |-> "setFirstClassification", threadId |-> t]
DropAnswer(removed) == [call |-> "dropManualWork", removed |-> removed]

-----------------------------------------------------------------------------
(* The canonical order.  Items that agree on both keys keep the order they *)
(* were queued in, which this view leaves open.                            *)

Rank(item) == IF item.source = "scheduled" THEN 0 ELSE 1

Before(a, b) ==
    \/ Rank(a) < Rank(b)
    \/ Rank(a) = Rank(b) /\ a.enqueuedAt < b.enqueuedAt

\* The chunks takeChunk may return: as many as fit of the items of the given
\* source that are not excluded, none of them behind one that is left out.
Chunks(q, n, exclude, source) ==
    LET eligible == {t \in DOMAIN q \ exclude : q[t].source = source}
    IN  {C \in SUBSET eligible :
            /\ Cardinality(C) <= n
            /\ C # eligible => Cardinality(C) = n
            /\ \A t \in C, u \in eligible \ C : ~Before(q[u], q[t])}
=============================================================================
