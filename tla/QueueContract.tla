---------------------------- MODULE QueueContract ----------------------------
(***************************************************************************)
(* What callers of the work queue rely on: a set of work items, one per    *)
(* thread, that changes only through the operations of work-queue.ts, and  *)
(* what each of them answers.                                              *)
(* WorkQueue, which keeps the canonical array, implements it.              *)
(***************************************************************************)
EXTENDS WorkItems

CONSTANTS Threads,   \* thread IDs
          Requests   \* the enqueue requests callers make

VARIABLES
    items,    \* queued thread |-> work item
    answer    \* the last call and what it returned

vars == <<items, answer>>

Enqueue(t, request) ==
    /\ CanEnqueue(items, t, request.source)
    /\ items' = Enqueued(items, t, request)
    /\ answer' = EnqueueAnswer(t, IF t \in DOMAIN items THEN "merged" ELSE "queued")

EnqueueRefused(t, request) ==
    /\ ~CanEnqueue(items, t, request.source)
    /\ answer' = EnqueueAnswer(t, IF Cardinality(DOMAIN items) < QueueMaxItems
                                  THEN "full: manual" ELSE "full: total")
    /\ UNCHANGED items

Dequeue(t) ==
    /\ items' = Without(items, {t})
    /\ answer' = DequeueAnswer(t)

AddStrike(t) ==
    /\ t \in DOMAIN items
    /\ items' = Struck(items, t)
    /\ answer' = StrikeAnswer(t, items[t].strikes + 1)

SetFirstClassification(t, verdict) ==
    /\ t \in DOMAIN items
    /\ items' = Decided(items, t, verdict)
    /\ answer' = VerdictAnswer(t)

DropManualWork ==
    /\ items' = WithoutManualWork(items)
    /\ answer' = DropAnswer(Cardinality(ManualThreads(items)))

Init == items = [t \in {} |-> 0] /\ answer = NoAnswer

Next ==
    \/ \E t \in Threads :
          \/ \E request \in Requests : Enqueue(t, request) \/ EnqueueRefused(t, request)
          \/ Dequeue(t)
          \/ AddStrike(t)
          \/ \E verdict \in Verdicts \ {"unset"} : SetFirstClassification(t, verdict)
    \/ DropManualWork

Spec == Init /\ [][Next]_vars

=============================================================================
