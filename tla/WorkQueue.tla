------------------------------ MODULE WorkQueue ------------------------------
(***************************************************************************)
(* The work queue as src/core/work-queue.ts keeps it: an array in          *)
(* canonical order.  Every operation returns a new array; the state        *)
(* machine below lets a caller apply the operations in any legal order,    *)
(* and keeps what the last call answered.                                  *)
(* An entry pairs a thread ID with the item queued for it.                 *)
(***************************************************************************)
EXTENDS WorkItems, Sequences

CONSTANTS Threads, Requests

ASSUME RequestsAssumption == Requests \subseteq EnqueueRequest

VARIABLES
    queue,
    answer    \* the last call and what it returned

queueVars == <<queue, answer>>

Entry == [threadId : Threads, item : WorkItem]

ThreadIds(s) == {s[i].threadId : i \in DOMAIN s}

IndexOf(s, t) == CHOOSE i \in DOMAIN s : s[i].threadId = t

ItemOf(s, t) == s[IndexOf(s, t)].item

\* The entries of s at the indices I, in the order R, a strict total order on I.
\* Counting what comes before an index gives its place without recursion.
Arranged(s, I, R) ==
    LET place == [i \in I |-> 1 + Cardinality({j \in I : <<j, i>> \in R})]
    IN  [k \in 1..Cardinality(I) |-> s[CHOOSE i \in I : place[i] = k]]

\* Array.filter: the entries at the indices I, in the order they have.
Filtered(s, I) == Arranged(s, I, {p \in I \X I : p[1] < p[2]})

\* Fault: a sort that is not stable.
FaultyCanonicalPairs(s) ==
    LET I == DOMAIN s
    IN  {p \in I \X I : \/ Before(s[p[1]].item, s[p[2]].item)
                        \/ ~Before(s[p[2]].item, s[p[1]].item) /\ p[1] > p[2]}

\* Scheduled before manual, each by enqueuedAt, ties by the index in s.
CanonicalPairs(s) ==
    LET I == DOMAIN s
    IN  {p \in I \X I : \/ Before(s[p[1]].item, s[p[2]].item)
                        \/ ~Before(s[p[2]].item, s[p[1]].item) /\ p[1] < p[2]}

CanonicalOrder(s) == Arranged(s, DOMAIN s, CanonicalPairs(s))

ManualCount(s) == Cardinality({i \in DOMAIN s : s[i].item.source = "manual"})

\* The array with the item of thread t replaced.
Replaced(s, t, item) == [s EXCEPT ![IndexOf(s, t)].item = item]

Prefix(s, n) == SubSeq(s, 1, IF n < Len(s) THEN n ELSE Len(s))

Eligible(s, exclude, source) ==
    {i \in DOMAIN s : s[i].item.source = source /\ s[i].threadId \notin exclude}

\* Fault: cuts the queue to n before it filters it.
FaultyTakeChunk(s, n, exclude, source) ==
    LET front == Prefix(s, n) IN Filtered(front, Eligible(front, exclude, source))

TakeChunk(s, n, exclude, source) ==
    Prefix(Filtered(s, Eligible(s, exclude, source)), n)

Dequeued(s, t) == Filtered(s, {i \in DOMAIN s : s[i].threadId # t})

-----------------------------------------------------------------------------

EnqueueNew(t, request) ==
    /\ t \notin ThreadIds(queue)
    /\ Len(queue) < QueueMaxItems
    /\ request.source = "manual" => ManualCount(queue) < QueueMaxManualItems
    /\ queue' = CanonicalOrder(
                    Append(queue, [threadId |-> t, item |-> NewItem(request)]))
    /\ answer' = EnqueueAnswer(t, "queued")

\* The total cap is asked first.
EnqueueRefused(t, request) ==
    /\ t \notin ThreadIds(queue)
    /\ \/ /\ Len(queue) >= QueueMaxItems
          /\ answer' = EnqueueAnswer(t, "full: total")
       \/ /\ Len(queue) < QueueMaxItems
          /\ request.source = "manual"
          /\ ManualCount(queue) >= QueueMaxManualItems
          /\ answer' = EnqueueAnswer(t, "full: manual")
    /\ UNCHANGED queue

\* Fault: adds the merged item and keeps the old one.
MergeAsCopy(t, request) ==
    /\ t \in ThreadIds(queue)
    /\ Len(queue) <= QueueMaxItems
    /\ queue' = CanonicalOrder(
                    Append(queue, [threadId |-> t,
                                   item |-> MergedItem(ItemOf(queue, t), request)]))
    /\ answer' = EnqueueAnswer(t, "merged")

Merge(t, request) ==
    /\ t \in ThreadIds(queue)
    /\ queue' = CanonicalOrder(
                    Replaced(queue, t, MergedItem(ItemOf(queue, t), request)))
    /\ answer' = EnqueueAnswer(t, "merged")

\* An unknown thread is no error.
Dequeue(t) ==
    /\ queue' = Dequeued(queue, t)
    /\ answer' = DequeueAnswer(t)

\* Fault: the last stored strike already removes the item.
FaultyAddStrike(t) ==
    /\ t \in ThreadIds(queue)
    /\ LET item == ItemOf(queue, t)
           strikes == item.strikes + 1
       IN  /\ queue' = IF strikes >= MaxStoredStrikes
                       THEN Dequeued(queue, t)
                       ELSE Replaced(queue, t, [item EXCEPT !.strikes = strikes])
           /\ answer' = StrikeAnswer(t, strikes)

AddStrike(t) ==
    /\ t \in ThreadIds(queue)
    /\ LET item == ItemOf(queue, t)
           strikes == item.strikes + 1
       IN  /\ queue' = IF strikes > MaxStoredStrikes
                       THEN Dequeued(queue, t)
                       ELSE Replaced(queue, t, [item EXCEPT !.strikes = strikes])
           /\ answer' = StrikeAnswer(t, strikes)

SetFirstClassification(t, verdict) ==
    /\ t \in ThreadIds(queue)
    /\ LET item == ItemOf(queue, t)
       IN  queue' = IF item.firstClassification # "unset"
                    THEN queue
                    ELSE Replaced(queue, t,
                             [item EXCEPT !.firstClassification = verdict])
    /\ answer' = VerdictAnswer(t)

DropManualWork ==
    LET kept == Filtered(queue, {i \in DOMAIN queue : queue[i].item.source # "manual"})
    IN  /\ queue' = [i \in DOMAIN kept |-> [kept[i] EXCEPT !.item.applyMoves = FALSE]]
        /\ answer' = DropAnswer(Len(queue) - Len(kept))

QueueInit == queue = <<>> /\ answer = NoAnswer

QueueNext ==
    \/ \E t \in Threads :
          \/ \E request \in Requests :
                EnqueueNew(t, request) \/ EnqueueRefused(t, request) \/ Merge(t, request)
          \/ Dequeue(t)
          \/ AddStrike(t)
          \/ \E verdict \in Verdicts \ {"unset"} : SetFirstClassification(t, verdict)
    \/ DropManualWork

QueueSpec == QueueInit /\ [][QueueNext]_queueVars

-----------------------------------------------------------------------------
(* Properties.                                                             *)

\* The queue is an array of entries, at most one for each thread.  It is in canonical
\* order whatever a merge does to an item's keys, and past no cap: a manual job
\* leaves room for scheduled mail, also when merges turn its items into scheduled ones.
QueueOK ==
    /\ queue \in Seq(Entry)
    /\ Cardinality(ThreadIds(queue)) = Len(queue)
    /\ \A i, j \in DOMAIN queue : i < j => ~Before(queue[j].item, queue[i].item)
    /\ Len(queue) <= QueueMaxItems
    /\ ManualCount(queue) <= QueueMaxManualItems

\* A chunk is the oldest work of its source that the run has not taken yet,
\* whatever it has taken before: the front of the queue cannot be skipped.
ChunksAreOldestFirst ==
    LET held == [t \in ThreadIds(queue) |-> ItemOf(queue, t)]
    IN  \A exclude \in SUBSET Threads, source \in Sources, n \in 1..Cardinality(Threads) :
            ThreadIds(TakeChunk(queue, n, exclude, source))
                \in Chunks(held, n, exclude, source)

\* No operation lets one item overtake another of the same standing: two items
\* that keep their source and enqueuedAt keep their relative order.
NoOvertaking ==
    [][\A t, u \in ThreadIds(queue) \cap ThreadIds(queue)' :
          LET same(v) ==
                /\ ItemOf(queue, v).source = ItemOf(queue', v).source
                /\ ItemOf(queue, v).enqueuedAt = ItemOf(queue', v).enqueuedAt
          IN  same(t) /\ same(u) /\ IndexOf(queue, t) < IndexOf(queue, u)
                 => IndexOf(queue', t) < IndexOf(queue', u)]_queueVars

\* Whether an item is a first classification, and the position it was queued
\* against, are decided once: no merge, strike or cancel changes them later.
DecisionsStick ==
    [][\A t \in ThreadIds(queue) \cap ThreadIds(queue)' :
          LET old == ItemOf(queue, t)
              new == ItemOf(queue', t)
          IN  /\ old.firstClassification # "unset"
                    => new.firstClassification = old.firstClassification
              /\ old.positionSavedAt # NoTime
                    => new.positionSavedAt = old.positionSavedAt]_queueVars

\* The array implements the set of work items its callers rely on, answer for
\* answer: above all, which strike of a thread removes it, and what a refused,
\* merged or cancelled request changes.
QueueView == INSTANCE QueueContract
    WITH items <- [t \in ThreadIds(queue) |-> ItemOf(queue, t)]

ImplementsContract == QueueView!Spec
=============================================================================
