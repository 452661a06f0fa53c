----------------------------- MODULE QueueProofs -----------------------------
(***************************************************************************)
(* Proofs about the two forms of the work queue.                           *)
(*                                                                         *)
(* WorkQueue, the array in memory, for any threads, requests and caps: it  *)
(* is in canonical order and within its caps, chunks come oldest first,    *)
(* nothing is overtaken, no decision is taken back, and the array          *)
(* implements QueueContract.  Sorting and filtering are one operator, that *)
(* arranges the entries at some indices in some order; the first lemmas    *)
(* say what it returns, for arrays of any length, and the others what each *)
(* operation does to the array as a set of items (View) and to the places  *)
(* of the threads.                                                         *)
(*                                                                         *)
(* ShardedList, the stored list, for any items, versions, number of shards *)
(* and of interrupted saves: the type invariant, that no step of a save    *)
(* loses a survivor, and that the shards implement ListStore.  The         *)
(* invariant behind them says that a shard of the new list is either       *)
(* still to be written or stored as planned, which a temporary shard past  *)
(* the end and the deletes past the end do not disturb, and that no item   *)
(* is in two shards of the new list.                                       *)
(***************************************************************************)
EXTENDS WorkQueue, ShardedList, FiniteSetTheorems, WellFoundedInduction, TLAPS

-----------------------------------------------------------------------------
(* Sorting and filtering an array.                                         *)

\* R puts the indices I in one order.
IsOrder(I, R) ==
    /\ \A i \in I : <<i, i>> \notin R
    /\ \A i, j \in I : i # j => <<i, j>> \in R \/ <<j, i>> \in R
    /\ \A i, j, k \in I : <<i, j>> \in R /\ <<j, k>> \in R => <<i, k>> \in R

\* The array r has the entries of s at the indices I, each once, and `at` says
\* where each of them was.
Rearranges(s, I, R, r, at) ==
    /\ at \in [1..Cardinality(I) -> I]
    /\ r = [k \in 1..Cardinality(I) |-> s[at[k]]]
    /\ \A i \in I : \E k \in 1..Cardinality(I) : at[k] = i
    /\ \A k, l \in 1..Cardinality(I) : k < l => <<at[k], at[l]>> \in R

\* Counting what comes before an index gives each its place, from the first to
\* the last.
LEMMA ArrangedFacts ==
    ASSUME NEW s, NEW I, IsFiniteSet(I), NEW R, IsOrder(I, R)
    PROVE  Cardinality(I) \in Nat /\ \E at : Rearranges(s, I, R, Arranged(s, I, R), at)
<1> DEFINE n == Cardinality(I)
           Pre(i) == {j \in I : <<j, i>> \in R}
           place == [i \in I |-> 1 + Cardinality(Pre(i))]
           at == [k \in 1..n |-> CHOOSE i \in I : place[i] = k]
<1>1. n \in Nat
  BY FS_CardinalityType
<1>2. ASSUME NEW i \in I
      PROVE  /\ IsFiniteSet(Pre(i)) /\ Cardinality(Pre(i)) \in Nat
             /\ Cardinality(Pre(i)) < n
  <2>1. Pre(i) \subseteq I \ {i}
    BY DEF IsOrder
  <2>2. IsFiniteSet(I \ {i}) /\ Cardinality(I \ {i}) = n - 1
    BY FS_RemoveElement
  <2>3. IsFiniteSet(Pre(i)) /\ Cardinality(Pre(i)) <= n - 1
    BY <2>1, <2>2, FS_Subset
  <2>4. Cardinality(Pre(i)) \in Nat
    BY <2>3, FS_CardinalityType
  <2> QED BY <1>1, <2>3, <2>4
<1>3. ASSUME NEW i \in I, NEW j \in I, <<i, j>> \in R PROVE place[i] < place[j]
  <2>1. i \in Pre(j) /\ Pre(i) \subseteq Pre(j) \ {i}
    BY <1>3 DEF IsOrder
  <2> HIDE DEF Pre
  <2>2. /\ IsFiniteSet(Pre(j) \ {i})
        /\ Cardinality(Pre(j) \ {i}) = Cardinality(Pre(j)) - 1
    BY <1>2, <2>1, FS_RemoveElement
  <2>3. Cardinality(Pre(i)) <= Cardinality(Pre(j)) - 1
    BY <2>1, <2>2, FS_Subset
  <2> QED BY <1>2, <2>3
<1>4. place \in [I -> 1..n]
  <2> HIDE DEF Pre
  <2> QED BY <1>1, <1>2
<1>5. \A i \in I : place[i] \in Int
  BY <1>1, <1>4
<1> HIDE DEF place
<1>6. ASSUME NEW i \in I, NEW j \in I, place[i] = place[j] PROVE i = j
  <2> SUFFICES ASSUME i # j PROVE FALSE
    OBVIOUS
  <2>1. <<i, j>> \in R \/ <<j, i>> \in R
    BY DEF IsOrder
  <2> QED BY <1>3, <1>5, <1>6, <2>1
<1>7. place \in Surjection(I, 1..n)
  <2>1. place \in Injection(I, 1..n)
    BY <1>4, <1>6 DEF Injection, IsInjective
  <2>2. IsFiniteSet(1..n) /\ Cardinality(1..n) = n
    BY <1>1, FS_Interval
  <2> QED BY <2>1, <2>2, FS_Injection
<1>8. \A k \in 1..n : at[k] \in I /\ place[at[k]] = k
  BY <1>7 DEF Surjection
<1>9. Arranged(s, I, R) = [k \in 1..n |-> s[at[k]]]
  BY DEF Arranged, place
<1> HIDE DEF at
<1>10. \A i \in I : \E k \in 1..n : at[k] = i
  BY <1>4, <1>6, <1>8
<1>11. ASSUME NEW k \in 1..n, NEW l \in 1..n, k < l PROVE <<at[k], at[l]>> \in R
  <2>1. at[k] # at[l]
    BY <1>8, <1>11
  <2>2. <<at[k], at[l]>> \in R \/ <<at[l], at[k]>> \in R
    BY <1>8, <2>1 DEF IsOrder
  <2>3. ASSUME <<at[l], at[k]>> \in R PROVE l < k
    <3>1. at[l] \in I /\ at[k] \in I /\ place[at[l]] = l /\ place[at[k]] = k
      BY <1>8
    <3> QED BY <1>3, <2>3, <3>1
  <2> QED BY <1>1, <1>11, <2>2, <2>3
<1>12. at \in [1..n -> I]
  BY <1>8 DEF at
<1> QED BY <1>1, <1>9, <1>10, <1>11, <1>12 DEF Rearranges

\* The array has at most one entry for a thread.
Distinct(s) == \A i, j \in DOMAIN s : s[i].threadId = s[j].threadId => i = j

Sorted(s) == \A i, j \in DOMAIN s : i < j => ~Before(s[j].item, s[i].item)

\* An array has as many indices as entries.
LEMMA LengthFacts ==
    ASSUME NEW s \in Seq(Entry)
    PROVE  /\ DOMAIN s = 1..Len(s) /\ Len(s) \in Nat
           /\ IsFiniteSet(DOMAIN s) /\ Cardinality(DOMAIN s) = Len(s)
           /\ \A I \in SUBSET DOMAIN s :
                 /\ IsFiniteSet(I) /\ Cardinality(I) \in Nat /\ Cardinality(I) <= Len(s)
<1>1. DOMAIN s = 1..Len(s) /\ Len(s) \in Nat
  OBVIOUS
<1>2. IsFiniteSet(DOMAIN s) /\ Cardinality(DOMAIN s) = Len(s)
  BY <1>1, FS_Interval
<1>3. ASSUME NEW I \in SUBSET DOMAIN s
      PROVE  IsFiniteSet(I) /\ Cardinality(I) \in Nat /\ Cardinality(I) <= Len(s)
  <2>1. IsFiniteSet(I) /\ Cardinality(I) <= Len(s)
    BY <1>2, FS_Subset
  <2> QED BY <2>1, FS_CardinalityType
<1> QED BY <1>1, <1>2, <1>3

\* The array as the set of work items it stands for.
View(s) == [t \in ThreadIds(s) |-> ItemOf(s, t)]

\* A thread is found at the one place where it is.
LEMMA IndexFacts ==
    ASSUME NEW s, Distinct(s), NEW i \in DOMAIN s
    PROVE  /\ s[i].threadId \in ThreadIds(s)
           /\ IndexOf(s, s[i].threadId) = i
           /\ ItemOf(s, s[i].threadId) = s[i].item
           /\ View(s)[s[i].threadId] = s[i].item
<1>1. s[i].threadId \in ThreadIds(s)
  BY DEF ThreadIds
<1>2. IndexOf(s, s[i].threadId) = i
  BY DEF IndexOf, Distinct
<1> QED BY <1>1, <1>2 DEF ItemOf, View

\* Every thread of the array is at a place.
LEMMA ThreadFacts ==
    ASSUME NEW s, Distinct(s), NEW t \in ThreadIds(s)
    PROVE  /\ IndexOf(s, t) \in DOMAIN s
           /\ s[IndexOf(s, t)].threadId = t
           /\ s[IndexOf(s, t)].item = ItemOf(s, t)
           /\ View(s)[t] = ItemOf(s, t)
<1>1. PICK i \in DOMAIN s : s[i].threadId = t
  BY DEF ThreadIds
<1> QED BY <1>1, IndexFacts DEF View, ItemOf

\* What is queued for a thread is a work item.
LEMMA ItemTyping ==
    ASSUME NEW s \in Seq(Entry), Distinct(s), NEW t \in ThreadIds(s)
    PROVE  ItemOf(s, t) = View(s)[t] /\ ItemOf(s, t) \in WorkItem
<1>1. /\ IndexOf(s, t) \in DOMAIN s /\ s[IndexOf(s, t)].item = ItemOf(s, t)
      /\ View(s)[t] = ItemOf(s, t)
  BY ThreadFacts
<1>2. s[IndexOf(s, t)] \in Entry
  BY <1>1
<1> QED BY <1>1, <1>2 DEF Entry

\* What the array counts is what the set holds.
LEMMA CountFacts ==
    ASSUME NEW s \in Seq(Entry), Distinct(s)
    PROVE  /\ IsFiniteSet(ThreadIds(s))
           /\ Cardinality(ThreadIds(s)) = Len(s)
           /\ Cardinality(ManualThreads(View(s))) = ManualCount(s)
           /\ ManualCount(s) \in Nat /\ ManualCount(s) <= Len(s)
           /\ DOMAIN View(s) = ThreadIds(s)
<1>1. IsFiniteSet(DOMAIN s) /\ Cardinality(DOMAIN s) = Len(s) /\ Len(s) \in Nat
  BY LengthFacts
<1>2. IsFiniteSet(ThreadIds(s)) /\ Cardinality(ThreadIds(s)) = Len(s)
  <2> DEFINE f == [i \in DOMAIN s |-> s[i].threadId]
  <2>1. f \in Bijection(DOMAIN s, ThreadIds(s))
    BY DEF Bijection, Injection, IsInjective, Surjection, ThreadIds, Distinct
  <2> QED BY <1>1, <2>1, FS_Bijection DEF ExistsBijection
<1>3. DOMAIN View(s) = ThreadIds(s)
  BY DEF View
<1> DEFINE M == {i \in DOMAIN s : s[i].item.source = "manual"}
<1>4. IsFiniteSet(M) /\ Cardinality(M) <= Len(s) /\ Cardinality(M) \in Nat
  BY LengthFacts
<1>5. Cardinality(ManualThreads(View(s))) = Cardinality(M)
  <2> DEFINE f == [i \in M |-> s[i].threadId]
  <2>1. \A i \in M : f[i] \in ManualThreads(View(s))
    BY <1>3, IndexFacts DEF ManualThreads
  <2>2. \A t \in ManualThreads(View(s)) : \E i \in M : f[i] = t
    BY <1>3, ThreadFacts DEF ManualThreads
  <2>3. \A i, j \in M : f[i] = f[j] => i = j
    BY DEF Distinct
  <2>4. f \in Bijection(M, ManualThreads(View(s)))
    BY <2>1, <2>2, <2>3 DEF Bijection, Injection, IsInjective, Surjection
  <2> HIDE DEF M, f
  <2> QED BY <1>4, <2>4, FS_Bijection DEF ExistsBijection
<1> QED BY <1>2, <1>3, <1>4, <1>5 DEF ManualCount

\* The canonical order puts the indices in one order.
LEMMA CanonicalIsOrder ==
    ASSUME NEW s \in Seq(Entry) PROVE IsOrder(DOMAIN s, CanonicalPairs(s))
<1> DEFINE rank(i) == Rank(s[i].item)
           time(i) == s[i].item.enqueuedAt
<1>1. ASSUME NEW i \in DOMAIN s PROVE i \in Nat /\ time(i) \in Nat /\ rank(i) \in Nat
  <2>1. i \in Nat /\ s[i] \in Entry
    OBVIOUS
  <2>2. s[i].item \in WorkItem
    BY <2>1 DEF Entry
  <2>3. time(i) \in Nat
    BY <2>2 DEF WorkItem, Timestamps
  <2> QED BY <2>1, <2>3 DEF Rank
<1>2. ASSUME NEW i \in DOMAIN s, NEW j \in DOMAIN s
      PROVE  <<i, j>> \in CanonicalPairs(s) <=>
                \/ rank(i) < rank(j)
                \/ rank(i) = rank(j) /\ time(i) < time(j)
                \/ rank(i) = rank(j) /\ time(i) = time(j) /\ i < j
  <2>1. <<i, j>> \in CanonicalPairs(s) <=>
            \/ Before(s[i].item, s[j].item)
            \/ ~Before(s[j].item, s[i].item) /\ i < j
    BY DEF CanonicalPairs
  <2>2. Before(s[i].item, s[j].item) <=>
            \/ rank(i) < rank(j)
            \/ rank(i) = rank(j) /\ time(i) < time(j)
    BY DEF Before
  <2>3. Before(s[j].item, s[i].item) <=>
            \/ rank(j) < rank(i)
            \/ rank(j) = rank(i) /\ time(j) < time(i)
    BY DEF Before
  <2>4. /\ time(i) \in Nat /\ rank(i) \in Nat /\ time(j) \in Nat /\ rank(j) \in Nat
    BY <1>1
  <2> HIDE DEF rank, time
  <2> QED BY <2>1, <2>2, <2>3, <2>4
<1> HIDE DEF rank, time
<1>3. \A i \in DOMAIN s : <<i, i>> \notin CanonicalPairs(s)
  BY <1>1, <1>2
<1>4. \A i, j \in DOMAIN s :
         i # j => <<i, j>> \in CanonicalPairs(s) \/ <<j, i>> \in CanonicalPairs(s)
  BY <1>1, <1>2
<1>5. ASSUME NEW i \in DOMAIN s, NEW j \in DOMAIN s, NEW k \in DOMAIN s,
             <<i, j>> \in CanonicalPairs(s), <<j, k>> \in CanonicalPairs(s)
      PROVE  <<i, k>> \in CanonicalPairs(s)
  BY <1>1, <1>2, <1>5
<1> QED BY <1>3, <1>4, <1>5 DEF IsOrder

\* So is the order of any of the indices.
LEMMA IndicesAreOrdered ==
    ASSUME NEW s \in Seq(Entry), NEW I \in SUBSET DOMAIN s
    PROVE  IsOrder(I, {p \in I \X I : p[1] < p[2]})
<1>1. \A i \in I : i \in Nat
  OBVIOUS
<1> QED BY <1>1 DEF IsOrder

\* Neither sorting nor filtering changes an entry, or what it has become.
LEMMA RearrangedFacts ==
    ASSUME NEW s \in Seq(Entry), Distinct(s), NEW I \in SUBSET DOMAIN s, NEW R,
           IsOrder(I, R), Cardinality(I) \in Nat, NEW r, NEW at, Rearranges(s, I, R, r, at)
    PROVE  /\ r \in Seq(Entry) /\ Len(r) = Cardinality(I) /\ Distinct(r)
           /\ ThreadIds(r) = {s[i].threadId : i \in I}
           /\ \A t \in ThreadIds(r) : t \in ThreadIds(s) /\ ItemOf(r, t) = ItemOf(s, t)
           /\ \A k \in DOMAIN r : r[k] = s[at[k]]
           /\ \A k, l \in DOMAIN r : k < l => <<at[k], at[l]>> \in R
           /\ \A t, u \in ThreadIds(r) :
                 <<IndexOf(s, t), IndexOf(s, u)>> \in R <=> IndexOf(r, t) < IndexOf(r, u)
<1> DEFINE n == Cardinality(I)
<1>1. /\ \A k \in 1..n : at[k] \in I /\ at[k] \in DOMAIN s /\ s[at[k]] \in Entry
      /\ r = [k \in 1..n |-> s[at[k]]]
      /\ \A i \in I : \E k \in 1..n : at[k] = i
      /\ \A k, l \in 1..n : k < l => <<at[k], at[l]>> \in R
  BY DEF Rearranges
<1>2. r \in Seq(Entry) /\ Len(r) = n /\ DOMAIN r = 1..n
  BY <1>1
<1>3. \A k, l \in 1..n : at[k] = at[l] => k = l
  <2>1. ASSUME NEW k \in 1..n, NEW l \in 1..n, at[k] = at[l], k # l PROVE FALSE
    <3>1. k < l \/ l < k
      BY <2>1
    <3>2. <<at[k], at[k]>> \in R
      BY <1>1, <2>1, <3>1
    <3> QED BY <1>1, <3>2 DEF IsOrder
  <2> QED BY <2>1
<1>4. Distinct(r)
  BY <1>1, <1>2, <1>3 DEF Distinct
<1>5. ThreadIds(r) = {s[i].threadId : i \in I}
  BY <1>1, <1>2 DEF ThreadIds
<1>6. ASSUME NEW t \in ThreadIds(r)
      PROVE  /\ IndexOf(r, t) \in 1..n /\ at[IndexOf(r, t)] = IndexOf(s, t)
             /\ t \in ThreadIds(s) /\ ItemOf(r, t) = ItemOf(s, t)
  <2> DEFINE k == IndexOf(r, t)
  <2>1. k \in 1..n /\ r[k].threadId = t /\ r[k].item = ItemOf(r, t)
    BY <1>2, <1>4, ThreadFacts
  <2> HIDE DEF k
  <2>2. r[k] = s[at[k]] /\ at[k] \in DOMAIN s
    BY <1>1, <2>1
  <2>3. t \in ThreadIds(s) /\ IndexOf(s, t) = at[k] /\ ItemOf(s, t) = s[at[k]].item
    BY <2>1, <2>2, IndexFacts
  <2> QED BY <2>1, <2>2, <2>3 DEF k
<1>7. ASSUME NEW t \in ThreadIds(r), NEW u \in ThreadIds(r)
      PROVE  <<IndexOf(s, t), IndexOf(s, u)>> \in R <=> IndexOf(r, t) < IndexOf(r, u)
  <2>1. PICK k \in 1..n, l \in 1..n :
           /\ k = IndexOf(r, t) /\ at[k] = IndexOf(s, t)
           /\ l = IndexOf(r, u) /\ at[l] = IndexOf(s, u)
    BY <1>6
  <2>2. k < l => <<at[k], at[l]>> \in R
    BY <1>1
  <2>3. l < k => <<at[l], at[k]>> \in R
    BY <1>1
  <2>4. ~(<<at[k], at[l]>> \in R /\ <<at[l], at[k]>> \in R) /\ <<at[k], at[k]>> \notin R
    BY <1>1 DEF IsOrder
  <2>5. k < l \/ l < k \/ k = l
    OBVIOUS
  <2>6. k = l => ~(k < l)
    OBVIOUS
  <2>7. <<at[k], at[l]>> \in R <=> k < l
    BY <2>2, <2>3, <2>4, <2>5, <2>6
  <2> QED BY <2>1, <2>7
<1> QED BY <1>1, <1>2, <1>4, <1>5, <1>6, <1>7

\* Of two items at most one is before the other.
LEMMA BeforeIsStrict ==
    ASSUME NEW a \in WorkItem, NEW b \in WorkItem, Before(a, b) PROVE ~Before(b, a)
<1>1. /\ a.enqueuedAt \in Nat /\ b.enqueuedAt \in Nat
      /\ Rank(a) \in Nat /\ Rank(b) \in Nat
  BY DEF WorkItem, Timestamps, Rank
<1> HIDE DEF Rank
<1> QED BY <1>1 DEF Before

\* The array in canonical order stands for the same set, and items of the same
\* standing keep their order.
LEMMA CanonicalFacts ==
    ASSUME NEW s \in Seq(Entry), Distinct(s)
    PROVE  LET r == CanonicalOrder(s)
           IN  /\ r \in Seq(Entry) /\ Len(r) = Len(s) /\ Distinct(r) /\ Sorted(r)
               /\ ThreadIds(r) = ThreadIds(s) /\ View(r) = View(s)
               /\ \A t, u \in ThreadIds(s) :
                     /\ IndexOf(s, t) < IndexOf(s, u)
                     /\ ~Before(ItemOf(s, u), ItemOf(s, t))
                     => IndexOf(r, t) < IndexOf(r, u)
<1> DEFINE r == CanonicalOrder(s)
           R == CanonicalPairs(s)
<1>1. IsFiniteSet(DOMAIN s) /\ Cardinality(DOMAIN s) = Len(s) /\ Len(s) \in Nat
  BY LengthFacts
<1>2. PICK at : Rearranges(s, DOMAIN s, R, r, at)
  BY <1>1, CanonicalIsOrder, ArrangedFacts DEF CanonicalOrder
<1>3. /\ r \in Seq(Entry) /\ Len(r) = Len(s) /\ Distinct(r)
      /\ ThreadIds(r) = {s[i].threadId : i \in DOMAIN s}
      /\ \A t \in ThreadIds(r) : t \in ThreadIds(s) /\ ItemOf(r, t) = ItemOf(s, t)
      /\ \A k \in DOMAIN r : r[k] = s[at[k]]
      /\ \A k, l \in DOMAIN r : k < l => <<at[k], at[l]>> \in R
      /\ \A t, u \in ThreadIds(r) :
            <<IndexOf(s, t), IndexOf(s, u)>> \in R <=> IndexOf(r, t) < IndexOf(r, u)
  BY <1>1, <1>2, CanonicalIsOrder, RearrangedFacts
<1>4. ThreadIds(r) = ThreadIds(s)
  BY <1>3 DEF ThreadIds
<1>5. View(r) = View(s)
  BY <1>3, <1>4 DEF View
<1>6. Sorted(r)
  <2> SUFFICES ASSUME NEW k \in DOMAIN r, NEW l \in DOMAIN r, k < l
               PROVE  ~Before(r[l].item, r[k].item)
    BY DEF Sorted
  <2>1. <<at[k], at[l]>> \in R /\ r[k] = s[at[k]] /\ r[l] = s[at[l]]
    BY <1>3
  <2>2. \/ Before(r[k].item, r[l].item)
        \/ ~Before(r[l].item, r[k].item)
    BY <2>1 DEF CanonicalPairs
  <2>3. r[k].item \in WorkItem /\ r[l].item \in WorkItem
    <3>1. r[k] \in Entry /\ r[l] \in Entry
      BY <1>3
    <3> QED BY <3>1 DEF Entry
  <2> QED BY <2>2, <2>3, BeforeIsStrict
<1>7. ASSUME NEW t \in ThreadIds(s), NEW u \in ThreadIds(s),
             IndexOf(s, t) < IndexOf(s, u), ~Before(ItemOf(s, u), ItemOf(s, t))
      PROVE  IndexOf(r, t) < IndexOf(r, u)
  <2>1. /\ IndexOf(s, t) \in DOMAIN s /\ s[IndexOf(s, t)].item = ItemOf(s, t)
        /\ IndexOf(s, u) \in DOMAIN s /\ s[IndexOf(s, u)].item = ItemOf(s, u)
    BY ThreadFacts
  <2>2. <<IndexOf(s, t), IndexOf(s, u)>> \in R
    BY <1>7, <2>1 DEF CanonicalPairs
  <2> QED BY <1>3, <1>4, <2>2
<1> HIDE DEF r
<1>8. r = CanonicalOrder(s)
  BY DEF r
<1> QED BY <1>3, <1>4, <1>5, <1>6, <1>7, <1>8

\* A filtered array stands for what is left of the set, and all of it keeps its
\* order.
LEMMA FilteredFacts ==
    ASSUME NEW s \in Seq(Entry), Distinct(s), NEW I \in SUBSET DOMAIN s
    PROVE  LET r == Filtered(s, I)
           IN  /\ r \in Seq(Entry) /\ Len(r) = Cardinality(I) /\ Distinct(r)
               /\ Sorted(s) => Sorted(r)
               /\ ThreadIds(r) = {s[i].threadId : i \in I}
               /\ ThreadIds(r) \subseteq ThreadIds(s)
               /\ View(r) = [t \in ThreadIds(r) |-> View(s)[t]]
               /\ \A t, u \in ThreadIds(r) :
                     IndexOf(s, t) < IndexOf(s, u) <=> IndexOf(r, t) < IndexOf(r, u)
<1> DEFINE r == Filtered(s, I)
           R == {p \in I \X I : p[1] < p[2]}
<1>1. IsFiniteSet(I)
  BY LengthFacts
<1>2. IsOrder(I, R) /\ Cardinality(I) \in Nat
  BY <1>1, IndicesAreOrdered, FS_CardinalityType
<1>3. PICK at : Rearranges(s, I, R, r, at)
  BY <1>1, <1>2, ArrangedFacts DEF Filtered
<1>4. /\ r \in Seq(Entry) /\ Len(r) = Cardinality(I) /\ Distinct(r)
      /\ ThreadIds(r) = {s[i].threadId : i \in I}
      /\ \A t \in ThreadIds(r) : t \in ThreadIds(s) /\ ItemOf(r, t) = ItemOf(s, t)
      /\ \A k \in DOMAIN r : r[k] = s[at[k]]
      /\ \A k, l \in DOMAIN r : k < l => <<at[k], at[l]>> \in R
      /\ \A t, u \in ThreadIds(r) :
            <<IndexOf(s, t), IndexOf(s, u)>> \in R <=> IndexOf(r, t) < IndexOf(r, u)
  BY <1>2, <1>3, RearrangedFacts
<1>5. View(r) = [t \in ThreadIds(r) |-> View(s)[t]]
  BY <1>4 DEF View
<1>6. Sorted(s) => Sorted(r)
  <2> SUFFICES ASSUME Sorted(s), NEW k \in DOMAIN r, NEW l \in DOMAIN r, k < l
               PROVE  ~Before(r[l].item, r[k].item)
    BY DEF Sorted
  <2>1. <<at[k], at[l]>> \in R /\ r[k] = s[at[k]] /\ r[l] = s[at[l]]
    BY <1>4
  <2>2. at[k] \in DOMAIN s /\ at[l] \in DOMAIN s /\ at[k] < at[l]
    BY <2>1
  <2> QED BY <2>1, <2>2 DEF Sorted
<1>7. ASSUME NEW t \in ThreadIds(r), NEW u \in ThreadIds(r)
      PROVE  IndexOf(s, t) < IndexOf(s, u) <=> IndexOf(r, t) < IndexOf(r, u)
  <2>1. \A v \in ThreadIds(r) : IndexOf(s, v) \in I
    <3>1. \A i \in I : IndexOf(s, s[i].threadId) = i
      BY IndexFacts
    <3> QED BY <1>4, <3>1
  <2>2. <<IndexOf(s, t), IndexOf(s, u)>> \in R <=> IndexOf(s, t) < IndexOf(s, u)
    BY <2>1
  <2> QED BY <1>4, <2>2
<1> HIDE DEF r
<1>8. r = Filtered(s, I)
  BY DEF r
<1> QED BY <1>4, <1>5, <1>6, <1>7, <1>8

-----------------------------------------------------------------------------
(* Adding and replacing an entry.                                          *)

\* A new thread goes behind the others.
LEMMA AppendFacts ==
    ASSUME NEW s \in Seq(Entry), Distinct(s), NEW t \in Threads, t \notin ThreadIds(s),
           NEW item \in WorkItem
    PROVE  LET r == Append(s, [threadId |-> t, item |-> item])
           IN  /\ r \in Seq(Entry) /\ Len(r) = Len(s) + 1 /\ Distinct(r)
               /\ ThreadIds(r) = ThreadIds(s) \cup {t}
               /\ View(r) = [u \in ThreadIds(s) \cup {t} |->
                                IF u = t THEN item ELSE View(s)[u]]
               /\ \A u \in ThreadIds(s) : IndexOf(r, u) = IndexOf(s, u)
<1> DEFINE entry == [threadId |-> t, item |-> item]
           r == Append(s, entry)
<1>1. /\ r \in Seq(Entry) /\ Len(r) = Len(s) + 1 /\ Len(s) \in Nat
      /\ DOMAIN s = 1..Len(s) /\ DOMAIN r = 1..(Len(s) + 1)
      /\ \A i \in DOMAIN s : r[i] = s[i]
      /\ r[Len(s) + 1] = entry
  <2>1. entry \in Entry
    BY DEF Entry
  <2> QED BY <2>1
<1>2. entry.threadId = t /\ entry.item = item
  OBVIOUS
<1> HIDE DEF entry, r
<1>3. \A i \in DOMAIN r : i \in DOMAIN s \/ i = Len(s) + 1
  BY <1>1
<1>4. Distinct(r)
  <2>1. \A i \in DOMAIN s : s[i].threadId # t
    BY DEF ThreadIds
  <2> QED BY <1>1, <1>2, <1>3, <2>1 DEF Distinct
<1>5. ThreadIds(r) = ThreadIds(s) \cup {t}
  <2>1. ThreadIds(r) \subseteq ThreadIds(s) \cup {t}
    BY <1>1, <1>2, <1>3 DEF ThreadIds
  <2>2. Len(s) + 1 \in DOMAIN r /\ DOMAIN s \subseteq DOMAIN r
    BY <1>1
  <2>3. ThreadIds(s) \cup {t} \subseteq ThreadIds(r)
    BY <1>1, <1>2, <2>2 DEF ThreadIds
  <2> QED BY <2>1, <2>3
<1>6. ASSUME NEW u \in ThreadIds(s)
      PROVE  IndexOf(r, u) = IndexOf(s, u) /\ ItemOf(r, u) = View(s)[u]
  <2>1. PICK i \in DOMAIN s : s[i].threadId = u
    BY DEF ThreadIds
  <2>2. i \in DOMAIN r /\ r[i] = s[i]
    BY <1>1
  <2> QED BY <1>4, <2>1, <2>2, IndexFacts
<1>7. ItemOf(r, t) = item
  BY <1>1, <1>2, <1>4, IndexFacts
<1>8. View(r) = [u \in ThreadIds(s) \cup {t} |-> IF u = t THEN item ELSE View(s)[u]]
  BY <1>5, <1>6, <1>7 DEF View
<1>9. r = Append(s, [threadId |-> t, item |-> item])
  BY DEF r, entry
<1> QED BY <1>1, <1>4, <1>5, <1>6, <1>8, <1>9

\* The item of one thread changes, and no place does.
LEMMA ReplacedFacts ==
    ASSUME NEW s \in Seq(Entry), Distinct(s), NEW t \in ThreadIds(s), NEW item \in WorkItem
    PROVE  LET r == Replaced(s, t, item)
           IN  /\ r \in Seq(Entry) /\ Len(r) = Len(s) /\ Distinct(r)
               /\ ThreadIds(r) = ThreadIds(s)
               /\ View(r) = [View(s) EXCEPT ![t] = item]
               /\ \A u \in ThreadIds(s) : IndexOf(r, u) = IndexOf(s, u)
               /\ Sorted(s) /\ item.source = ItemOf(s, t).source
                    /\ item.enqueuedAt = ItemOf(s, t).enqueuedAt => Sorted(r)
<1> DEFINE r == Replaced(s, t, item)
<1>1. PICK k \in DOMAIN s : k = IndexOf(s, t) /\ s[k].threadId = t /\ ItemOf(s, t) = s[k].item
  BY ThreadFacts
<1>2. r = [s EXCEPT ![k].item = item]
  BY <1>1 DEF Replaced
<1>3. \A i \in DOMAIN s : s[i] \in Entry
  OBVIOUS
<1>4. /\ DOMAIN r = DOMAIN s
      /\ \A i \in DOMAIN s : i # k => r[i] = s[i]
      /\ r[k] = [s[k] EXCEPT !.item = item]
  BY <1>1, <1>2
<1>5. r[k].threadId = t /\ r[k].item = item /\ r[k] \in Entry
  BY <1>1, <1>3, <1>4 DEF Entry
<1> HIDE DEF r
<1>6. r \in Seq(Entry) /\ Len(r) = Len(s)
  <2>1. DOMAIN s = 1..Len(s) /\ Len(s) \in Nat
    OBVIOUS
  <2>2. r = [i \in 1..Len(s) |-> r[i]]
    BY <1>2, <1>4, <2>1 DEF r
  <2>3. \A i \in 1..Len(s) : r[i] \in Entry
    BY <1>3, <1>4, <1>5, <2>1
  <2> QED BY <2>1, <2>2, <2>3
<1>7. \A i \in DOMAIN s : r[i].threadId = s[i].threadId
  BY <1>1, <1>4, <1>5
<1>8. Distinct(r)
  BY <1>4, <1>7 DEF Distinct
<1>9. ThreadIds(r) = ThreadIds(s)
  BY <1>4, <1>7 DEF ThreadIds
<1>10. ASSUME NEW u \in ThreadIds(s)
       PROVE  IndexOf(r, u) = IndexOf(s, u)
              /\ ItemOf(r, u) = IF u = t THEN item ELSE View(s)[u]
  <2>1. PICK i \in DOMAIN s : s[i].threadId = u
    BY DEF ThreadIds
  <2>2. IndexOf(s, u) = i /\ View(s)[u] = s[i].item
    BY <2>1, IndexFacts
  <2>3. IndexOf(r, u) = i /\ ItemOf(r, u) = r[i].item
    BY <1>4, <1>7, <1>8, <2>1, IndexFacts
  <2>4. u = t <=> i = k
    BY <1>1, <2>1 DEF Distinct
  <2> QED BY <1>4, <1>5, <2>2, <2>3, <2>4
<1>11. View(r) = [View(s) EXCEPT ![t] = item]
  <2>1. DOMAIN View(s) = ThreadIds(s)
    BY DEF View
  <2>2. View(r) = [u \in ThreadIds(s) |-> IF u = t THEN item ELSE View(s)[u]]
    BY <1>9, <1>10 DEF View
  <2>3. [View(s) EXCEPT ![t] = item] =
            [u \in ThreadIds(s) |-> IF u = t THEN item ELSE View(s)[u]]
    BY <2>1
  <2> QED BY <2>2, <2>3
<1>12. ASSUME Sorted(s), item.source = ItemOf(s, t).source,
              item.enqueuedAt = ItemOf(s, t).enqueuedAt
       PROVE  Sorted(r)
  <2>1. \A i \in DOMAIN s : /\ r[i].item.source = s[i].item.source
                            /\ r[i].item.enqueuedAt = s[i].item.enqueuedAt
    BY <1>1, <1>4, <1>5, <1>12
  <2> QED BY <1>4, <1>12, <2>1 DEF Sorted, Before, Rank
<1>13. r = Replaced(s, t, item)
  BY DEF r
<1> QED BY <1>6, <1>8, <1>9, <1>10, <1>11, <1>12, <1>13

-----------------------------------------------------------------------------
(* What every operation keeps.                                             *)

\* The invariant of the array.
QueueInv ==
    /\ queue \in Seq(Entry)
    /\ Distinct(queue)
    /\ Sorted(queue)
    /\ Len(queue) <= QueueMaxItems
    /\ ManualCount(queue) <= QueueMaxManualItems

SameStanding(a, b) == a.source = b.source /\ a.enqueuedAt = b.enqueuedAt

\* No item of r has overtaken one of the same standing since s.
KeepsOrder(s, r) ==
    \A t, u \in ThreadIds(s) \cap ThreadIds(r) :
        /\ SameStanding(ItemOf(s, t), ItemOf(r, t))
        /\ SameStanding(ItemOf(s, u), ItemOf(r, u))
        /\ IndexOf(s, t) < IndexOf(s, u)
        => IndexOf(r, t) < IndexOf(r, u)

\* What was decided of an item is what it was.
KeepsDecided(old, new) ==
    /\ old.firstClassification # "unset" => new.firstClassification = old.firstClassification
    /\ old.positionSavedAt # NoTime => new.positionSavedAt = old.positionSavedAt

KeepsDecisions(s, r) ==
    \A t \in ThreadIds(s) \cap ThreadIds(r) : KeepsDecided(View(s)[t], View(r)[t])

\* Sorting after an edit that leaves every thread in its place.
LEMMA SortingKeepsOrder ==
    ASSUME NEW s \in Seq(Entry), Distinct(s), Sorted(s),
           NEW e \in Seq(Entry), Distinct(e), ThreadIds(s) \subseteq ThreadIds(e),
           \A t \in ThreadIds(s) : IndexOf(e, t) = IndexOf(s, t)
    PROVE  KeepsOrder(s, CanonicalOrder(e))
<1> DEFINE r == CanonicalOrder(e)
<1>1. /\ ThreadIds(r) = ThreadIds(e) /\ View(r) = View(e)
      /\ \A t, u \in ThreadIds(e) :
            /\ IndexOf(e, t) < IndexOf(e, u)
            /\ ~Before(ItemOf(e, u), ItemOf(e, t))
            => IndexOf(r, t) < IndexOf(r, u)
  BY CanonicalFacts
<1> SUFFICES ASSUME NEW t \in ThreadIds(s), NEW u \in ThreadIds(s),
                    SameStanding(ItemOf(s, t), ItemOf(r, t)),
                    SameStanding(ItemOf(s, u), ItemOf(r, u)),
                    IndexOf(s, t) < IndexOf(s, u)
             PROVE  IndexOf(r, t) < IndexOf(r, u)
  BY DEF KeepsOrder
<1> HIDE DEF r
<1>2. ItemOf(r, t) = ItemOf(e, t) /\ ItemOf(r, u) = ItemOf(e, u)
  BY <1>1 DEF View
<1>3. ~Before(ItemOf(s, u), ItemOf(s, t))
  BY ThreadFacts DEF Sorted
<1>4. ~Before(ItemOf(e, u), ItemOf(e, t))
  BY <1>2, <1>3 DEF SameStanding, Before, Rank
<1> QED BY <1>1, <1>4

\* Filtering lets nothing overtake.
LEMMA FilteringKeepsOrder ==
    ASSUME NEW s \in Seq(Entry), Distinct(s), NEW I \in SUBSET DOMAIN s
    PROVE  KeepsOrder(s, Filtered(s, I))
BY FilteredFacts DEF KeepsOrder

\* No item becomes manual, but perhaps that of one thread.
LEMMA ManualBound ==
    ASSUME NEW s \in Seq(Entry), Distinct(s), NEW r \in Seq(Entry), Distinct(r), NEW t,
           ManualThreads(View(r)) \subseteq ManualThreads(View(s)) \cup {t}
    PROVE  /\ ManualCount(r) <= ManualCount(s) + 1
           /\ ManualThreads(View(r)) \subseteq ManualThreads(View(s))
                => ManualCount(r) <= ManualCount(s)
<1> DEFINE M == ManualThreads(View(s))
           L == ManualThreads(View(r))
<1>1. /\ Cardinality(M) = ManualCount(s) /\ Cardinality(L) = ManualCount(r)
      /\ ManualCount(s) \in Nat /\ ManualCount(r) \in Nat
      /\ IsFiniteSet(ThreadIds(s)) /\ M \subseteq ThreadIds(s)
  <2>1. M \subseteq DOMAIN View(s)
    BY DEF ManualThreads
  <2> QED BY <2>1, CountFacts
<1> HIDE DEF M, L
<1>2. IsFiniteSet(M)
  BY <1>1, FS_Subset
<1>3. IsFiniteSet(M \cup {t}) /\ Cardinality(M \cup {t}) <= Cardinality(M) + 1
  <2>1. IsFiniteSet(M \cup {t})
        /\ Cardinality(M \cup {t}) = IF t \in M THEN Cardinality(M) ELSE Cardinality(M) + 1
    BY <1>2, FS_AddElement
  <2> QED BY <1>1, <2>1
<1>4. L \subseteq M \cup {t}
  BY DEF L, M
<1>5. Cardinality(L) <= Cardinality(M \cup {t}) /\ Cardinality(M \cup {t}) \in Nat
  <2>1. Cardinality(M \cup {t}) \in Nat
    BY <1>3, FS_CardinalityType
  <2> QED BY <1>3, <1>4, <2>1, FS_Subset
<1>6. L \subseteq M => Cardinality(L) <= Cardinality(M)
  BY <1>2, FS_Subset
<1>7. ManualCount(r) <= ManualCount(s) + 1
  BY <1>1, <1>3, <1>5
<1> QED BY <1>1, <1>6, <1>7 DEF L, M

\* The operators that the contract and the array share.
LEMMA SharedOperators ==
    ASSUME NEW q, NEW t, NEW request, NEW verdict, NEW source
    PROVE  /\ QueueView!CanEnqueue(q, t, source) <=> CanEnqueue(q, t, source)
           /\ QueueView!Enqueued(q, t, request) = Enqueued(q, t, request)
           /\ QueueView!Without(q, t) = Without(q, t)
           /\ QueueView!Struck(q, t) = Struck(q, t)
           /\ QueueView!Decided(q, t, verdict) = Decided(q, t, verdict)
           /\ QueueView!WithoutManualWork(q) = WithoutManualWork(q)
           /\ QueueView!ManualThreads(q) = ManualThreads(q)
<1>1. \A item, r : QueueView!MergedItem(item, r) = MergedItem(item, r)
  BY DEF QueueView!MergedItem, MergedItem, QueueView!NoTime, NoTime
<1>2. \A r : QueueView!NewItem(r) = NewItem(r)
  BY DEF QueueView!NewItem, NewItem
<1>3. \A r, S : QueueView!Without(r, S) = Without(r, S)
  BY DEF QueueView!Without, Without
<1>4. \A r : QueueView!ManualThreads(r) = ManualThreads(r)
  BY DEF QueueView!ManualThreads, ManualThreads
<1>5. QueueView!CanEnqueue(q, t, source) <=> CanEnqueue(q, t, source)
  <2>1. \A S : QueueView!Cardinality(S) = Cardinality(S)
    BY DEF QueueView!Cardinality, Cardinality
  <2> QED BY <1>4, <2>1 DEF QueueView!CanEnqueue, CanEnqueue, QueueView!HasRoom, HasRoom
<1>6. QueueView!Enqueued(q, t, request) = Enqueued(q, t, request)
  BY <1>1, <1>2 DEF QueueView!Enqueued, Enqueued
<1>7. QueueView!Struck(q, t) = Struck(q, t)
  BY <1>3 DEF QueueView!Struck, Struck
<1>8. QueueView!Decided(q, t, verdict) = Decided(q, t, verdict)
  BY DEF QueueView!Decided, Decided
<1>9. QueueView!WithoutManualWork(q) = WithoutManualWork(q)
  BY <1>4 DEF QueueView!WithoutManualWork, WithoutManualWork
<1> QED BY <1>3, <1>4, <1>5, <1>6, <1>7, <1>8, <1>9

\* What an item is when it is queued, and when it is merged.
LEMMA ItemFacts ==
    ASSUME NEW request \in Requests
    PROVE  /\ NewItem(request) \in WorkItem /\ NewItem(request).source = request.source
           /\ \A item \in WorkItem :
                 /\ MergedItem(item, request) \in WorkItem
                 /\ KeepsDecided(item, MergedItem(item, request))
                 /\ MergedItem(item, request).source = "manual" => item.source = "manual"
<1>1. request \in EnqueueRequest
  BY RequestsAssumption
<1>2. 0 \in 0..MaxStoredStrikes
  BY QueueBoundsAssumption
<1>3. NewItem(request) \in WorkItem /\ NewItem(request).source = request.source
  BY <1>1, <1>2 DEF NewItem, EnqueueRequest, WorkItem
<1>4. ASSUME NEW item \in WorkItem
      PROVE  /\ MergedItem(item, request) \in WorkItem
             /\ KeepsDecided(item, MergedItem(item, request))
             /\ MergedItem(item, request).source = "manual" => item.source = "manual"
  <2>1. MergedItem(item, request) \in WorkItem
    BY <1>1, <1>2 DEF MergedItem, EnqueueRequest, WorkItem, Sources
  <2>2. KeepsDecided(item, MergedItem(item, request))
    BY DEF KeepsDecided, MergedItem
  <2>3. MergedItem(item, request).source = "manual" => item.source = "manual"
    BY <1>1 DEF MergedItem, EnqueueRequest, WorkItem, Sources
  <2> QED BY <2>1, <2>2, <2>3
<1> QED BY <1>3, <1>4

-----------------------------------------------------------------------------
(* The operations.                                                         *)

\* What every step that changes the array has to show.
StepOK ==
    QueueInv' /\ KeepsOrder(queue, queue') /\ KeepsDecisions(queue, queue')

\* A new item is added and sorted in.
LEMMA EnqueueNewStep ==
    ASSUME QueueInv, NEW t \in Threads, NEW request \in Requests, EnqueueNew(t, request)
    PROVE  StepOK /\ QueueView!Enqueue(t, request)
<1> DEFINE item == NewItem(request)
           e == Append(queue, [threadId |-> t, item |-> item])
           r == CanonicalOrder(e)
<1>1. /\ queue \in Seq(Entry) /\ Distinct(queue) /\ Sorted(queue) /\ Len(queue) \in Nat
      /\ Len(queue) < QueueMaxItems /\ t \notin ThreadIds(queue)
      /\ request.source = "manual" => ManualCount(queue) < QueueMaxManualItems
      /\ queue' = r /\ answer' = EnqueueAnswer(t, "queued")
  BY DEF QueueInv, EnqueueNew
<1>2. item \in WorkItem /\ item.source = request.source
  BY ItemFacts
<1>3. ThreadIds(queue) = DOMAIN View(queue)
  BY DEF View
<1> HIDE DEF item
<1>4. /\ e \in Seq(Entry) /\ Len(e) = Len(queue) + 1 /\ Distinct(e)
      /\ ThreadIds(e) = ThreadIds(queue) \cup {t}
      /\ View(e) = [u \in ThreadIds(queue) \cup {t} |->
                       IF u = t THEN item ELSE View(queue)[u]]
      /\ \A u \in ThreadIds(queue) : IndexOf(e, u) = IndexOf(queue, u)
  BY <1>1, <1>2, AppendFacts
<1> HIDE DEF e
<1>5. /\ r \in Seq(Entry) /\ Len(r) = Len(e) /\ Distinct(r) /\ Sorted(r)
      /\ ThreadIds(r) = ThreadIds(e) /\ View(r) = View(e)
  BY <1>4, CanonicalFacts
<1>6. KeepsOrder(queue, r)
  BY <1>1, <1>4, SortingKeepsOrder
<1> HIDE DEF r
<1>7. KeepsDecisions(queue, r)
  BY <1>1, <1>3, <1>4, <1>5 DEF KeepsDecisions, KeepsDecided
<1>8. Len(r) <= QueueMaxItems
  BY <1>1, <1>4, <1>5, QueueBoundsAssumption
<1>9. ManualCount(r) <= QueueMaxManualItems
  <2>1. /\ ManualThreads(View(r)) \subseteq ManualThreads(View(queue)) \cup {t}
        /\ request.source # "manual" =>
               ManualThreads(View(r)) \subseteq ManualThreads(View(queue))
    BY <1>2, <1>3, <1>4, <1>5 DEF ManualThreads
  <2>2. /\ ManualCount(r) <= ManualCount(queue) + 1
        /\ request.source # "manual" => ManualCount(r) <= ManualCount(queue)
    BY <1>1, <1>5, <2>1, ManualBound
  <2>3. ManualCount(r) \in Nat /\ ManualCount(queue) \in Nat
    BY <1>1, <1>5, CountFacts
  <2>4. ManualCount(queue) <= QueueMaxManualItems
    BY DEF QueueInv
  <2> QED BY <1>1, <2>2, <2>3, <2>4, QueueBoundsAssumption
<1>10. StepOK
  BY <1>1, <1>5, <1>6, <1>7, <1>8, <1>9 DEF StepOK, QueueInv
<1>11. CanEnqueue(View(queue), t, request.source)
  BY <1>1, <1>3, CountFacts DEF CanEnqueue, HasRoom
<1>12. View(r) = Enqueued(View(queue), t, request)
  BY <1>1, <1>3, <1>4, <1>5 DEF Enqueued, item
<1>13. QueueView!Enqueue(t, request)
  <2>1. View(queue)' = View(r) /\ t \notin DOMAIN View(queue)
    BY <1>1, <1>3
  <2>2. /\ QueueView!CanEnqueue(View(queue), t, request.source)
        /\ View(queue)' = QueueView!Enqueued(View(queue), t, request)
    BY <1>11, <1>12, <2>1, SharedOperators
  <2> QED BY <1>1, <2>1, <2>2
          DEF QueueView!Enqueue, View, EnqueueAnswer, QueueView!EnqueueAnswer
<1> QED BY <1>10, <1>13

\* A cap is reached: the answer says which.
LEMMA EnqueueRefusedStep ==
    ASSUME QueueInv, NEW t \in Threads, NEW request \in Requests, EnqueueRefused(t, request)
    PROVE  queue' = queue /\ QueueView!EnqueueRefused(t, request)
<1> DEFINE q == View(queue)
<1>1. queue' = queue /\ t \notin ThreadIds(queue)
  BY DEF EnqueueRefused
<1>2. /\ DOMAIN q = ThreadIds(queue) /\ Cardinality(DOMAIN q) = Len(queue)
      /\ Cardinality(ManualThreads(q)) = ManualCount(queue) /\ ManualCount(queue) \in Nat
      /\ Len(queue) \in Nat
  <2>1. queue \in Seq(Entry) /\ Distinct(queue)
    BY DEF QueueInv
  <2> QED BY <2>1, CountFacts
<1> HIDE DEF q
<1>3. /\ ~CanEnqueue(q, t, request.source)
      /\ answer' = EnqueueAnswer(t, IF Cardinality(DOMAIN q) < QueueMaxItems
                                    THEN "full: manual" ELSE "full: total")
  <2>1. CASE Len(queue) >= QueueMaxItems /\ answer' = EnqueueAnswer(t, "full: total")
    <3>1. ~(Cardinality(DOMAIN q) < QueueMaxItems)
      <4>1. Len(queue) >= QueueMaxItems
        BY <2>1
      <4>2. ~(Len(queue) < QueueMaxItems)
        BY <1>2, <4>1, QueueBoundsAssumption
      <4> QED BY <1>2, <4>2
    <3>2. ~CanEnqueue(q, t, request.source)
      BY <1>1, <1>2, <3>1 DEF CanEnqueue, HasRoom
    <3> QED BY <2>1, <3>1, <3>2
  <2>2. CASE /\ Len(queue) < QueueMaxItems /\ request.source = "manual"
             /\ ManualCount(queue) >= QueueMaxManualItems
             /\ answer' = EnqueueAnswer(t, "full: manual")
    <3>1. /\ Cardinality(DOMAIN q) < QueueMaxItems
          /\ ~(Cardinality(ManualThreads(q)) < QueueMaxManualItems)
      <4>1. Len(queue) < QueueMaxItems /\ ManualCount(queue) >= QueueMaxManualItems
        BY <2>2
      <4>2. ~(ManualCount(queue) < QueueMaxManualItems)
        BY <1>2, <4>1, QueueBoundsAssumption
      <4> QED BY <1>2, <4>1, <4>2
    <3>2. ~CanEnqueue(q, t, request.source)
      BY <1>1, <1>2, <2>2, <3>1 DEF CanEnqueue, HasRoom
    <3> QED BY <2>2, <3>1, <3>2
  <2> QED BY <2>1, <2>2 DEF EnqueueRefused
<1>4. q' = q
  BY <1>1 DEF q, View, ItemOf, IndexOf, ThreadIds
<1>5. ~QueueView!CanEnqueue(q, t, request.source)
  BY <1>3, SharedOperators
<1>6. QueueView!Cardinality(DOMAIN q) = Cardinality(DOMAIN q)
  BY DEF QueueView!Cardinality, Cardinality
<1>7. QueueView!EnqueueRefused(t, request)
  BY <1>3, <1>4, <1>5, <1>6
     DEF QueueView!EnqueueRefused, q, View, EnqueueAnswer, QueueView!EnqueueAnswer
<1> QED BY <1>1, <1>7

\* The merged item replaces the old one, and is sorted anew.
LEMMA MergeStep ==
    ASSUME QueueInv, NEW t \in Threads, NEW request \in Requests, Merge(t, request)
    PROVE  StepOK /\ QueueView!Enqueue(t, request)
<1> DEFINE old == ItemOf(queue, t)
           item == MergedItem(old, request)
           e == Replaced(queue, t, item)
           r == CanonicalOrder(e)
<1>1. /\ queue \in Seq(Entry) /\ Distinct(queue) /\ Sorted(queue) /\ Len(queue) \in Nat
      /\ Len(queue) <= QueueMaxItems /\ t \in ThreadIds(queue)
      /\ queue' = r /\ answer' = EnqueueAnswer(t, "merged")
  BY DEF QueueInv, Merge
<1>2. ThreadIds(queue) = DOMAIN View(queue)
  BY DEF View
<1>3. old = View(queue)[t] /\ old \in WorkItem
  BY <1>1, ItemTyping
<1>4. /\ item \in WorkItem /\ KeepsDecided(old, item)
      /\ item.source = "manual" => old.source = "manual"
  BY <1>3, ItemFacts
<1>5. item = MergedItem(View(queue)[t], request)
  BY <1>3
<1> HIDE DEF item, old
<1>6. /\ e \in Seq(Entry) /\ Len(e) = Len(queue) /\ Distinct(e)
      /\ ThreadIds(e) = ThreadIds(queue) /\ View(e) = [View(queue) EXCEPT ![t] = item]
      /\ \A u \in ThreadIds(queue) : IndexOf(e, u) = IndexOf(queue, u)
  BY <1>1, <1>4, ReplacedFacts
<1> HIDE DEF e
<1>7. /\ r \in Seq(Entry) /\ Len(r) = Len(e) /\ Distinct(r) /\ Sorted(r)
      /\ ThreadIds(r) = ThreadIds(e) /\ View(r) = View(e)
  BY <1>6, CanonicalFacts
<1>8. KeepsOrder(queue, r)
  BY <1>1, <1>6, SortingKeepsOrder
<1> HIDE DEF r
<1>9. KeepsDecisions(queue, r)
  BY <1>2, <1>3, <1>4, <1>6, <1>7 DEF KeepsDecisions, KeepsDecided
<1>10. ManualCount(r) <= QueueMaxManualItems
  <2>1. ManualThreads(View(r)) \subseteq ManualThreads(View(queue))
    BY <1>2, <1>3, <1>4, <1>6, <1>7 DEF ManualThreads
  <2>2. ManualCount(r) <= ManualCount(queue)
    BY <1>1, <1>7, <2>1, ManualBound
  <2>3. ManualCount(r) \in Nat /\ ManualCount(queue) \in Nat
    BY <1>1, <1>7, CountFacts
  <2> QED BY <2>2, <2>3, QueueBoundsAssumption DEF QueueInv
<1>11. StepOK
  BY <1>1, <1>6, <1>7, <1>8, <1>9, <1>10 DEF StepOK, QueueInv
<1>12. View(r) = Enqueued(View(queue), t, request)
  BY <1>1, <1>2, <1>5, <1>6, <1>7 DEF Enqueued
<1>13. QueueView!Enqueue(t, request)
  <2>1. View(queue)' = View(r) /\ t \in DOMAIN View(queue)
    BY <1>1, <1>2
  <2>2. CanEnqueue(View(queue), t, request.source)
    BY <2>1 DEF CanEnqueue
  <2>3. /\ QueueView!CanEnqueue(View(queue), t, request.source)
        /\ View(queue)' = QueueView!Enqueued(View(queue), t, request)
    BY <1>12, <2>1, <2>2, SharedOperators
  <2> QED BY <1>1, <2>1, <2>3
          DEF QueueView!Enqueue, View, EnqueueAnswer, QueueView!EnqueueAnswer
<1> QED BY <1>11, <1>13

\* Items leave, and nothing else changes.
LEMMA FilterStep ==
    ASSUME QueueInv, NEW I \in SUBSET DOMAIN queue, queue' = Filtered(queue, I)
    PROVE  /\ StepOK
           /\ Len(queue') = Cardinality(I)
           /\ ThreadIds(queue') = {queue[i].threadId : i \in I}
           /\ View(queue)' = [t \in ThreadIds(queue') |-> View(queue)[t]]
<1> DEFINE r == Filtered(queue, I)
<1>1. /\ queue \in Seq(Entry) /\ Distinct(queue) /\ Sorted(queue) /\ Len(queue) \in Nat
      /\ Len(queue) <= QueueMaxItems
  BY DEF QueueInv
<1>2. /\ r \in Seq(Entry) /\ Len(r) = Cardinality(I) /\ Distinct(r) /\ Sorted(r)
      /\ ThreadIds(r) = {queue[i].threadId : i \in I}
      /\ ThreadIds(r) \subseteq ThreadIds(queue)
      /\ View(r) = [t \in ThreadIds(r) |-> View(queue)[t]]
  BY <1>1, FilteredFacts
<1>3. KeepsOrder(queue, r)
  BY <1>1, FilteringKeepsOrder
<1> HIDE DEF r
<1>4. KeepsDecisions(queue, r)
  BY <1>2 DEF KeepsDecisions, KeepsDecided
<1>5. Len(r) <= QueueMaxItems
  <2>2. Len(r) <= Len(queue)
    BY <1>1, <1>2, LengthFacts
  <2>3. Len(r) \in Nat
    BY <1>2
  <2> QED BY <1>1, <2>2, <2>3, QueueBoundsAssumption
<1>6. ManualCount(r) <= QueueMaxManualItems
  <2>1. ManualThreads(View(r)) \subseteq ManualThreads(View(queue))
    BY <1>2 DEF ManualThreads, View
  <2>2. ManualCount(r) <= ManualCount(queue)
    BY <1>1, <1>2, <2>1, ManualBound
  <2>3. ManualCount(r) \in Nat /\ ManualCount(queue) \in Nat
    BY <1>1, <1>2, CountFacts
  <2> QED BY <2>2, <2>3, QueueBoundsAssumption DEF QueueInv
<1>7. queue' = r
  BY DEF r
<1>8. StepOK
  BY <1>2, <1>3, <1>4, <1>5, <1>6, <1>7 DEF StepOK, QueueInv
<1>9. View(queue)' = View(r)
  BY <1>7
<1> QED BY <1>2, <1>7, <1>8, <1>9

\* One thread leaves.
LEMMA DequeuedStep ==
    ASSUME QueueInv, NEW t, queue' = Dequeued(queue, t)
    PROVE  StepOK /\ View(queue)' = Without(View(queue), {t})
<1> DEFINE I == {i \in DOMAIN queue : queue[i].threadId # t}
<1>1. I \in SUBSET DOMAIN queue /\ queue' = Filtered(queue, I)
  BY DEF Dequeued
<1>2. /\ StepOK
      /\ ThreadIds(queue') = {queue[i].threadId : i \in I}
      /\ View(queue)' = [u \in ThreadIds(queue') |-> View(queue)[u]]
  BY <1>1, FilterStep
<1>3. {queue[i].threadId : i \in I} = ThreadIds(queue) \ {t}
  BY DEF ThreadIds
<1>4. DOMAIN View(queue) = ThreadIds(queue)
  BY DEF View
<1> QED BY <1>2, <1>3, <1>4 DEF Without

\* The item of one thread changes, but neither its place nor what was decided.
LEMMA ReplacedStep ==
    ASSUME QueueInv, NEW t \in ThreadIds(queue), NEW item \in WorkItem,
           SameStanding(ItemOf(queue, t), item), KeepsDecided(ItemOf(queue, t), item),
           queue' = Replaced(queue, t, item)
    PROVE  StepOK /\ View(queue)' = [View(queue) EXCEPT ![t] = item]
<1> DEFINE r == Replaced(queue, t, item)
<1>1. /\ queue \in Seq(Entry) /\ Distinct(queue) /\ Sorted(queue) /\ Len(queue) \in Nat
      /\ Len(queue) <= QueueMaxItems
  BY DEF QueueInv
<1>2. item.source = ItemOf(queue, t).source /\ item.enqueuedAt = ItemOf(queue, t).enqueuedAt
  BY DEF SameStanding
<1>3. /\ r \in Seq(Entry) /\ Len(r) = Len(queue) /\ Distinct(r) /\ Sorted(r)
      /\ ThreadIds(r) = ThreadIds(queue) /\ View(r) = [View(queue) EXCEPT ![t] = item]
      /\ \A u \in ThreadIds(queue) : IndexOf(r, u) = IndexOf(queue, u)
  BY <1>1, <1>2, ReplacedFacts
<1> HIDE DEF r
<1>4. KeepsOrder(queue, r)
  BY <1>3 DEF KeepsOrder
<1>5. ItemOf(queue, t) = View(queue)[t] /\ DOMAIN View(queue) = ThreadIds(queue)
  BY DEF View
<1>6. KeepsDecisions(queue, r)
  BY <1>3, <1>5 DEF KeepsDecisions, KeepsDecided
<1>7. ManualCount(r) <= QueueMaxManualItems
  <2>1. ManualThreads(View(r)) \subseteq ManualThreads(View(queue))
    BY <1>2, <1>3, <1>5 DEF ManualThreads
  <2>2. ManualCount(r) <= ManualCount(queue)
    BY <1>1, <1>3, <2>1, ManualBound
  <2>3. ManualCount(r) \in Nat /\ ManualCount(queue) \in Nat
    BY <1>1, <1>3, CountFacts
  <2> QED BY <2>2, <2>3, QueueBoundsAssumption DEF QueueInv
<1>8. queue' = r
  BY DEF r
<1>9. StepOK
  BY <1>1, <1>3, <1>4, <1>6, <1>7, <1>8 DEF StepOK, QueueInv
<1>10. View(queue)' = View(r)
  BY <1>8
<1> QED BY <1>3, <1>9, <1>10

\* Dequeue, whether the thread is queued or not.
LEMMA DequeueStep ==
    ASSUME QueueInv, NEW t \in Threads, Dequeue(t)
    PROVE  StepOK /\ QueueView!Dequeue(t)
<1>1. queue' = Dequeued(queue, t) /\ answer' = DequeueAnswer(t)
  BY DEF Dequeue
<1>2. StepOK /\ View(queue)' = QueueView!Without(View(queue), {t})
  BY <1>1, DequeuedStep, SharedOperators
<1> QED BY <1>1, <1>2 DEF QueueView!Dequeue, View, DequeueAnswer, QueueView!DequeueAnswer

\* The strike past the stored maximum removes the item.
LEMMA AddStrikeStep ==
    ASSUME QueueInv, NEW t \in Threads, AddStrike(t)
    PROVE  StepOK /\ QueueView!AddStrike(t)
<1> DEFINE q == View(queue)
           old == ItemOf(queue, t)
           strikes == old.strikes + 1
           item == [old EXCEPT !.strikes = strikes]
<1>1. /\ t \in ThreadIds(queue)
      /\ queue' = IF strikes > MaxStoredStrikes THEN Dequeued(queue, t)
                  ELSE Replaced(queue, t, item)
      /\ answer' = StrikeAnswer(t, strikes)
  BY DEF AddStrike
<1>2. queue \in Seq(Entry) /\ Distinct(queue) /\ DOMAIN q = ThreadIds(queue)
  BY DEF QueueInv, View
<1>3. old = q[t] /\ old \in WorkItem
  BY <1>1, <1>2, ItemTyping
<1>4. old.strikes \in Nat /\ MaxStoredStrikes \in Nat /\ old.strikes <= MaxStoredStrikes
  BY <1>3, QueueBoundsAssumption DEF WorkItem
<1>5. StepOK /\ q' = Struck(q, t)
  <2>1. CASE strikes > MaxStoredStrikes
    <3>1. queue' = Dequeued(queue, t) /\ ~(q[t].strikes < MaxStoredStrikes)
      BY <1>1, <1>3, <1>4, <2>1
    <3>2. StepOK /\ q' = Without(q, {t})
      BY <3>1, DequeuedStep
    <3> QED BY <3>1, <3>2 DEF Struck
  <2>2. CASE ~(strikes > MaxStoredStrikes)
    <3>1. q[t].strikes < MaxStoredStrikes
      BY <1>3, <1>4, <2>2
    <3>2. queue' = Replaced(queue, t, item)
      BY <1>1, <2>2
    <3>3. item \in WorkItem
      BY <1>3, <1>4, <2>2, QueueBoundsAssumption DEF WorkItem
    <3>4. SameStanding(old, item) /\ KeepsDecided(old, item)
      BY <1>3 DEF SameStanding, KeepsDecided, WorkItem
    <3>5. StepOK /\ q' = [q EXCEPT ![t] = item]
      BY <1>1, <3>2, <3>3, <3>4, ReplacedStep
    <3>6. [q EXCEPT ![t] = item] = [q EXCEPT ![t].strikes = q[t].strikes + 1]
      BY <1>3
    <3> QED BY <3>1, <3>5, <3>6 DEF Struck
  <2> QED BY <2>1, <2>2
<1>6. t \in DOMAIN q /\ strikes = q[t].strikes + 1
  BY <1>1, <1>2, <1>3
<1>7. StepOK /\ q' = QueueView!Struck(q, t) /\ answer' = StrikeAnswer(t, q[t].strikes + 1)
  BY <1>1, <1>5, <1>6, SharedOperators
<1> QED
  BY <1>6, <1>7 DEF QueueView!AddStrike, View, StrikeAnswer, QueueView!StrikeAnswer

\* A verdict changes the array at most once for an item.
LEMMA SetFirstClassificationStep ==
    ASSUME QueueInv, NEW t \in Threads, NEW verdict \in Verdicts \ {"unset"},
           SetFirstClassification(t, verdict)
    PROVE  /\ StepOK \/ queue' = queue
           /\ QueueView!SetFirstClassification(t, verdict)
<1> DEFINE q == View(queue)
           old == ItemOf(queue, t)
           item == [old EXCEPT !.firstClassification = verdict]
<1>1. /\ t \in ThreadIds(queue)
      /\ queue' = IF old.firstClassification # "unset" THEN queue
                  ELSE Replaced(queue, t, item)
      /\ answer' = VerdictAnswer(t)
  BY DEF SetFirstClassification
<1>2. queue \in Seq(Entry) /\ Distinct(queue) /\ DOMAIN q = ThreadIds(queue)
  BY DEF QueueInv, View
<1>3. old = q[t] /\ old \in WorkItem
  BY <1>1, <1>2, ItemTyping
<1>4. (StepOK \/ queue' = queue) /\ q' = Decided(q, t, verdict)
  <2>1. CASE old.firstClassification # "unset"
    <3>1. queue' = queue
      BY <1>1, <2>1
    <3>2. q' = q
      BY <3>1 DEF View, ThreadIds, ItemOf, IndexOf
    <3> QED BY <1>3, <2>1, <3>1, <3>2 DEF Decided
  <2>2. CASE old.firstClassification = "unset"
    <3>1. queue' = Replaced(queue, t, item)
      BY <1>1, <2>2
    <3>2. item \in WorkItem
      BY <1>3 DEF WorkItem
    <3>3. SameStanding(old, item) /\ KeepsDecided(old, item)
      BY <1>3, <2>2 DEF SameStanding, KeepsDecided, WorkItem
    <3>4. StepOK /\ q' = [q EXCEPT ![t] = item]
      BY <1>1, <3>1, <3>2, <3>3, ReplacedStep
    <3>5. [q EXCEPT ![t] = item] = [q EXCEPT ![t].firstClassification = verdict]
      BY <1>3
    <3> QED BY <1>3, <2>2, <3>4, <3>5 DEF Decided
  <2> QED BY <2>1, <2>2
<1>5. q' = QueueView!Decided(q, t, verdict) /\ t \in DOMAIN q
  BY <1>1, <1>2, <1>4, SharedOperators
<1> QED
  BY <1>1, <1>4, <1>5
     DEF QueueView!SetFirstClassification, View, VerdictAnswer, QueueView!VerdictAnswer

\* The moves of every entry are taken back; nothing else of it changes.
LEMMA MovesTakenBack ==
    ASSUME NEW s \in Seq(Entry), Distinct(s)
    PROVE  LET r == [i \in DOMAIN s |-> [s[i] EXCEPT !.item.applyMoves = FALSE]]
           IN  /\ r \in Seq(Entry) /\ Len(r) = Len(s) /\ Distinct(r)
               /\ Sorted(s) => Sorted(r)
               /\ ThreadIds(r) = ThreadIds(s)
               /\ View(r) = [t \in ThreadIds(s) |-> [View(s)[t] EXCEPT !.applyMoves = FALSE]]
               /\ \A t \in ThreadIds(s) : IndexOf(r, t) = IndexOf(s, t)
<1> DEFINE r == [i \in DOMAIN s |-> [s[i] EXCEPT !.item.applyMoves = FALSE]]
<1>1. DOMAIN s = 1..Len(s) /\ Len(s) \in Nat /\ DOMAIN r = DOMAIN s
  OBVIOUS
<1>2. ASSUME NEW i \in DOMAIN s
      PROVE  /\ r[i] \in Entry /\ r[i].threadId = s[i].threadId
             /\ r[i].item = [s[i].item EXCEPT !.applyMoves = FALSE]
             /\ r[i].item.source = s[i].item.source
             /\ r[i].item.enqueuedAt = s[i].item.enqueuedAt
  <2>1. s[i] \in Entry /\ r[i] = [s[i] EXCEPT !.item.applyMoves = FALSE]
    OBVIOUS
  <2>2. s[i].item \in WorkItem
    BY <2>1 DEF Entry
  <2> HIDE DEF r
  <2>3. r[i].item = [s[i].item EXCEPT !.applyMoves = FALSE] /\ r[i].threadId = s[i].threadId
    BY <2>1 DEF Entry
  <2>4. r[i].item \in WorkItem
    BY <2>2, <2>3 DEF WorkItem
  <2>5. r[i] \in Entry
    BY <2>1, <2>4 DEF Entry
  <2>6. r[i].item.source = s[i].item.source /\ r[i].item.enqueuedAt = s[i].item.enqueuedAt
    BY <2>2, <2>3 DEF WorkItem
  <2> QED BY <2>3, <2>5, <2>6
<1>3. r \in Seq(Entry) /\ Len(r) = Len(s)
  <2>1. r = [i \in 1..Len(s) |-> r[i]]
    BY <1>1
  <2> HIDE DEF r
  <2>2. \A i \in 1..Len(s) : r[i] \in Entry
    BY <1>1, <1>2
  <2> QED BY <1>1, <2>1, <2>2
<1> HIDE DEF r
<1>4. Distinct(r)
  BY <1>1, <1>2 DEF Distinct
<1>5. Sorted(s) => Sorted(r)
  BY <1>1, <1>2 DEF Sorted, Before, Rank
<1>6. ThreadIds(r) = ThreadIds(s)
  BY <1>1, <1>2 DEF ThreadIds
<1>7. ASSUME NEW t \in ThreadIds(s)
      PROVE  /\ IndexOf(r, t) = IndexOf(s, t)
             /\ ItemOf(r, t) = [View(s)[t] EXCEPT !.applyMoves = FALSE]
  <2>1. PICK i \in DOMAIN s : s[i].threadId = t
    BY DEF ThreadIds
  <2>2. IndexOf(s, t) = i /\ View(s)[t] = s[i].item
    BY <2>1, IndexFacts
  <2>3. IndexOf(r, t) = i /\ ItemOf(r, t) = r[i].item
    <3>1. i \in DOMAIN r /\ r[i].threadId = t
      BY <1>1, <1>2, <2>1
    <3> QED BY <1>4, <3>1, IndexFacts
  <2> QED BY <1>2, <2>2, <2>3
<1>8. View(r) = [t \in ThreadIds(s) |-> [View(s)[t] EXCEPT !.applyMoves = FALSE]]
  BY <1>6, <1>7 DEF View
<1>9. r = [i \in DOMAIN s |-> [s[i] EXCEPT !.item.applyMoves = FALSE]]
  BY DEF r
<1> QED BY <1>3, <1>4, <1>5, <1>6, <1>7, <1>8, <1>9

\* A cancel answers with the number of items it removes.
LEMMA ManualWorkRemoved ==
    ASSUME NEW s \in Seq(Entry), Distinct(s),
           NEW I, I = {i \in DOMAIN s : s[i].item.source # "manual"}
    PROVE  /\ Len(s) - Cardinality(I) = Cardinality(ManualThreads(View(s)))
           /\ {s[i].threadId : i \in I} = ThreadIds(s) \ ManualThreads(View(s))
<1> DEFINE M == {i \in DOMAIN s : s[i].item.source = "manual"}
<1>1. IsFiniteSet(DOMAIN s) /\ Cardinality(DOMAIN s) = Len(s) /\ Len(s) \in Nat
  BY LengthFacts
<1>2. /\ Cardinality(ManualThreads(View(s))) = ManualCount(s) /\ ManualCount(s) \in Nat
      /\ DOMAIN View(s) = ThreadIds(s)
  BY CountFacts
<1>3. I = DOMAIN s \ M /\ DOMAIN s \cap M = M /\ ManualCount(s) = Cardinality(M)
  BY DEF ManualCount
<1> HIDE DEF M
<1>4. Cardinality(I) = Len(s) - ManualCount(s)
  <2>1. Cardinality(DOMAIN s \ M) = Cardinality(DOMAIN s) - Cardinality(DOMAIN s \cap M)
    BY <1>1, FS_Difference
  <2> QED BY <1>1, <1>3, <2>1
<1>5. {s[i].threadId : i \in I} = ThreadIds(s) \ ManualThreads(View(s))
  <2>1. ASSUME NEW i \in I
        PROVE  s[i].threadId \in ThreadIds(s) \ ManualThreads(View(s))
    BY IndexFacts DEF ManualThreads
  <2>2. ASSUME NEW t \in ThreadIds(s) \ ManualThreads(View(s))
        PROVE  \E i \in I : s[i].threadId = t
    <3>1. /\ IndexOf(s, t) \in DOMAIN s /\ s[IndexOf(s, t)].threadId = t
          /\ s[IndexOf(s, t)].item = View(s)[t]
      BY ThreadFacts
    <3> QED BY <1>2, <3>1 DEF ManualThreads
  <2> QED BY <2>1, <2>2
<1> QED BY <1>1, <1>2, <1>4, <1>5

\* Manual items leave, and the others keep everything but their moves.
LEMMA DropManualWorkStep ==
    ASSUME QueueInv, DropManualWork
    PROVE  StepOK /\ QueueView!DropManualWork
<1> DEFINE q == View(queue)
           I == {i \in DOMAIN queue : queue[i].item.source # "manual"}
           kept == Filtered(queue, I)
           r == [i \in DOMAIN kept |-> [kept[i] EXCEPT !.item.applyMoves = FALSE]]
<1>1. queue' = r /\ answer' = DropAnswer(Len(queue) - Len(kept))
  BY DEF DropManualWork
<1>2. /\ queue \in Seq(Entry) /\ Distinct(queue) /\ Sorted(queue) /\ Len(queue) \in Nat
      /\ Len(queue) <= QueueMaxItems /\ DOMAIN q = ThreadIds(queue)
  BY DEF QueueInv, View
<1>3. /\ Len(queue) - Cardinality(I) = Cardinality(ManualThreads(q))
      /\ {queue[i].threadId : i \in I} = ThreadIds(queue) \ ManualThreads(q)
  BY <1>2, ManualWorkRemoved
<1>4. /\ kept \in Seq(Entry) /\ Len(kept) = Cardinality(I) /\ Distinct(kept) /\ Sorted(kept)
      /\ ThreadIds(kept) = {queue[i].threadId : i \in I}
      /\ View(kept) = [t \in ThreadIds(kept) |-> q[t]]
  BY <1>2, FilteredFacts
<1>5. KeepsOrder(queue, kept)
  BY <1>2, FilteringKeepsOrder
<1>6. Cardinality(I) <= Len(queue)
  BY <1>2, LengthFacts
<1> HIDE DEF kept, I
<1>7. /\ r \in Seq(Entry) /\ Len(r) = Len(kept) /\ Distinct(r) /\ Sorted(r)
      /\ ThreadIds(r) = ThreadIds(kept)
      /\ View(r) = [t \in ThreadIds(kept) |-> [View(kept)[t] EXCEPT !.applyMoves = FALSE]]
      /\ \A t \in ThreadIds(kept) : IndexOf(r, t) = IndexOf(kept, t)
  BY <1>4, MovesTakenBack
<1> HIDE DEF r
<1>8. \A t \in ThreadIds(r) :
         /\ t \in ThreadIds(queue) /\ q[t] \in WorkItem /\ q[t] = ItemOf(queue, t)
         /\ ItemOf(kept, t) = q[t]
         /\ View(r)[t] = [q[t] EXCEPT !.applyMoves = FALSE] /\ View(r)[t] = ItemOf(r, t)
  <2> SUFFICES ASSUME NEW t \in ThreadIds(r)
               PROVE  /\ t \in ThreadIds(queue) /\ q[t] \in WorkItem /\ q[t] = ItemOf(queue, t)
                      /\ ItemOf(kept, t) = q[t]
                      /\ View(r)[t] = [q[t] EXCEPT !.applyMoves = FALSE]
                      /\ View(r)[t] = ItemOf(r, t)
    OBVIOUS
  <2>1. t \in ThreadIds(queue) /\ t \in ThreadIds(kept)
    BY <1>3, <1>4, <1>7
  <2>2. q[t] \in WorkItem /\ q[t] = ItemOf(queue, t)
    BY <1>2, <2>1, ItemTyping
  <2>3. View(kept)[t] = q[t] /\ View(kept)[t] = ItemOf(kept, t)
    BY <1>4, <2>1, ItemTyping
  <2>4. View(r)[t] = [View(kept)[t] EXCEPT !.applyMoves = FALSE]
    BY <1>7, <2>1
  <2>5. View(r)[t] = ItemOf(r, t)
    BY <1>7, ItemTyping
  <2> HIDE DEF q
  <2> QED BY <2>1, <2>2, <2>3, <2>4, <2>5
<1>9. \A t \in ThreadIds(r) :
         /\ SameStanding(View(r)[t], q[t]) /\ KeepsDecided(q[t], View(r)[t])
         /\ View(r)[t].source = q[t].source
  BY <1>8 DEF SameStanding, KeepsDecided, WorkItem
<1>10. KeepsOrder(queue, r)
  <2> SUFFICES ASSUME NEW t \in ThreadIds(queue) \cap ThreadIds(r),
                      NEW u \in ThreadIds(queue) \cap ThreadIds(r),
                      IndexOf(queue, t) < IndexOf(queue, u)
               PROVE  IndexOf(r, t) < IndexOf(r, u)
    BY DEF KeepsOrder
  <2>1. t \in ThreadIds(kept) /\ u \in ThreadIds(kept)
    BY <1>7
  <2>2. ItemOf(kept, t) = ItemOf(queue, t) /\ ItemOf(kept, u) = ItemOf(queue, u)
    BY <1>8
  <2>3. IndexOf(kept, t) < IndexOf(kept, u)
    BY <1>5, <2>1, <2>2 DEF KeepsOrder, SameStanding
  <2> QED BY <1>7, <2>1, <2>3
<1>11. KeepsDecisions(queue, r)
  BY <1>9 DEF KeepsDecisions
<1>12. ManualCount(r) <= QueueMaxManualItems
  <2>1. ManualThreads(View(r)) \subseteq ManualThreads(q)
    BY <1>2, <1>8, <1>9 DEF ManualThreads, View
  <2>2. ManualCount(r) <= ManualCount(queue)
    BY <1>2, <1>7, <2>1, ManualBound
  <2>3. ManualCount(r) \in Nat /\ ManualCount(queue) \in Nat
    BY <1>2, <1>7, CountFacts
  <2> QED BY <2>2, <2>3, QueueBoundsAssumption DEF QueueInv
<1>13. Len(r) <= QueueMaxItems
  <2>1. Len(r) <= Len(queue) /\ Len(r) \in Nat
    BY <1>4, <1>6, <1>7
  <2> QED BY <1>2, <2>1, QueueBoundsAssumption
<1>14. StepOK
  BY <1>1, <1>7, <1>10, <1>11, <1>12, <1>13 DEF StepOK, QueueInv
<1>15. View(r) = WithoutManualWork(q)
  <2>1. ThreadIds(kept) = DOMAIN q \ ManualThreads(q)
    BY <1>2, <1>3, <1>4
  <2>2. \A t \in ThreadIds(kept) : View(kept)[t] = q[t]
    BY <1>4
  <2> HIDE DEF q
  <2> QED BY <1>7, <2>1, <2>2 DEF WithoutManualWork
<1>16. q' = QueueView!WithoutManualWork(q)
  <2>1. q' = View(r)
    BY <1>1
  <2> QED BY <1>15, <2>1, SharedOperators
<1>17. answer' = DropAnswer(QueueView!Cardinality(QueueView!ManualThreads(q)))
  <2>1. \A S : QueueView!Cardinality(S) = Cardinality(S)
    BY DEF QueueView!Cardinality, Cardinality
  <2>2. QueueView!ManualThreads(q) = ManualThreads(q)
    BY SharedOperators
  <2> QED BY <1>1, <1>3, <1>4, <2>1, <2>2
<1> QED
  BY <1>14, <1>16, <1>17 DEF QueueView!DropManualWork, View, DropAnswer, QueueView!DropAnswer

-----------------------------------------------------------------------------
(* Chunks.                                                                 *)

\* The first entries of an array.
LEMMA PrefixFacts ==
    ASSUME NEW s \in Seq(Entry), Distinct(s), NEW n \in Nat
    PROVE  LET m == IF n < Len(s) THEN n ELSE Len(s)
               r == Prefix(s, n)
           IN  /\ r \in Seq(Entry) /\ Distinct(r) /\ Len(r) = m /\ m \in Nat /\ m <= Len(s)
               /\ ThreadIds(r) = {s[i].threadId : i \in 1..m}
<1> DEFINE m == IF n < Len(s) THEN n ELSE Len(s)
           r == Prefix(s, n)
<1>1. m \in Nat /\ m <= Len(s) /\ Len(s) \in Nat /\ DOMAIN s = 1..Len(s)
  BY LengthFacts
<1>2. r = SubSeq(s, 1, m)
  BY DEF Prefix
<1> HIDE DEF m, r
<1>3. /\ r \in Seq(Entry) /\ Len(r) = m /\ DOMAIN r = 1..m
      /\ \A i \in 1..m : r[i] = s[i] /\ i \in DOMAIN s
  BY <1>1, <1>2
<1>4. Distinct(r)
  BY <1>3 DEF Distinct
<1>5. ThreadIds(r) = {s[i].threadId : i \in 1..m}
  BY <1>3 DEF ThreadIds
<1> QED BY <1>1, <1>3, <1>4, <1>5 DEF m, r

\* A chunk is one of those the set allows, and no work is skipped for it.
LEMMA ChunkFacts ==
    ASSUME QueueInv, NEW n \in Nat, NEW exclude, NEW source
    PROVE  ThreadIds(TakeChunk(queue, n, exclude, source))
               \in Chunks(View(queue), n, exclude, source)
<1> DEFINE q == View(queue)
           I == Eligible(queue, exclude, source)
           f == Filtered(queue, I)
           m == IF n < Len(f) THEN n ELSE Len(f)
           r == Prefix(f, n)
           C == ThreadIds(r)
           eligible == {t \in DOMAIN q \ exclude : q[t].source = source}
<1>1. /\ queue \in Seq(Entry) /\ Distinct(queue) /\ Sorted(queue)
      /\ I \in SUBSET DOMAIN queue /\ DOMAIN q = ThreadIds(queue)
  BY DEF QueueInv, View, Eligible
<1>2. /\ f \in Seq(Entry) /\ Distinct(f) /\ Sorted(f)
      /\ ThreadIds(f) = {queue[i].threadId : i \in I}
      /\ View(f) = [t \in ThreadIds(f) |-> q[t]]
  BY <1>1, FilteredFacts
<1>3. ThreadIds(f) = eligible
  <2>1. ASSUME NEW i \in I PROVE queue[i].threadId \in eligible
    BY <1>1, IndexFacts DEF Eligible
  <2>2. ASSUME NEW t \in eligible PROVE \E i \in I : queue[i].threadId = t
    <3>1. t \in ThreadIds(queue) /\ t \notin exclude /\ q[t].source = source
      BY <1>1
    <3>2. /\ IndexOf(queue, t) \in DOMAIN queue /\ queue[IndexOf(queue, t)].threadId = t
          /\ queue[IndexOf(queue, t)].item = q[t]
      BY <1>1, <3>1, ThreadFacts
    <3> QED BY <3>1, <3>2 DEF Eligible
  <2> HIDE DEF I, eligible
  <2> QED BY <1>2, <2>1, <2>2
<1> HIDE DEF f
<1>4. /\ r \in Seq(Entry) /\ Distinct(r) /\ Len(r) = m /\ m \in Nat /\ m <= Len(f)
      /\ ThreadIds(r) = {f[i].threadId : i \in 1..m}
  BY <1>2, PrefixFacts
<1>5. Cardinality(C) = m /\ Len(f) \in Nat /\ DOMAIN f = 1..Len(f)
  <2>1. Cardinality(C) = Len(r)
    BY <1>4, CountFacts
  <2> HIDE DEF m, r, C
  <2> QED BY <1>2, <1>4, <2>1, LengthFacts
<1> HIDE DEF r
<1>6. Cardinality(C) <= n
  BY <1>5
<1>7. C # ThreadIds(f) => Cardinality(C) = n
  <2>1. CASE n < Len(f)
    BY <1>5, <2>1
  <2>2. CASE ~(n < Len(f))
    BY <1>4, <1>5, <2>2 DEF ThreadIds
  <2> QED BY <2>1, <2>2
<1> HIDE DEF m
<1>8. \A i \in 1..m : i \in DOMAIN f /\ f[i].threadId \in ThreadIds(f)
  BY <1>4, <1>5 DEF ThreadIds
<1>9. C \subseteq ThreadIds(f)
  BY <1>4, <1>8
<1>10. ASSUME NEW t \in C, NEW u \in ThreadIds(f) \ C PROVE ~Before(q[u], q[t])
  <2>1. PICK i \in 1..m : f[i].threadId = t
    BY <1>4
  <2>2. PICK j \in DOMAIN f : f[j].threadId = u
    BY DEF ThreadIds
  <2>3. j \notin 1..m
    BY <1>4, <2>2
  <2>4. i \in DOMAIN f /\ i < j
    BY <1>4, <1>5, <1>8, <2>3
  <2>5. View(f)[t] = f[i].item /\ View(f)[u] = f[j].item /\ t \in ThreadIds(f)
    BY <1>2, <2>1, <2>2, <2>4, IndexFacts
  <2>6. q[t] = f[i].item /\ q[u] = f[j].item
    BY <1>2, <2>5
  <2> QED BY <1>2, <2>4, <2>6 DEF Sorted
<1>11. r = TakeChunk(queue, n, exclude, source)
  BY DEF r, f, TakeChunk
<1> HIDE DEF C, q
<1>12. C \in Chunks(q, n, exclude, source)
  BY <1>3, <1>6, <1>7, <1>9, <1>10 DEF Chunks
<1> QED BY <1>11, <1>12 DEF C, q

-----------------------------------------------------------------------------
(* The theorems about the array.                                           *)

\* The empty queue is the contract's.
LEMMA QueueStart == QueueInit => QueueInv /\ QueueView!Init
<1> SUFFICES ASSUME QueueInit PROVE QueueInv /\ QueueView!Init
  OBVIOUS
<1>1. queue = <<>> /\ queue \in Seq(Entry) /\ DOMAIN queue = {} /\ Len(queue) = 0
  BY DEF QueueInit
<1>2. Distinct(queue) /\ Sorted(queue) /\ ThreadIds(queue) = {}
  BY <1>1 DEF Distinct, Sorted, ThreadIds
<1>3. ManualCount(queue) = 0
  <2>1. {i \in DOMAIN queue : queue[i].item.source = "manual"} = {}
    BY <1>1
  <2> QED BY <2>1, FS_EmptySet DEF ManualCount
<1>4. QueueInv
  BY <1>1, <1>2, <1>3, QueueBoundsAssumption DEF QueueInv
<1>5. QueueView!Init
  BY <1>2 DEF QueueInit, QueueView!Init, NoAnswer, QueueView!NoAnswer
<1> QED BY <1>4, <1>5

\* A step keeps the invariant and is one of the contract, or changes nothing.
LEMMA QueueStep ==
    ASSUME QueueInv, [QueueNext]_queueVars
    PROVE  QueueInv' /\ [QueueView!Next]_(QueueView!vars) /\ (StepOK \/ queue' = queue)
<1>1. ASSUME queue' = queue PROVE QueueInv' /\ View(queue)' = View(queue)
  BY <1>1 DEF QueueInv, View, ThreadIds, ItemOf, IndexOf, ManualCount, Distinct, Sorted
<1>2. ASSUME NEW t \in Threads, NEW request \in Requests, EnqueueNew(t, request)
      PROVE  StepOK /\ QueueView!Next
  BY <1>2, EnqueueNewStep DEF QueueView!Next
<1>3. ASSUME NEW t \in Threads, NEW request \in Requests, EnqueueRefused(t, request)
      PROVE  queue' = queue /\ QueueView!Next
  BY <1>3, EnqueueRefusedStep DEF QueueView!Next
<1>4. ASSUME NEW t \in Threads, NEW request \in Requests, Merge(t, request)
      PROVE  StepOK /\ QueueView!Next
  BY <1>4, MergeStep DEF QueueView!Next
<1>5. ASSUME NEW t \in Threads, Dequeue(t)
      PROVE  StepOK /\ QueueView!Next
  BY <1>5, DequeueStep DEF QueueView!Next
<1>6. ASSUME NEW t \in Threads, AddStrike(t)
      PROVE  StepOK /\ QueueView!Next
  BY <1>6, AddStrikeStep DEF QueueView!Next
<1>7. ASSUME NEW t \in Threads, NEW verdict \in Verdicts \ {"unset"},
             SetFirstClassification(t, verdict)
      PROVE  (StepOK \/ queue' = queue) /\ QueueView!Next
  <2>1. Verdicts = QueueView!Verdicts
    BY DEF Verdicts, QueueView!Verdicts
  <2> QED BY <1>7, <2>1, SetFirstClassificationStep DEF QueueView!Next
<1>8. ASSUME DropManualWork PROVE StepOK /\ QueueView!Next
  BY <1>8, DropManualWorkStep DEF QueueView!Next
<1>9. ASSUME UNCHANGED queueVars PROVE queue' = queue /\ UNCHANGED QueueView!vars
  <2>1. queue' = queue /\ answer' = answer
    BY <1>9 DEF queueVars
  <2> QED BY <1>1, <2>1 DEF QueueView!vars, View
<1>10. \/ StepOK /\ QueueView!Next
       \/ queue' = queue /\ QueueView!Next
       \/ queue' = queue /\ UNCHANGED QueueView!vars
  BY <1>2, <1>3, <1>4, <1>5, <1>6, <1>7, <1>8, <1>9 DEF QueueNext
<1> QED BY <1>1, <1>10 DEF StepOK

\* The inductive invariant holds of every reachable state.
THEOREM QueueInvariant == QueueSpec => []QueueInv
<1>1. QueueInit => QueueInv
  BY QueueStart
<1>2. QueueInv /\ [QueueNext]_queueVars => QueueInv'
  BY QueueStep
<1> QED BY <1>1, <1>2, PTL DEF QueueSpec

\* The array is one of entries, with one entry for a thread, in canonical order and
\* within both caps: the caps are asked where an item is added (work-queue.ts), and
\* no merge, strike or cancel brings back what they kept out.
THEOREM QueueStaysInOrder == QueueSpec => []QueueOK
<1>1. QueueInv => QueueOK
  BY CountFacts DEF QueueInv, QueueOK, Sorted
<1> QED BY <1>1, QueueInvariant, PTL

\* takeChunk gives the oldest work of a source, whatever is excluded.
THEOREM ChunksComeInOrder == QueueSpec => []ChunksAreOldestFirst
<1>1. QueueInv => ChunksAreOldestFirst
  <2> SUFFICES ASSUME QueueInv, NEW exclude \in SUBSET Threads, NEW source \in Sources,
                      NEW n \in 1..Cardinality(Threads)
               PROVE  ThreadIds(TakeChunk(queue, n, exclude, source))
                          \in Chunks(View(queue), n, exclude, source)
    BY DEF ChunksAreOldestFirst, View
  <2>1. n \in Nat
    OBVIOUS
  <2> QED BY <2>1, ChunkFacts
<1> QED BY <1>1, QueueInvariant, PTL

\* No operation of the queue lets an item overtake another of the same standing.
THEOREM NothingOvertakes == QueueSpec => NoOvertaking
<1> DEFINE same(v) ==
             /\ ItemOf(queue, v).source = ItemOf(queue', v).source
             /\ ItemOf(queue, v).enqueuedAt = ItemOf(queue', v).enqueuedAt
           Body == \A t, u \in ThreadIds(queue) \cap ThreadIds(queue)' :
                      same(t) /\ same(u) /\ IndexOf(queue, t) < IndexOf(queue, u)
                          => IndexOf(queue', t) < IndexOf(queue', u)
<1>1. ASSUME QueueInv, [QueueNext]_queueVars PROVE [Body]_queueVars
  <2>1. StepOK \/ queue' = queue
    BY <1>1, QueueStep
  <2>2. CASE StepOK
    BY <2>2 DEF StepOK, KeepsOrder, SameStanding
  <2>3. CASE queue' = queue
    BY <2>3
  <2> QED BY <2>1, <2>2, <2>3
<1>2. NoOvertaking <=> [][Body]_queueVars
  BY DEF NoOvertaking
<1> QED BY <1>1, <1>2, QueueInvariant, PTL DEF QueueSpec

\* No operation of the queue changes what was decided of an item.
THEOREM DecisionsStay == QueueSpec => DecisionsStick
<1> DEFINE Body ==
             \A t \in ThreadIds(queue) \cap ThreadIds(queue)' :
                LET old == ItemOf(queue, t)
                    new == ItemOf(queue', t)
                IN  /\ old.firstClassification # "unset"
                          => new.firstClassification = old.firstClassification
                    /\ old.positionSavedAt # NoTime
                          => new.positionSavedAt = old.positionSavedAt
<1>1. ASSUME QueueInv, [QueueNext]_queueVars PROVE [Body]_queueVars
  <2>1. StepOK \/ queue' = queue
    BY <1>1, QueueStep
  <2>2. CASE StepOK
    BY <2>2 DEF StepOK, KeepsDecisions, KeepsDecided, View
  <2>3. CASE queue' = queue
    BY <2>3
  <2> QED BY <2>1, <2>2, <2>3
<1>2. DecisionsStick <=> [][Body]_queueVars
  BY DEF DecisionsStick
<1> QED BY <1>1, <1>2, QueueInvariant, PTL DEF QueueSpec

\* The array of work-queue.ts does what its callers rely on, answer for answer.
THEOREM ArrayImplementsContract == QueueSpec => ImplementsContract
<1>1. QueueInit => QueueView!Init
  BY QueueStart
<1>2. QueueInv /\ [QueueNext]_queueVars => [QueueView!Next]_(QueueView!vars)
  BY QueueStep
<1> QED
  BY <1>1, <1>2, QueueInvariant, PTL DEF QueueSpec, ImplementsContract, QueueView!Spec

-----------------------------------------------------------------------------
(* ShardedList: the invariant of the stored shards.                        *)

\* No item is in two shards of the new list.
NextIsDisjoint ==
    \A n, k \in DOMAIN next : \A id \in DOMAIN next[n] : id \in DOMAIN next[k] => n = k

\* What is not pending is stored as planned.
WrittenAsPlanned ==
    /\ \A n \in DOMAIN next \ pending : n \in DOMAIN shards /\ shards[n] = next[n]
    /\ ~saving => DOMAIN next = {}

ShardsInv == TypeOK /\ NextIsDisjoint /\ WrittenAsPlanned

-----------------------------------------------------------------------------
(* Facts about the operators.                                              *)

\* A set of numbers that is not empty has a lowest.
LEMMA LowestFacts ==
    ASSUME NEW S \in SUBSET Nat, S # {}
    PROVE  Lowest(S) \in S /\ \A k \in S : Lowest(S) <= k
<1>1. \E n \in S : \A k \in S : ~ (<<k, n>> \in OpToRel(<, Nat))
  BY NatLessThanWellFounded, WFMin
<1>2. \A n, k \in S : ~ (<<k, n>> \in OpToRel(<, Nat)) => n <= k
  <2>1. ASSUME NEW n \in Nat, NEW k \in Nat, ~ (n <= k) PROVE <<k, n>> \in OpToRel(<, Nat)
    <3>1. k < n /\ <<k, n>> \in Nat \X Nat
      BY <2>1
    <3> QED BY <3>1 DEF OpToRel
  <2> QED BY <2>1
<1>3. \E n \in S : \A k \in S : n <= k
  BY <1>1, <1>2
<1> QED BY <1>3 DEF Lowest

\* Loading gives each item in the version of a shard that holds it.
LEMMA JoinedFacts ==
    ASSUME NEW s, DOMAIN s \subseteq Nat
    PROVE  /\ DOMAIN Joined(s) = IdsIn(s)
           /\ \A id \in IdsIn(s) :
                 \E n \in DOMAIN s : id \in DOMAIN s[n] /\ Joined(s)[id] = s[n][id]
<1>1. ASSUME NEW id \in IdsIn(s)
      PROVE  Lowest(Holders(s, id)) \in Holders(s, id)
  <2>1. Holders(s, id) \in SUBSET Nat /\ Holders(s, id) # {}
    BY DEF Holders, IdsIn
  <2> QED BY <2>1, LowestFacts
<1> QED BY <1>1 DEF Joined, Holders

\* The new list, put together from its shards, has each item as its shard does.
LEMMA NextFacts ==
    ASSUME ShardsInv
    PROVE  /\ DOMAIN next \subseteq Nat
           /\ DOMAIN Joined(next) = IdsIn(next)
           /\ \A n \in DOMAIN next : \A id \in DOMAIN next[n] :
                 id \in IdsIn(next) /\ Joined(next)[id] = next[n][id]
<1>1. DOMAIN next \subseteq Nat
  BY DEF ShardsInv, TypeOK
<1>2. ASSUME NEW n \in DOMAIN next, NEW id \in DOMAIN next[n]
      PROVE  id \in IdsIn(next) /\ Joined(next)[id] = next[n][id]
  <2>1. id \in IdsIn(next)
    BY DEF IdsIn
  <2>2. PICK k \in DOMAIN next : id \in DOMAIN next[k] /\ Joined(next)[id] = next[k][id]
    BY <1>1, <2>1, JoinedFacts
  <2> QED BY <2>1, <2>2 DEF ShardsInv, NextIsDisjoint
<1> QED BY <1>1, <1>2, JoinedFacts

-----------------------------------------------------------------------------
(* The invariant.                                                          *)

\* A list is cut into shards that share no item.
LEMMA BeginSaveKeeps ==
    ASSUME ShardsInv, NEW list \in Lists, NEW m \in 0..MaxShards, BeginSave(list, m)
    PROVE  ShardsInv'
<1>1. PICK shardOf \in [DOMAIN list -> 0..(m - 1)] :
        next' = [n \in 0..(m - 1) |->
                   [id \in {i \in DOMAIN list : shardOf[i] = n} |-> list[id]]]
  BY DEF BeginSave, Cuts
<1>2. /\ DOMAIN next' = 0..(m - 1)
      /\ \A n \in DOMAIN next' : \A id \in DOMAIN next'[n] :
            id \in DOMAIN list /\ shardOf[id] = n /\ next'[n][id] = list[id]
  BY <1>1
<1>3. DOMAIN list \subseteq Ids /\ \A id \in DOMAIN list : list[id] \in Values
  BY DEF Lists
<1>4. \A n \in DOMAIN next' : IsShard(next'[n])
  BY <1>2, <1>3 DEF IsShard
<1>5. IsShard(loaded')
  BY DEF BeginSave, IsShard, Nothing
<1>6. TypeOK'
  BY <1>2, <1>4, <1>5 DEF BeginSave, ShardsInv, TypeOK
<1>7. NextIsDisjoint'
  BY <1>2 DEF NextIsDisjoint
<1>8. WrittenAsPlanned'
  BY <1>2 DEF BeginSave, WrittenAsPlanned
<1> QED BY <1>6, <1>7, <1>8 DEF ShardsInv

\* Loading gives items that are stored.
LEMMA LoadKeeps == ASSUME ShardsInv, Load PROVE ShardsInv'
<1>1. DOMAIN shards \subseteq Nat
  BY DEF ShardsInv, TypeOK
<1>2. IsShard(Joined(shards))
  BY <1>1, JoinedFacts DEF IsShard, IdsIn, ShardsInv, TypeOK
<1> QED BY <1>2 DEF Load, ShardsInv, TypeOK, NextIsDisjoint, WrittenAsPlanned

\* A pending shard is written as planned.
LEMMA WriteShardKeeps ==
    ASSUME ShardsInv, NEW n \in pending, WriteShard(n) PROVE ShardsInv'
<1>1. n \in DOMAIN next /\ n \in Nat
  BY NextFacts DEF ShardsInv, TypeOK
<1>2. /\ DOMAIN shards' = DOMAIN shards \cup {n} /\ shards'[n] = next[n]
      /\ \A k \in DOMAIN shards \ {n} : shards'[k] = shards[k]
  <2>1. shards' = With(shards, n, next[n])
    BY DEF WriteShard
  <2> QED BY <2>1 DEF With
<1>3. pending' = pending \ {n} /\ UNCHANGED <<saving, next, loaded, interrupts>>
  BY DEF WriteShard
<1>4. TypeOK'
  BY <1>1, <1>2, <1>3 DEF ShardsInv, TypeOK
<1>5. NextIsDisjoint' /\ WrittenAsPlanned'
  BY <1>1, <1>2, <1>3 DEF ShardsInv, NextIsDisjoint, WrittenAsPlanned
<1> QED BY <1>4, <1>5 DEF ShardsInv

\* A temporary shard is past the planned ones, and holds what is stored.
LEMMA ParkItemsFacts ==
    ASSUME ShardsInv, NEW n \in pending, ParkItems(n)
    PROVE  \E t \in Nat :
              /\ t \notin DOMAIN shards /\ t \notin DOMAIN next
              /\ shards' = With(shards, t, [id \in AtRisk(n) |-> shards[n][id]])
              /\ n \in DOMAIN shards /\ AtRisk(n) \subseteq DOMAIN shards[n]
<1>1. PICK highest \in DOMAIN shards \cup DOMAIN next :
        /\ \A k \in DOMAIN shards \cup DOMAIN next : k <= highest
        /\ shards' = With(shards, highest + 1, [id \in AtRisk(n) |-> shards[n][id]])
  BY DEF ParkItems
<1>2. DOMAIN shards \cup DOMAIN next \subseteq Nat
  BY NextFacts DEF ShardsInv, TypeOK
<1>3. highest + 1 \in Nat /\ highest + 1 \notin DOMAIN shards \cup DOMAIN next
  BY <1>1, <1>2
<1>4. AtRisk(n) # {}
  BY DEF ParkItems, SafeToWrite
<1>5. n \in DOMAIN shards /\ AtRisk(n) \subseteq DOMAIN shards[n]
  BY <1>4 DEF AtRisk
<1> QED BY <1>1, <1>3, <1>5

LEMMA ParkItemsKeeps ==
    ASSUME ShardsInv, NEW n \in pending, ParkItems(n) PROVE ShardsInv'
<1>1. PICK t \in Nat :
        /\ t \notin DOMAIN shards /\ t \notin DOMAIN next
        /\ shards' = With(shards, t, [id \in AtRisk(n) |-> shards[n][id]])
        /\ n \in DOMAIN shards /\ AtRisk(n) \subseteq DOMAIN shards[n]
  BY ParkItemsFacts
<1>2. UNCHANGED <<saving, next, pending, loaded, interrupts>>
  BY DEF ParkItems
<1>3. /\ DOMAIN shards' = DOMAIN shards \cup {t}
      /\ shards'[t] = [id \in AtRisk(n) |-> shards[n][id]]
      /\ \A k \in DOMAIN shards \ {t} : shards'[k] = shards[k]
  BY <1>1 DEF With
<1>4. IsShard(shards'[t])
  BY <1>1, <1>3 DEF ShardsInv, TypeOK, IsShard
<1>5. TypeOK'
  BY <1>2, <1>3, <1>4 DEF ShardsInv, TypeOK
<1>6. NextIsDisjoint' /\ WrittenAsPlanned'
  BY <1>1, <1>2, <1>3 DEF ShardsInv, NextIsDisjoint, WrittenAsPlanned
<1> QED BY <1>5, <1>6 DEF ShardsInv

\* Only shards past the planned ones are deleted.
LEMMA DeleteShardFacts ==
    ASSUME ShardsInv, NEW n \in DOMAIN shards, DeleteShard(n)
    PROVE  n \notin DOMAIN next
<1>1. Surplus \in SUBSET Nat /\ Surplus # {} /\ n = Lowest(Surplus)
  BY DEF DeleteShard, Surplus, ShardsInv, TypeOK
<1>2. n \in Surplus
  BY <1>1, LowestFacts
<1> QED BY <1>2 DEF Surplus

LEMMA DeleteShardKeeps ==
    ASSUME ShardsInv, NEW n \in DOMAIN shards, DeleteShard(n) PROVE ShardsInv'
<1>1. TypeOK'
  BY DEF DeleteShard, ShardsInv, TypeOK
<1>2. NextIsDisjoint' /\ WrittenAsPlanned'
  BY DeleteShardFacts DEF DeleteShard, ShardsInv, NextIsDisjoint, WrittenAsPlanned
<1> QED BY <1>1, <1>2 DEF ShardsInv

\* Between saves nothing is planned.
LEMMA SaveEndsKeep ==
    ASSUME ShardsInv, FinishSave \/ InterruptSave PROVE ShardsInv'
<1>1. /\ next' = Nothing /\ pending' = {} /\ saving' = FALSE
      /\ UNCHANGED <<shards, loaded>> /\ interrupts' \in Nat
  BY DEF FinishSave, InterruptSave, ShardsInv, TypeOK
<1>2. DOMAIN next' = {} /\ DOMAIN next' = 0..(0 - 1) /\ 0 \in 0..MaxShards
  BY <1>1, ShardedListAssumption DEF Nothing
<1> QED BY <1>1, <1>2 DEF ShardsInv, TypeOK, NextIsDisjoint, WrittenAsPlanned

LEMMA InitShardsInv == Init => ShardsInv
<1> SUFFICES ASSUME Init PROVE ShardsInv
  OBVIOUS
<1>1. DOMAIN next = 0..(0 - 1) /\ 0 \in 0..MaxShards
  BY ShardedListAssumption DEF Init, Nothing
<1> QED BY <1>1 DEF Init, Nothing, ShardsInv, TypeOK, IsShard, NextIsDisjoint, WrittenAsPlanned

LEMMA NextShardsInv == ShardsInv /\ [Next]_vars => ShardsInv'
<1> SUFFICES ASSUME ShardsInv, [Next]_vars PROVE ShardsInv'
  OBVIOUS
<1>1. CASE UNCHANGED vars
  BY <1>1 DEF vars, ShardsInv, TypeOK, NextIsDisjoint, WrittenAsPlanned
<1> QED BY <1>1, LoadKeeps, BeginSaveKeeps, WriteShardKeeps, ParkItemsKeeps,
           DeleteShardKeeps, SaveEndsKeep DEF Next, SaveStep

-----------------------------------------------------------------------------
(* What a step of a save does to the items.                                *)

Survivors == IdsIn(shards) \cap IdsIn(next)

\* The versions an item has when it is stored or being saved.
Around(id) ==
    (IF id \in IdsIn(shards) THEN Held[id] ELSE {})
        \cup (IF id \in IdsIn(next) THEN {Joined(next)[id]} ELSE {})

\* A step that keeps the survivors and stores only versions that are around.
KeepsItems ==
    /\ Survivors \subseteq IdsIn(shards')
    /\ \A n \in DOMAIN shards' : \A id \in DOMAIN shards'[n] : shards'[n][id] \in Around(id)

\* A version stored in some shard is one of those held.
LEMMA HeldFacts ==
    ASSUME NEW n \in DOMAIN shards, NEW id \in DOMAIN shards[n]
    PROVE  id \in IdsIn(shards) /\ shards[n][id] \in Held[id]
<1>1. id \in IdsIn(shards)
  BY DEF IdsIn
<1> QED BY <1>1 DEF Held, Holders

\* Overwriting a shard from which nothing is at risk.
LEMMA WriteShardKeepsItems ==
    ASSUME ShardsInv, NEW n \in pending, WriteShard(n) PROVE KeepsItems
<1>1. n \in DOMAIN next /\ pending \subseteq Nat
  BY NextFacts DEF ShardsInv, TypeOK
<1>2. /\ DOMAIN shards' = DOMAIN shards \cup {n} /\ shards'[n] = next[n]
      /\ \A k \in DOMAIN shards \ {n} : shards'[k] = shards[k]
  <2>1. shards' = With(shards, n, next[n])
    BY DEF WriteShard
  <2> QED BY <2>1 DEF With
<1>3. AtRisk(n) = {}
  <2>1. SafeToWrite \in SUBSET Nat /\ SafeToWrite # {} /\ n = Lowest(SafeToWrite)
    BY <1>1 DEF WriteShard, SafeToWrite
  <2>2. n \in SafeToWrite
    BY <2>1, LowestFacts
  <2> QED BY <2>2 DEF SafeToWrite
<1>4. ASSUME NEW id \in Survivors PROVE id \in IdsIn(shards')
  <2>1. PICK k \in DOMAIN shards : id \in DOMAIN shards[k]
    BY DEF Survivors, IdsIn
  <2>2. CASE \E j \in DOMAIN shards \ {n} : id \in DOMAIN shards[j]
    BY <1>2, <2>2 DEF IdsIn
  <2>3. CASE ~ \E j \in DOMAIN shards \ {n} : id \in DOMAIN shards[j]
    <3>1. k = n /\ Holders(shards, id) = {n}
      BY <2>1, <2>3 DEF Holders
    <3>2. id \in DOMAIN next[n]
      BY <1>3, <2>1, <3>1 DEF AtRisk, Survivors
    <3> QED BY <1>2, <3>2 DEF IdsIn
  <2> QED BY <2>2, <2>3
<1>5. ASSUME NEW k \in DOMAIN shards', NEW id \in DOMAIN shards'[k]
      PROVE  shards'[k][id] \in Around(id)
  <2>1. CASE k = n
    BY <1>1, <1>2, <2>1, <1>5, NextFacts DEF Around
  <2>2. CASE k # n
    <3>1. k \in DOMAIN shards /\ shards'[k] = shards[k] /\ id \in DOMAIN shards[k]
      BY <1>2, <2>2, <1>5
    <3>2. id \in IdsIn(shards) /\ shards[k][id] \in Held[id]
      BY <3>1, HeldFacts
    <3> QED BY <3>1, <3>2 DEF Around
  <2> QED BY <2>1, <2>2
<1> QED BY <1>4, <1>5 DEF KeepsItems

\* A temporary shard adds copies of what is stored.
LEMMA ParkItemsKeepsItems ==
    ASSUME ShardsInv, NEW n \in pending, ParkItems(n) PROVE KeepsItems
<1>1. PICK t \in Nat :
        /\ t \notin DOMAIN shards /\ t \notin DOMAIN next
        /\ shards' = With(shards, t, [id \in AtRisk(n) |-> shards[n][id]])
        /\ n \in DOMAIN shards /\ AtRisk(n) \subseteq DOMAIN shards[n]
  BY ParkItemsFacts
<1>2. /\ DOMAIN shards' = DOMAIN shards \cup {t}
      /\ shards'[t] = [id \in AtRisk(n) |-> shards[n][id]]
      /\ \A k \in DOMAIN shards : shards'[k] = shards[k]
  BY <1>1 DEF With
<1>3. Survivors \subseteq IdsIn(shards')
  BY <1>2 DEF Survivors, IdsIn
<1>4. ASSUME NEW k \in DOMAIN shards', NEW id \in DOMAIN shards'[k]
      PROVE  shards'[k][id] \in Around(id)
  <2>1. PICK j \in DOMAIN shards : id \in DOMAIN shards[j] /\ shards'[k][id] = shards[j][id]
    <3>1. CASE k = t
      BY <1>1, <1>2, <1>4, <3>1
    <3>2. CASE k # t
      BY <1>2, <1>4, <3>2
    <3> QED BY <3>1, <3>2
  <2> QED BY <2>1, HeldFacts DEF Around
<1> QED BY <1>3, <1>4 DEF KeepsItems

\* By the time of the deletes, all of the new list is stored as planned.
LEMMA DeleteShardKeepsItems ==
    ASSUME ShardsInv, NEW n \in DOMAIN shards, DeleteShard(n) PROVE KeepsItems
<1>1. /\ DOMAIN shards' = DOMAIN shards \ {n}
      /\ \A k \in DOMAIN shards \ {n} : shards'[k] = shards[k]
      /\ pending = {}
  BY DEF DeleteShard
<1>2. \A k \in DOMAIN next : k \in DOMAIN shards' /\ shards'[k] = next[k]
  BY <1>1, DeleteShardFacts DEF ShardsInv, WrittenAsPlanned
<1>3. Survivors \subseteq IdsIn(shards')
  BY <1>2 DEF Survivors, IdsIn
<1>4. ASSUME NEW k \in DOMAIN shards', NEW id \in DOMAIN shards'[k]
      PROVE  shards'[k][id] \in Around(id)
  <2>1. k \in DOMAIN shards /\ shards'[k] = shards[k] /\ id \in DOMAIN shards[k]
    BY <1>1, <1>4
  <2> QED BY <2>1, HeldFacts DEF Around
<1> QED BY <1>3, <1>4 DEF KeepsItems

\* Whatever step comes next, the survivors are still stored after it.
LEMMA SurvivorsStayStep ==
    ASSUME ShardsInv, [Next]_vars PROVE \A id \in Survivors : id \in IdsIn(shards')
<1>1. CASE UNCHANGED shards
  BY <1>1 DEF Survivors, IdsIn
<1>2. ASSUME NEW n \in pending, WriteShard(n) \/ ParkItems(n)
      PROVE  \A id \in Survivors : id \in IdsIn(shards')
  BY <1>2, WriteShardKeepsItems, ParkItemsKeepsItems DEF KeepsItems
<1>3. ASSUME NEW n \in DOMAIN shards, DeleteShard(n)
      PROVE  \A id \in Survivors : id \in IdsIn(shards')
  BY <1>3, DeleteShardKeepsItems DEF KeepsItems
<1> QED BY <1>1, <1>2, <1>3
        DEF Next, SaveStep, vars, Load, BeginSave, FinishSave, InterruptSave

-----------------------------------------------------------------------------
(* The refinement of ListStore.                                            *)

\* A step that keeps the items is one the contract allows a save.
LEMMA KeepsItemsIsSaveStep ==
    ASSUME ShardsInv, saving, KeepsItems, UNCHANGED <<saving, next, loaded>>
    PROVE  Contract!SaveStep
<1> DEFINE list == Joined(next)
           both == DOMAIN Held \cap DOMAIN list
           either == DOMAIN Held \cup DOMAIN list
           all == UNION {Contract!Versions(Held, list, id) : id \in either}
<1>1. /\ DOMAIN Held = IdsIn(shards) /\ DOMAIN Held' = IdsIn(shards')
      /\ DOMAIN list = IdsIn(next)
  BY NextFacts DEF Held
<1>2. \A id \in either : Contract!Versions(Held, list, id) = Around(id)
  BY <1>1 DEF Contract!Versions, Around
<1>3. ASSUME NEW id \in IdsIn(shards')
      PROVE  /\ id \in either
             /\ Held'[id] \subseteq Contract!Versions(Held, list, id)
             /\ Held'[id] # {}
  <2>1. Held'[id] = {shards'[n][id] : n \in {k \in DOMAIN shards' : id \in DOMAIN shards'[k]}}
    BY DEF Held, Holders
  <2>2. PICK n \in DOMAIN shards' : id \in DOMAIN shards'[n]
    BY DEF IdsIn
  <2>3. Held'[id] # {} /\ Held'[id] \subseteq Around(id)
    BY <2>1, <2>2 DEF KeepsItems
  <2>4. id \in either
    BY <1>1, <2>3 DEF Around
  <2> QED BY <1>2, <2>3, <2>4
<1>4. IdsIn(shards') \subseteq either /\ both \subseteq IdsIn(shards')
  BY <1>1, <1>3 DEF KeepsItems, Survivors
<1>5. \A id \in IdsIn(shards') : Held'[id] \in (SUBSET all) \ {{}}
  BY <1>3
<1>6. Held' \in [IdsIn(shards') -> (SUBSET all) \ {{}}]
  BY <1>1, <1>5 DEF Held
<1>7. Held' \in Contract!PartlySaved(Held, list)
  BY <1>3, <1>4, <1>6 DEF Contract!PartlySaved
<1> QED BY <1>7 DEF Contract!SaveStep

\* A save that ends has left exactly its list.
LEMMA FinishSaveLeavesList ==
    ASSUME ShardsInv, FinishSave PROVE Contract!FinishSave
<1>1. /\ saving /\ saving' = FALSE /\ UNCHANGED <<shards, loaded>>
      /\ pending = {} /\ Surplus = {} /\ interrupts' = 0
  BY DEF FinishSave
<1>2. DOMAIN shards = DOMAIN next /\ \A n \in DOMAIN next : shards[n] = next[n]
  BY <1>1 DEF Surplus, ShardsInv, WrittenAsPlanned
<1>3. IdsIn(shards) = IdsIn(next) /\ DOMAIN Joined(next) = IdsIn(next)
  BY <1>2, NextFacts DEF IdsIn
<1>4. ASSUME NEW id \in IdsIn(shards) PROVE Held[id] = {Joined(next)[id]}
  <2>1. Held[id] = {shards[n][id] : n \in Holders(shards, id)}
    BY DEF Held
  <2>2. \A n \in Holders(shards, id) : shards[n][id] = Joined(next)[id]
    BY <1>2, NextFacts DEF Holders
  <2>3. Holders(shards, id) # {}
    BY DEF Holders, IdsIn
  <2> QED BY <2>1, <2>2, <2>3
<1>5. Held' = Held
  BY <1>1 DEF Held, IdsIn, Holders
<1>6. Held = Contract!Exactly(Joined(next))
  BY <1>3, <1>4 DEF Held, Contract!Exactly
<1> QED BY <1>1, <1>5, <1>6 DEF Contract!FinishSave

\* Loading gives each stored item in one of its versions.
LEMMA LoadIsLoad == ASSUME ShardsInv, Load PROVE Contract!Load
<1>1. DOMAIN shards \subseteq Nat
  BY DEF ShardsInv, TypeOK
<1>2. /\ DOMAIN Joined(shards) = DOMAIN Held /\ DOMAIN Held = IdsIn(shards)
      /\ \A id \in DOMAIN Held : Joined(shards)[id] \in Held[id]
  BY <1>1, JoinedFacts, HeldFacts DEF Held
<1>3. Joined(shards) \in [DOMAIN Held -> UNION {Held[id] : id \in DOMAIN Held}]
  BY <1>2 DEF Joined
<1>4. Joined(shards) \in Contract!Loads(Held)
  BY <1>2, <1>3 DEF Contract!Loads
<1>5. Held' = Held
  BY DEF Load, Held, IdsIn, Holders
<1> QED BY <1>4, <1>5 DEF Load, Contract!Load

\* The shards that a save plans are those of a list.
LEMMA BeginSaveIsBeginSave ==
    ASSUME ShardsInv, NEW list \in Lists, NEW m \in 0..MaxShards, BeginSave(list, m)
    PROVE  \E l \in Contract!Lists : Contract!BeginSave(l)
<1>1. ShardsInv' /\ saving' = TRUE /\ ~saving /\ shards' = shards /\ loaded' = Nothing
  BY BeginSaveKeeps DEF BeginSave
<1>2. Held' = Held
  BY <1>1 DEF Held, IdsIn, Holders
<1>3. DOMAIN next' \subseteq Nat /\ \A n \in DOMAIN next' : IsShard(next'[n])
  BY <1>1 DEF ShardsInv, TypeOK
<1>4. /\ DOMAIN Joined(next') = IdsIn(next') /\ IdsIn(next') \subseteq Ids
      /\ \A id \in IdsIn(next') : Joined(next')[id] \in Values
  <2>1. IdsIn(next') \subseteq Ids
    BY <1>3 DEF IdsIn, IsShard
  <2> QED BY <1>3, <2>1, JoinedFacts DEF IsShard
<1>5. Joined(next') \in [IdsIn(next') -> Values]
  BY <1>4 DEF Joined
<1>6. Joined(next') \in Contract!Lists
  BY <1>4, <1>5 DEF Contract!Lists
<1>7. Contract!BeginSave(Joined(next'))
  BY <1>1, <1>2 DEF Contract!BeginSave, Contract!Nothing, Nothing
<1> QED BY <1>6, <1>7

LEMMA InitImplements == Init => Contract!Init
  BY DEF Init, Nothing, Held, IdsIn, Holders, Contract!Init, Contract!Nothing

\* Every step of the shards is one of the contract, or none.
LEMMA NextImplements ==
    ASSUME ShardsInv, [Next]_vars PROVE [Contract!Next]_Contract!vars
<1>1. CASE Load
  BY <1>1, LoadIsLoad DEF Contract!Next
<1>2. ASSUME NEW list \in Lists, NEW m \in 0..MaxShards, BeginSave(list, m)
      PROVE  Contract!Next
  BY <1>2, BeginSaveIsBeginSave DEF Contract!Next
<1>3. ASSUME NEW n \in pending, WriteShard(n) \/ ParkItems(n) PROVE Contract!Next
  <2>1. saving /\ UNCHANGED <<saving, next, loaded>>
    BY <1>3 DEF WriteShard, ParkItems
  <2>2. KeepsItems
    BY <1>3, WriteShardKeepsItems, ParkItemsKeepsItems
  <2> QED BY <2>1, <2>2, KeepsItemsIsSaveStep DEF Contract!Next
<1>4. ASSUME NEW n \in DOMAIN shards, DeleteShard(n) PROVE Contract!Next
  <2>1. saving /\ UNCHANGED <<saving, next, loaded>>
    BY <1>4 DEF DeleteShard
  <2>2. KeepsItems
    BY <1>4, DeleteShardKeepsItems
  <2> QED BY <2>1, <2>2, KeepsItemsIsSaveStep DEF Contract!Next
<1>5. CASE FinishSave
  BY <1>5, FinishSaveLeavesList DEF Contract!Next
<1>6. CASE InterruptSave
  <2>1. saving /\ ~saving' /\ interrupts' # 0 /\ UNCHANGED <<shards, loaded>>
    BY <1>6 DEF InterruptSave, ShardsInv, TypeOK
  <2>2. Held' = Held
    BY <2>1 DEF Held, IdsIn, Holders
  <2> QED BY <2>1, <2>2 DEF Contract!Next, Contract!InterruptSave
<1>7. CASE UNCHANGED vars
  BY <1>7 DEF vars, Held, IdsIn, Holders, Joined, Lowest, Contract!vars
<1> QED BY <1>1, <1>2, <1>3, <1>4, <1>5, <1>6, <1>7 DEF Next, SaveStep

-----------------------------------------------------------------------------
(* The theorems about the stored shards.                                   *)

\* The strengthening of the properties below holds of every reachable state.
THEOREM InductiveInvariant == Spec => []ShardsInv
  BY InitShardsInv, NextShardsInv, PTL DEF Spec

\* Shards hold items, and what is pending is a shard of the plan.
THEOREM TypeCorrectness == Spec => []TypeOK
  BY InductiveInvariant, PTL DEF ShardsInv

\* A save that stops after any step, any number of times in a row, has lost no
\* item that was stored and is in the new list.
THEOREM SurvivorsNeverVanish == Spec => SurvivorsStay
<1>1. ShardsInv /\ [Next]_vars =>
        [\A id \in IdsIn(shards) \cap IdsIn(next) : id \in IdsIn(shards')]_vars
  BY SurvivorsStayStep DEF Survivors
<1> QED BY <1>1, InductiveInvariant, PTL DEF Spec, SurvivorsStay

\* The shards and the plan of writes implement the store that the models of the
\* queue's users assume.
THEOREM ListStoreImplemented == Spec => ImplementsListStore
<1>1. ShardsInv /\ [Next]_vars => [Contract!Next]_Contract!vars
  BY NextImplements
<1> QED BY <1>1, InitImplements, InductiveInvariant, PTL
        DEF Spec, ImplementsListStore, Contract!Spec
=============================================================================
