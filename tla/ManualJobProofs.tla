--------------------------- MODULE ManualJobProofs ----------------------------
(***************************************************************************)
(* Proofs about the manual job (module ManualJob): its type invariant and  *)
(* the caps, every safety property of its runs, and that a job completes   *)
(* only when its whole search has been queued.                             *)
(*                                                                         *)
(* The inductive invariant says of each point of an execution what its     *)
(* memory has to do with what is stored: in the middle of the work the two *)
(* are equal, and while it writes, what is left to write decides what may  *)
(* still be queued.  The search is covered by counting: the threads before *)
(* a cursor are at least as many as the cursor says, so a walk that has    *)
(* counted that many has passed no thread that is still owed.              *)
(***************************************************************************)
EXTENDS ManualJob, FiniteSetTheorems, SequenceTheorems, TLAPS

-----------------------------------------------------------------------------
(* The inductive invariant.                                                *)

Follows(q, j) == \A t \in From(q, "manual") : q[t].moves = j.moves

\* Between its writes an execution has in memory what is stored.
MemoryIsCurrent ==
    /\ pc \in {"idle", "load"} => run.job = NoJob
    /\ pc \in {"refill", "walk", "chunk"} =>
          run.queue = queue /\ run.job = job /\ job # NoJob
    /\ pc # "walk" /\ (pc = "writing" => run.after = "refill") =>
          run.passed = 0 /\ run.token = NoToken /\ ~run.moved

\* What an execution that writes may have left to write, and what it knows.
SavesWork ==
    /\ run.todo \in {PageWrites, <<"job">>}
    /\ run.after \in {"refill", "idle"}
    /\ job # NoJob /\ run.job # NoJob /\ run.job.moves = job.moves
    /\ Follows(run.queue, job)
    /\ run.todo = <<"job">> => run.queue = queue

DropsJob ==
    /\ run.todo \in {CancelWrites, <<"queue">>, <<"delete">>}
    /\ run.after = "idle"
    /\ From(run.queue, "manual") = {}
    /\ run.todo = <<"delete">> => From(queue, "manual") = {}

StartsJob ==
    /\ run.todo \in {CancelWrites \o StartWrites, <<"queue">> \o StartWrites,
                     <<"delete">> \o StartWrites, StartWrites}
    /\ run.after = "load"
    /\ \E moves \in BOOLEAN : run.job = NewJob(moves)
    /\ From(run.queue, "manual") = {}
    /\ Head(run.todo) # "queue" => From(queue, "manual") = {}

ForgetsInputs ==
    /\ run.todo \in {<<"query", "moves", "replace">>, <<"moves", "replace">>,
                     <<"replace">>}
    /\ run.after = "load"
    /\ job # NoJob /\ run.job = job

WritesArePlanned ==
    pc = "writing" => SavesWork \/ DropsJob \/ StartsJob \/ ForgetsInputs

\* Threads the job still owes match its search.
OwedAreListed == \A t \in owed : date[t] > 0

\* A cursor has left none of S behind, and at least as many threads as it
\* counted lie before it and before each of S, unless one of them is gone.
Ahead(t) == {u \in Threads : date[u] > date[t]}
Before(token) == {u \in Threads : date[u] >= token}

Covers(j, S) ==
    /\ j.done => S = {}
    /\ j.token # NoToken => \A t \in S : date[t] < j.token
    /\ ~left => \A t \in S : Cardinality(Ahead(t)) >= j.seen
    /\ ~left /\ j.token # NoToken => Cardinality(Before(j.token)) >= j.seen

Unsaved == IF pc = "writing" /\ Head(run.todo) = "queue"
           THEN owed \ Queued(run.queue) ELSE owed

CursorsCover == slipped \/ (Covers(job, owed) /\ Covers(run.job, Unsaved))

\* A walk has counted what lies before its place, and each thread that is owed
\* lies behind it, with the rest of what the cursor counted in between.
Between(t) == {u \in Ahead(t) : run.token = NoToken \/ date[u] < run.token}

WalkIsExact ==
    pc = "walk" =>
        /\ run.passed <= run.job.seen
        /\ run.token = NoToken => run.passed = 0
        /\ \/ slipped \/ left \/ run.moved
           \/ /\ run.token # NoToken => Cardinality(Before(run.token)) >= run.passed
              /\ \A t \in owed :
                    /\ run.token # NoToken => date[t] < run.token
                    /\ run.passed + Cardinality(Between(t)) >= run.job.seen

Consistent ==
    /\ TypeOK
    /\ ManualWorkHasAJob
    /\ MovesFollowTheJob
    /\ MemoryIsCurrent
    /\ WritesArePlanned

IInv ==
    /\ Consistent
    /\ OwedAreListed
    /\ CursorsCover
    /\ WalkIsExact

-----------------------------------------------------------------------------
(* Facts about the plans, the sets of threads and the queue.               *)

\* The three longer plans, written out.
LEMMA LongPlans ==
    /\ CancelWrites \o StartWrites =
          <<"queue", "delete", "new", "query", "moves", "replace">>
    /\ <<"queue">> \o StartWrites = <<"queue", "new", "query", "moves", "replace">>
    /\ <<"delete">> \o StartWrites = <<"delete", "new", "query", "moves", "replace">>
  <1>1. ASSUME NEW x \in Keys
        PROVE  <<x>> \o StartWrites = <<x, "new", "query", "moves", "replace">>
    <2> DEFINE s == <<x>> \o StartWrites
               t == <<x, "new", "query", "moves", "replace">>
    <2>1. <<x>> \in Seq(Keys) /\ StartWrites \in Seq(Keys) /\ t \in Seq(Keys)
      BY DEF StartWrites, Keys, Inputs
    <2>2. s \in Seq(Keys) BY <2>1
    <2>3. Len(s) = 5 /\ Len(t) = 5 BY <2>1 DEF StartWrites
    <2>4. s[1] = t[1] /\ s[2] = t[2] /\ s[3] = t[3] /\ s[4] = t[4] /\ s[5] = t[5]
      BY DEF StartWrites
    <2>5. \A i \in 1..Len(s) : s[i] = t[i] BY <2>3, <2>4
    <2> QED BY <2>1, <2>2, <2>3, <2>5, SeqEqual
  <1>2. CancelWrites \o StartWrites =
          <<"queue", "delete", "new", "query", "moves", "replace">>
    <2> DEFINE s == CancelWrites \o StartWrites
               t == <<"queue", "delete", "new", "query", "moves", "replace">>
    <2>1. CancelWrites \in Seq(Keys) /\ StartWrites \in Seq(Keys) /\ t \in Seq(Keys)
      BY DEF CancelWrites, StartWrites, Keys, Inputs
    <2>2. s \in Seq(Keys) BY <2>1
    <2>3. Len(s) = 6 /\ Len(t) = 6 BY <2>1 DEF CancelWrites, StartWrites
    <2>4. s[1] = t[1] /\ s[2] = t[2] /\ s[3] = t[3]
      BY DEF CancelWrites, StartWrites
    <2>5. s[4] = t[4] /\ s[5] = t[5] /\ s[6] = t[6]
      BY DEF CancelWrites, StartWrites
    <2>6. \A i \in 1..Len(s) : s[i] = t[i] BY <2>3, <2>4, <2>5
    <2> QED BY <2>1, <2>2, <2>3, <2>6, SeqEqual
  <1>3. "queue" \in Keys /\ "delete" \in Keys BY DEF Keys
  <1> QED BY <1>1, <1>2, <1>3

\* What a plan writes next and what then is left of it.
LEMMA PlansOfWork ==
    ASSUME NEW todo \in {PageWrites, <<"job">>}
    PROVE  /\ \/ todo = PageWrites /\ Head(todo) = "queue" /\ Tail(todo) = <<"job">>
              \/ todo = <<"job">> /\ Head(todo) = "job" /\ Tail(todo) = <<>>
           /\ todo \in Seq(Keys) /\ todo # <<>>
  <1>1. CASE todo = PageWrites BY <1>1 DEF PageWrites, Keys
  <1>2. CASE todo = <<"job">> BY <1>2 DEF Keys
  <1> QED BY <1>1, <1>2

LEMMA PlansOfDrops ==
    ASSUME NEW todo \in {CancelWrites, <<"queue">>, <<"delete">>}
    PROVE  /\ \/ todo = CancelWrites /\ Head(todo) = "queue" /\ Tail(todo) = <<"delete">>
              \/ todo = <<"queue">> /\ Head(todo) = "queue" /\ Tail(todo) = <<>>
              \/ todo = <<"delete">> /\ Head(todo) = "delete" /\ Tail(todo) = <<>>
           /\ todo \in Seq(Keys) /\ todo # <<>>
  <1>1. CASE todo = CancelWrites BY <1>1 DEF CancelWrites, Keys
  <1>2. CASE todo = <<"queue">> BY <1>2 DEF Keys
  <1>3. CASE todo = <<"delete">> BY <1>3 DEF Keys
  <1> QED BY <1>1, <1>2, <1>3

LEMMA PlansOfStarts ==
    ASSUME NEW todo \in {CancelWrites \o StartWrites, <<"queue">> \o StartWrites,
                         <<"delete">> \o StartWrites, StartWrites}
    PROVE  /\ \/ /\ Head(todo) = "queue"
                 /\ Tail(todo) \in {<<"delete">> \o StartWrites, StartWrites}
                 /\ Head(Tail(todo)) # "queue"
              \/ Head(todo) = "delete" /\ Tail(todo) = StartWrites
                 /\ Head(Tail(todo)) # "queue"
              \/ Head(todo) = "new" /\ Tail(todo) = <<"query", "moves", "replace">>
                 /\ Head(Tail(todo)) # "queue"
           /\ todo \in Seq(Keys) /\ todo # <<>> /\ Tail(todo) # <<>>
  <1>1. CASE todo = CancelWrites \o StartWrites
    <2>1. todo = <<"queue", "delete", "new", "query", "moves", "replace">>
      BY <1>1, LongPlans
    <2>2. Tail(todo) = <<"delete", "new", "query", "moves", "replace">> BY <2>1
    <2>3. Head(todo) = "queue" /\ todo # <<>> BY <2>1
    <2>4. todo \in Seq(Keys) BY <2>1 DEF Keys, Inputs
    <2>5. Tail(todo) = <<"delete">> \o StartWrites BY <2>2, LongPlans
    <2>6. Head(Tail(todo)) = "delete" /\ Tail(todo) # <<>>
      <3>1. \A x : x = <<"delete", "new", "query", "moves", "replace">> => Head(x) = "delete" /\ x # <<>> OBVIOUS
      <3> QED BY <3>1, <2>2
    <2> QED BY <2>3, <2>4, <2>5, <2>6
  <1>2. CASE todo = <<"queue">> \o StartWrites
    <2>1. todo = <<"queue", "new", "query", "moves", "replace">>
      BY <1>2, LongPlans
    <2>2. Tail(todo) = <<"new", "query", "moves", "replace">> BY <2>1
    <2>3. Head(todo) = "queue" /\ todo # <<>> BY <2>1
    <2>4. todo \in Seq(Keys) BY <2>1 DEF Keys, Inputs
    <2>5. Tail(todo) = StartWrites BY <2>2 DEF StartWrites
    <2>6. Head(Tail(todo)) = "new" /\ Tail(todo) # <<>>
      <3>1. \A x : x = <<"new", "query", "moves", "replace">> => Head(x) = "new" /\ x # <<>> OBVIOUS
      <3> QED BY <3>1, <2>2
    <2> QED BY <2>3, <2>4, <2>5, <2>6
  <1>3. CASE todo = <<"delete">> \o StartWrites
    <2>1. todo = <<"delete", "new", "query", "moves", "replace">>
      BY <1>3, LongPlans
    <2>2. Tail(todo) = <<"new", "query", "moves", "replace">> BY <2>1
    <2>3. Head(todo) = "delete" /\ todo # <<>> BY <2>1
    <2>4. todo \in Seq(Keys) BY <2>1 DEF Keys, Inputs
    <2>5. Tail(todo) = StartWrites BY <2>2 DEF StartWrites
    <2>6. Head(Tail(todo)) = "new" /\ Tail(todo) # <<>>
      <3>1. \A x : x = <<"new", "query", "moves", "replace">> => Head(x) = "new" /\ x # <<>> OBVIOUS
      <3> QED BY <3>1, <2>2
    <2> QED BY <2>3, <2>4, <2>5, <2>6
  <1>4. CASE todo = StartWrites
    <2>1. todo = <<"new", "query", "moves", "replace">> BY <1>4 DEF StartWrites
    <2>2. Tail(todo) = <<"query", "moves", "replace">> BY <2>1
    <2>3. Head(todo) = "new" /\ todo # <<>> BY <2>1
    <2>4. todo \in Seq(Keys) BY <2>1 DEF Keys, Inputs
    <2>6. Head(Tail(todo)) = "query" /\ Tail(todo) # <<>>
      <3>1. \A x : x = <<"query", "moves", "replace">> => Head(x) = "query" /\ x # <<>> OBVIOUS
      <3> QED BY <3>1, <2>2
    <2> QED BY <2>2, <2>3, <2>4, <2>6
  <1> QED BY <1>1, <1>2, <1>3, <1>4

LEMMA PlansOfInputs ==
    ASSUME NEW todo \in {<<"query", "moves", "replace">>, <<"moves", "replace">>,
                         <<"replace">>}
    PROVE  /\ Head(todo) \in Inputs
           /\ \/ Tail(todo) = <<>>
              \/ /\ Tail(todo) \in {<<"moves", "replace">>, <<"replace">>}
                 /\ Tail(todo) # <<>> /\ Head(Tail(todo)) # "queue"
           /\ todo \in Seq(Keys) /\ todo # <<>>
  <1>1. CASE todo = <<"query", "moves", "replace">>
    <2>1. Tail(todo) = <<"moves", "replace">> BY <1>1
    <2>2. Head(todo) = "query" /\ todo # <<>> /\ Tail(todo) # <<>> BY <1>1
    <2>3. todo \in Seq(Keys) BY <1>1 DEF Keys, Inputs
    <2>4. Head(Tail(todo)) = "moves"
      <3>1. \A x : x = <<"moves", "replace">> => Head(x) = "moves" /\ x # <<>> OBVIOUS
      <3> QED BY <3>1, <2>1
    <2> QED BY <2>1, <2>2, <2>3, <2>4 DEF Inputs
  <1>2. CASE todo = <<"moves", "replace">>
    <2>1. Tail(todo) = <<"replace">> BY <1>2
    <2>2. Head(todo) = "moves" /\ todo # <<>> /\ Tail(todo) # <<>> BY <1>2
    <2>3. todo \in Seq(Keys) BY <1>2 DEF Keys, Inputs
    <2>4. Head(Tail(todo)) = "replace"
      <3>1. \A x : x = <<"replace">> => Head(x) = "replace" /\ x # <<>> OBVIOUS
      <3> QED BY <3>1, <2>1
    <2> QED BY <2>1, <2>2, <2>3, <2>4 DEF Inputs
  <1>3. CASE todo = <<"replace">>
    BY <1>3 DEF Keys, Inputs
  <1> QED BY <1>1, <1>2, <1>3

\* Sets of threads are finite, and the larger of two has no fewer members.
LEMMA ThreadSets ==
    ASSUME NEW S \in SUBSET Threads, NEW R \in SUBSET S
    PROVE  /\ IsFiniteSet(S) /\ IsFiniteSet(R)
           /\ Cardinality(S) \in Nat /\ Cardinality(R) \in Nat
           /\ Cardinality(R) <= Cardinality(S)
  <1>1. IsFiniteSet(S) BY FS_Subset, ManualJobAssumption
  <1> QED BY <1>1, FS_Subset, FS_CardinalityType

\* Two sets of threads without a common member add up.
LEMMA SetsAddUp ==
    ASSUME NEW S \in SUBSET Threads, NEW R \in SUBSET Threads
    PROVE  /\ Cardinality(S \cup R) <= Cardinality(S) + Cardinality(R)
           /\ S \cap R = {} =>
                 Cardinality(S \cup R) = Cardinality(S) + Cardinality(R)
  <1>1. IsFiniteSet(S) /\ IsFiniteSet(R) BY ThreadSets
  <1>2. Cardinality(S \cup R) = Cardinality(S) + Cardinality(R) - Cardinality(S \cap R)
    BY <1>1, FS_Union
  <1>3. Cardinality(S \cap R) \in Nat BY ThreadSets
  <1>4. Cardinality(S) \in Nat /\ Cardinality(R) \in Nat BY ThreadSets
  <1>5. S \cap R = {} => Cardinality(S \cap R) = 0 BY FS_EmptySet
  <1> QED BY <1>2, <1>3, <1>4, <1>5

-----------------------------------------------------------------------------
(* What the operations on a queue do.                                      *)

\* The sets of queued threads and of those from one source are within Threads.
LEMMA QueueSets ==
    ASSUME NEW q
    PROVE  /\ Queued(q) \in SUBSET Threads
           /\ \A source : From(q, source) \in SUBSET Threads
  BY DEF Queued, From

\* enqueue adds exactly the threads that were not queued; a merge keeps the
\* manual items' moves or adds the new item's, and a scheduled item stays one.
LEMMA ItemFacts ==
    ASSUME NEW source \in {"scheduled", "manual"}, NEW moves \in BOOLEAN,
           NEW item, item = Item(source, moves)
    PROVE  /\ item \in Items /\ item # NotQueued
           /\ item.source = source /\ item.moves = moves
  BY DEF Item, Items, NotQueued

LEMMA EnqueuedFacts ==
    ASSUME NEW q \in [Threads -> Items], NEW S \in SUBSET Threads,
           NEW item \in Items, item # NotQueued
    PROVE  LET r == Enqueued(q, S, item)
           IN  /\ r \in [Threads -> Items]
               /\ Queued(r) = Queued(q) \cup S
               /\ From(r, "manual") \subseteq From(q, "manual") \cup S
               /\ item.source = "scheduled" =>
                     /\ From(r, "manual") \subseteq From(q, "manual")
                     /\ \A t \in From(r, "manual") : r[t] = q[t]
               /\ \A t \in From(r, "manual") :
                     \/ t \in From(q, "manual") /\ r[t].moves = q[t].moves
                     \/ r[t].moves = item.moves
  <1> DEFINE r == Enqueued(q, S, item)
  <1>1. item \in [source : {"scheduled", "manual"}, moves : BOOLEAN]
    BY DEF Items
  <1>2. \A t \in Threads : q[t] \in Items /\ q[t].moves \in BOOLEAN
                           /\ q[t].source \in {"none", "scheduled", "manual"}
                           /\ (q[t].source = "none" <=> q[t] = NotQueued)
    <2>1. ASSUME NEW i \in Items
          PROVE  /\ i.moves \in BOOLEAN
                 /\ i.source \in {"none", "scheduled", "manual"}
                 /\ i.source = "none" <=> i = NotQueued
      <3>1. CASE i \in [source : {"scheduled", "manual"}, moves : BOOLEAN]
        <4>1. i.source # "none" /\ i # NotQueued BY <3>1 DEF NotQueued
        <4> QED BY <3>1, <4>1
      <3>2. CASE i = NotQueued BY <3>2 DEF NotQueued
      <3> QED BY <3>1, <3>2 DEF Items
    <2> QED BY <2>1
  <1> DEFINE Merged(t) == Item(IF "scheduled" \in {q[t].source, item.source}
                               THEN "scheduled" ELSE "manual",
                               q[t].moves \/ item.moves)
  <1>3. ASSUME NEW t \in Threads
        PROVE  /\ Merged(t) \in Items
               /\ Merged(t) # NotQueued
               /\ Merged(t).moves = (q[t].moves \/ item.moves)
               /\ Merged(t).source = "manual" =>
                     q[t].source # "scheduled" /\ item.source # "scheduled"
    <2>1. \A s \in {"scheduled", "manual"}, m \in BOOLEAN :
              /\ Item(s, m) \in Items /\ Item(s, m) # NotQueued
              /\ Item(s, m).source = s /\ Item(s, m).moves = m
      BY DEF Item, Items, NotQueued
    <2> DEFINE s == IF "scheduled" \in {q[t].source, item.source}
                    THEN "scheduled" ELSE "manual"
               m == q[t].moves \/ item.moves
    <2>2. s \in {"scheduled", "manual"} OBVIOUS
    <2>3. m \in BOOLEAN OBVIOUS
    <2>4. m = (q[t].moves \/ item.moves) BY <1>1
    <2>5. s = "manual" => q[t].source # "scheduled" /\ item.source # "scheduled" BY <1>1
    <2>6. Merged(t) = Item(s, m) OBVIOUS
    <2> HIDE DEF s, m, Merged
    <2> QED BY <2>1, <2>2, <2>3, <2>4, <2>5, <2>6
  <1>4. r = [t \in Threads |-> CASE t \notin S -> q[t]
                                 [] t \in S /\ q[t] = NotQueued -> item
                                 [] OTHER -> Merged(t)]
    BY DEF Enqueued
  <1>5. ASSUME NEW t \in Threads
        PROVE  \/ t \notin S /\ r[t] = q[t]
               \/ t \in S /\ q[t] = NotQueued /\ r[t] = item
               \/ t \in S /\ q[t] # NotQueued /\ r[t] = Merged(t)
    <2> HIDE DEF Merged, r
    <2> QED BY <1>4
  <1>6. r \in [Threads -> Items]
    <2> HIDE DEF Merged
    <2>1. \A t \in Threads : r[t] \in Items BY <1>1, <1>2, <1>3, <1>5
    <2>2. r = [t \in Threads |-> r[t]] BY <1>4
    <2> HIDE DEF r
    <2> QED BY <2>1, <2>2
  <1> HIDE DEF Merged, r
  <1>7. Queued(r) = Queued(q) \cup S
    BY <1>1, <1>3, <1>5 DEF Queued
  <1>8. ASSUME NEW t \in From(r, "manual")
        PROVE  /\ t \in From(q, "manual") \/ (t \in S /\ item.source = "manual")
               /\ item.source = "scheduled" => r[t] = q[t]
               /\ \/ t \in From(q, "manual") /\ r[t].moves = q[t].moves
                  \/ r[t].moves = item.moves
    <2>1. t \in Threads /\ r[t].source = "manual" BY DEF From
    <2>2. CASE t \notin S /\ r[t] = q[t] BY <2>1, <2>2 DEF From
    <2>3. CASE t \in S /\ q[t] = NotQueued /\ r[t] = item BY <1>1, <2>1, <2>3
    <2>4. CASE t \in S /\ q[t] # NotQueued /\ r[t] = Merged(t)
      <3>1. q[t].source # "scheduled" /\ item.source # "scheduled" BY <1>3, <2>1, <2>4
      <3>2. q[t].source = "manual" BY <1>2, <2>1, <2>4, <3>1
      <3>3. r[t].moves = (q[t].moves \/ item.moves) BY <1>3, <2>1, <2>4
      <3>4. r[t].moves = q[t].moves \/ r[t].moves = item.moves BY <1>2, <2>1, <3>3
      <3> HIDE DEF Merged
      <3> QED BY <2>1, <2>4, <3>1, <3>2, <3>4 DEF From
    <2> QED BY <1>5, <2>1, <2>2, <2>3, <2>4
  <1> QED BY <1>6, <1>7, <1>8 DEF r

\* dequeue and dropManualWork only take items away; the second leaves none
\* from the manual source.
LEMMA DequeuedFacts ==
    ASSUME NEW q \in [Threads -> Items], NEW S \in SUBSET Threads
    PROVE  /\ Dequeued(q, S) \in [Threads -> Items]
           /\ Queued(Dequeued(q, S)) \subseteq Queued(q)
           /\ From(Dequeued(q, S), "manual") \subseteq From(q, "manual")
           /\ \A t \in From(Dequeued(q, S), "manual") : Dequeued(q, S)[t] = q[t]
  <1>1. NotQueued \in Items /\ NotQueued.source = "none" BY DEF Items, NotQueued
  <1> QED BY <1>1 DEF Dequeued, Queued, From

LEMMA DropFacts ==
    ASSUME NEW q \in [Threads -> Items]
    PROVE  /\ DropManualWork(q) \in [Threads -> Items]
           /\ Queued(DropManualWork(q)) \subseteq Queued(q)
           /\ From(DropManualWork(q), "manual") = {}
  <1> DEFINE r == DropManualWork(q)
  <1>1. NotQueued \in Items /\ NotQueued.source = "none" BY DEF Items, NotQueued
  <1>2. ASSUME NEW t \in Threads
        PROVE  /\ r[t] \in Items /\ r[t].source # "manual"
               /\ q[t] = NotQueued => r[t] = NotQueued
    <2>1. CASE q[t].source = "manual"
      BY <1>1, <2>1 DEF DropManualWork
    <2>2. CASE q[t] = NotQueued
      <3>1. q[t].source # "manual" BY <1>1, <2>2
      <3>2. [q[t] EXCEPT !.moves = FALSE] = q[t]
        <4>1. q[t].moves = FALSE BY <2>2 DEF NotQueued
        <4>2. q[t] = [source |-> "none", moves |-> FALSE] BY <2>2 DEF NotQueued
        <4> QED BY <4>1, <4>2
      <3>3. r[t] = NotQueued BY <2>2, <3>1, <3>2 DEF DropManualWork
      <3> QED BY <1>1, <3>3
    <2>3. CASE q[t].source # "manual" /\ q[t] # NotQueued
      <3>1. q[t] \in [source : {"scheduled", "manual"}, moves : BOOLEAN]
        BY <2>3 DEF Items
      <3>2. r[t] = [q[t] EXCEPT !.moves = FALSE] BY <2>3 DEF DropManualWork
      <3>3. r[t] \in [source : {"scheduled", "manual"}, moves : BOOLEAN]
        BY <3>1, <3>2
      <3>4. r[t].source = q[t].source BY <3>1, <3>2
      <3> QED BY <2>3, <3>3, <3>4 DEF Items
    <2> QED BY <2>1, <2>2, <2>3
  <1>3. r = [t \in Threads |-> r[t]] BY DEF DropManualWork
  <1> HIDE DEF r
  <1>4. r \in [Threads -> Items] BY <1>2, <1>3
  <1>5. Queued(r) \subseteq Queued(q) /\ From(r, "manual") = {}
    BY <1>2 DEF Queued, From
  <1> QED BY <1>4, <1>5 DEF r

\* A queue with fewer items is within the caps, and one more page is when there
\* was room for it.
LEMMA CapsShrink ==
    ASSUME NEW q, NEW r, WithinCaps(q),
           Queued(r) \subseteq Queued(q), From(r, "manual") \subseteq From(q, "manual")
    PROVE  WithinCaps(r)
  <1>1. Cardinality(Queued(r)) <= Cardinality(Queued(q)) BY ThreadSets, QueueSets
  <1>2. Cardinality(From(r, "manual")) <= Cardinality(From(q, "manual"))
    BY ThreadSets, QueueSets
  <1>3. /\ Cardinality(Queued(r)) \in Nat /\ Cardinality(Queued(q)) \in Nat
        /\ Cardinality(From(r, "manual")) \in Nat
        /\ Cardinality(From(q, "manual")) \in Nat
    BY ThreadSets, QueueSets
  <1> QED BY <1>1, <1>2, <1>3, ManualJobAssumption DEF WithinCaps

LEMMA CapsAllowAPage ==
    ASSUME NEW q \in [Threads -> Items], NEW j, HasRoomForPage(j, q),
           NEW S \in SUBSET Threads, Cardinality(S) <= PageSize,
           NEW item \in Items, item # NotQueued,
           NEW r, r = Enqueued(q, S, item)
    PROVE  WithinCaps(r)
  <1>1. /\ Queued(r) = Queued(q) \cup S
        /\ From(r, "manual") \subseteq From(q, "manual") \cup S
    BY EnqueuedFacts
  <1>2. Cardinality(Queued(r)) <= Cardinality(Queued(q)) + Cardinality(S)
    BY <1>1, SetsAddUp, QueueSets
  <1>3. Cardinality(From(q, "manual") \cup S)
            <= Cardinality(From(q, "manual")) + Cardinality(S)
    BY SetsAddUp, QueueSets
  <1>4. From(q, "manual") \cup S \in SUBSET Threads BY QueueSets
  <1>5. /\ Cardinality(From(r, "manual")) <= Cardinality(From(q, "manual") \cup S)
        /\ Cardinality(From(r, "manual")) \in Nat
        /\ Cardinality(From(q, "manual") \cup S) \in Nat
    BY <1>1, <1>4, ThreadSets
  <1>6. /\ Cardinality(S) \in Nat /\ Cardinality(Queued(q)) \in Nat
        /\ Cardinality(Queued(r)) \in Nat
        /\ Cardinality(From(q, "manual")) \in Nat
    BY ThreadSets, QueueSets
  <1>7. /\ Cardinality(Queued(q)) <= QueueMaxItems - PageSize
        /\ Cardinality(From(q, "manual")) <= QueueMaxManualItems - PageSize
    BY DEF HasRoomForPage
  <1> QED BY <1>2, <1>3, <1>5, <1>6, <1>7, ManualJobAssumption DEF WithinCaps

-----------------------------------------------------------------------------
(* Steps that keep the first part of the invariant, by what they leave the *)
(* execution with.                                                         *)

\* What an execution starts with.
LEMMA IdleFacts ==
    /\ Idle \in Memories /\ WithinCaps(Idle.queue)
    /\ From(Idle.queue, "manual") = {}
    /\ Idle.job = NoJob /\ Idle.passed = 0 /\ Idle.token = NoToken /\ ~Idle.moved
  <1>1. NotQueued \in Items BY DEF Items
  <1>2. Idle.queue = [t \in Threads |-> NotQueued] BY DEF Idle
  <1>3. Queued(Idle.queue) = {} /\ From(Idle.queue, "manual") = {}
    BY <1>2 DEF Queued, From, NotQueued
  <1>4. WithinCaps(Idle.queue)
    BY <1>3, FS_EmptySet, ManualJobAssumption DEF WithinCaps
  <1>5. <<>> \in Seq(Keys) OBVIOUS
  <1>6. Idle \in Memories
    BY <1>1, <1>5, ManualJobAssumption DEF Idle, Memories, NoToken
  <1> QED BY <1>3, <1>4, <1>6 DEF Idle

\* The types of a memory's fields.
LEMMA MemoryFields ==
    ASSUME NEW m \in Memories
    PROVE  /\ m.queue \in [Threads -> Items] /\ m.job \in Jobs \cup {NoJob}
           /\ m.taken \in SUBSET Threads /\ m.fresh \in BOOLEAN
           /\ m.passed \in Nat /\ m.token \in 0..MaxDate /\ m.moved \in BOOLEAN
           /\ m.todo \in Seq(Keys) /\ m.after \in {"idle", "load", "refill"}
  BY DEF Memories

LEMMA JobFields ==
    ASSUME NEW j \in Jobs
    PROVE  /\ j.moves \in BOOLEAN /\ j.seen \in Nat /\ j.token \in 0..MaxDate
           /\ j.done \in BOOLEAN /\ (j.done => j.token = NoToken)
           /\ j # NoJob
  BY DEF Jobs, NoJob

\* The execution is over, or has left the lock for the next one to take.
LEMMA RestingStep ==
    ASSUME Consistent, TypeOK', UNCHANGED <<queue, job, strays>>,
           pc' \in {"idle", "load"}, run' = Idle
    PROVE  Consistent'
  BY IdleFacts
  DEF Consistent, ManualWorkHasAJob, MovesFollowTheJob, MemoryIsCurrent,
      WritesArePlanned

\* The execution works on, with what is stored.
LEMMA WorkingStep ==
    ASSUME Consistent, TypeOK', UNCHANGED <<queue, job, strays>>,
           pc' \in {"refill", "walk", "chunk"},
           run'.queue = queue, run'.job = job, job # NoJob,
           pc' # "walk" => run'.passed = 0 /\ run'.token = NoToken /\ ~run'.moved
    PROVE  Consistent'
  BY DEF Consistent, ManualWorkHasAJob, MovesFollowTheJob, MemoryIsCurrent,
         WritesArePlanned

\* The execution begins to save what it has done.
LEMMA SavingStep ==
    ASSUME Consistent, TypeOK', UNCHANGED <<queue, job, strays>>,
           pc' = "writing",
           (SavesWork \/ DropsJob \/ StartsJob)',
           run'.after = "refill" =>
              run'.passed = 0 /\ run'.token = NoToken /\ ~run'.moved
    PROVE  Consistent'
  BY DEF Consistent, ManualWorkHasAJob, MovesFollowTheJob, MemoryIsCurrent,
         WritesArePlanned

-----------------------------------------------------------------------------
(* Each action keeps the first part of the invariant.                      *)

LEMMA InitConsistent ==
    ASSUME Init
    PROVE  Consistent
  <1>1. From(queue, "manual") = {} /\ queue = Idle.queue
    BY IdleFacts DEF Init, Idle
  <1>2. TypeOK
    <2>1. queue \in [Threads -> Items] /\ WithinCaps(queue)
      BY <1>1, IdleFacts, MemoryFields
    <2>2. inputs \in [Inputs -> BOOLEAN] BY DEF Init
    <2>3. date \in [Threads -> 0..MaxDate] BY ManualJobAssumption DEF Init
    <2>4. pc = "idle" /\ run = Idle /\ job = NoJob BY DEF Init
    <2>5. /\ owed = {} /\ ~left /\ ~slipped /\ ~wanted /\ ~strays
          /\ left \in BOOLEAN /\ slipped \in BOOLEAN /\ wanted \in BOOLEAN
          /\ strays \in BOOLEAN
      BY DEF Init
    <2>6. faults \in 0..MaxFaults BY ManualJobAssumption DEF Init
    <2> QED BY <2>1, <2>2, <2>3, <2>4, <2>5, <2>6, IdleFacts DEF TypeOK
  <1> QED BY <1>1, <1>2, IdleFacts
          DEF Init, Consistent, ManualWorkHasAJob, MovesFollowTheJob,
              MemoryIsCurrent, WritesArePlanned

LEMMA MailArrivesStep ==
    ASSUME Consistent, NEW t \in Threads, MailArrives(t)
    PROVE  Consistent'
  <1>1. TypeOK BY DEF Consistent
  <1>2. PICK now \in 1..MaxDate : date' = [date EXCEPT ![t] = now]
    BY DEF MailArrives
  <1>3. date' \in [Threads -> 0..MaxDate] BY <1>1, <1>2 DEF TypeOK
  <1> DEFINE moved == run.moved \/ date[t] \in 1..(run.token - 1)
  <1>4. run' = [run EXCEPT !.moved = moved] /\ moved \in BOOLEAN
    BY <1>1, MemoryFields DEF MailArrives, TypeOK
  <1>5. run.token = NoToken /\ ~run.moved => ~moved
    <2>1. date[t] \in Nat BY <1>1 DEF TypeOK
    <2> QED BY <2>1 DEF NoToken
  <1> HIDE DEF moved
  <1>6. /\ run' \in Memories /\ run'.queue = run.queue /\ run'.job = run.job
        /\ run'.passed = run.passed /\ run'.token = run.token /\ run'.moved = moved
    BY <1>1, <1>4 DEF TypeOK, Memories
  <1>7. UNCHANGED <<inputs, queue, job, pc, left, slipped, wanted, strays, faults>>
    BY DEF MailArrives, observed, Faultless
  <1>8. TypeOK'
    BY <1>1, <1>3, <1>6, <1>7 DEF TypeOK, MailArrives
  <1>9. CASE pc = "idle"
    <2>1. run'.job = NoJob /\ run'.passed = 0 /\ run'.token = NoToken /\ ~run'.moved
      BY <1>5, <1>6, <1>9 DEF Consistent, MemoryIsCurrent
    <2> QED BY <1>7, <1>8, <1>9, <2>1
            DEF Consistent, ManualWorkHasAJob, MovesFollowTheJob, MemoryIsCurrent,
                WritesArePlanned
  <1>10. CASE pc \in {"refill", "walk"}
    <2>1. run'.queue = queue /\ run'.job = job /\ job # NoJob
      BY <1>6, <1>10 DEF Consistent, MemoryIsCurrent
    <2>2. pc # "walk" => run'.passed = 0 /\ run'.token = NoToken /\ ~run'.moved
      BY <1>5, <1>6, <1>10 DEF Consistent, MemoryIsCurrent
    <2> QED BY <1>7, <1>8, <1>10, <2>1, <2>2, WorkingStep
  <1> QED BY <1>9, <1>10 DEF MailArrives

LEMMA MailboxAndUserSteps ==
    ASSUME Consistent,
           \/ \E t \in Threads : ThreadLeavesSearch(t)
           \/ \E moves, replace \in BOOLEAN : SetInputs(moves, replace)
    PROVE  Consistent'
  <1>1. TypeOK BY DEF Consistent
  <1>2. UNCHANGED <<queue, job, pc, run, strays, faults>>
    BY DEF ThreadLeavesSearch, SetInputs, observed, Faultless
  <1>3. TypeOK'
    <2>1. CASE \E t \in Threads : ThreadLeavesSearch(t)
      <3>1. PICK t \in Threads : ThreadLeavesSearch(t) BY <2>1
      <3>2. date' \in [Threads -> 0..MaxDate]
        BY <1>1, <3>1, ManualJobAssumption DEF ThreadLeavesSearch, TypeOK
      <3> QED BY <1>1, <1>2, <3>1, <3>2 DEF ThreadLeavesSearch, TypeOK, observed
    <2>2. CASE \E moves, replace \in BOOLEAN : SetInputs(moves, replace)
      <3>1. PICK moves \in BOOLEAN, replace \in BOOLEAN : SetInputs(moves, replace)
        BY <2>2
      <3>2. inputs' \in [Inputs -> BOOLEAN]
        BY <1>1, <3>1 DEF SetInputs, TypeOK, Inputs
      <3>3. wanted' \in BOOLEAN
        BY <1>1, <3>1 DEF SetInputs, TypeOK, Inputs
      <3> QED BY <1>1, <1>2, <3>1, <3>2, <3>3 DEF SetInputs, TypeOK, world
    <2> QED BY <2>1, <2>2
  <1> QED BY <1>2, <1>3
          DEF Consistent, ManualWorkHasAJob, MovesFollowTheJob, MemoryIsCurrent,
              WritesArePlanned, SavesWork, DropsJob, StartsJob, ForgetsInputs, Follows

LEMMA DeletedByHandStep ==
    ASSUME Consistent, DeletedByHand
    PROVE  Consistent'
  <1>1. TypeOK BY DEF Consistent
  <1>2. TypeOK'
    <2>1. faults' \in 0..MaxFaults
      BY <1>1, ManualJobAssumption DEF DeletedByHand, Faulty, TypeOK
    <2>2. strays' \in BOOLEAN BY DEF DeletedByHand
    <2> QED BY <1>1, <2>1, <2>2 DEF DeletedByHand, TypeOK, world
  <1>3. /\ pc' = "idle" /\ pc = "idle" /\ run' = run /\ queue' = queue /\ job' = NoJob
        /\ strays' = (From(queue, "manual") # {})
    BY DEF DeletedByHand
  <1> QED BY <1>2, <1>3
          DEF Consistent, ManualWorkHasAJob, MovesFollowTheJob, MemoryIsCurrent,
              WritesArePlanned

LEMMA ScheduledStep ==
    ASSUME Consistent, NEW t \in Threads, Scheduled(t)
    PROVE  Consistent'
  <1>1. TypeOK BY DEF Consistent
  <1>2. /\ queue' \in [Threads -> Items]
        /\ From(queue', "manual") \subseteq From(queue, "manual")
        /\ \A u \in From(queue', "manual") : queue'[u] = queue[u]
    <2>1. CASE queue' = Dequeued(queue, {t})
      BY <1>1, <2>1, DequeuedFacts DEF TypeOK
    <2>2. CASE queue' = Enqueued(queue, {t}, Item("scheduled", FALSE))
      <3> DEFINE item == Item("scheduled", FALSE)
      <3>1. item \in Items /\ item # NotQueued /\ item.source = "scheduled"
        BY DEF Item, Items, NotQueued
      <3> HIDE DEF item
      <3>2. PICK S \in SUBSET Threads : S = {t} OBVIOUS
      <3>3. queue' = Enqueued(queue, S, item) BY <2>2, <3>2 DEF item
      <3>4. queue \in [Threads -> Items] BY <1>1 DEF TypeOK
      <3> HIDE <2>2
      <3> QED BY <3>1, <3>3, <3>4, EnqueuedFacts
    <2> QED BY <2>1, <2>2 DEF Scheduled
  <1>3. WithinCaps(queue')
    <2>1. /\ Cardinality(From(queue', "manual")) <= Cardinality(From(queue, "manual"))
          /\ Cardinality(From(queue', "manual")) \in Nat
          /\ Cardinality(From(queue, "manual")) \in Nat
      BY <1>2, ThreadSets, QueueSets
    <2>2. Cardinality(Queued(queue')) <= QueueMaxItems BY DEF Scheduled
    <2>3. Cardinality(From(queue, "manual")) <= QueueMaxManualItems
      BY <1>1 DEF TypeOK, WithinCaps
    <2> QED BY <2>1, <2>2, <2>3, ManualJobAssumption DEF WithinCaps
  <1>4. UNCHANGED <<inputs, job, pc, run, date, left, slipped, wanted, strays, faults>>
    BY DEF Scheduled, observed, Faultless
  <1>5. TypeOK' BY <1>1, <1>2, <1>3, <1>4 DEF TypeOK, Scheduled
  <1>6. ManualWorkHasAJob' BY <1>2, <1>4 DEF Consistent, ManualWorkHasAJob
  <1>7. MovesFollowTheJob' BY <1>2, <1>4 DEF Consistent, MovesFollowTheJob
  <1>8. pc = "idle" BY DEF Scheduled
  <1> QED BY <1>4, <1>5, <1>6, <1>7, <1>8
          DEF Consistent, MemoryIsCurrent, WritesArePlanned

\* What a page of the search holds: the newest of what remains behind a token,
\* and as the next token the place of the last thread on it.
LEMMA PageFacts ==
    ASSUME date \in [Threads -> 0..MaxDate],
           NEW token \in 0..MaxDate, NEW page \in Pages(token)
    PROVE  /\ page.ids \in SUBSET Remaining(token) /\ page.ids \in SUBSET Threads
           /\ Cardinality(page.ids) \in Nat /\ Cardinality(page.ids) <= PageSize
           /\ page.next \in 0..MaxDate
           /\ page.next = NoToken => page.ids = Remaining(token)
           /\ page.next # NoToken =>
                 page.ids = {t \in Remaining(token) : date[t] >= page.next}
           /\ \A t \in page.ids : \A u \in Remaining(token) :
                 date[u] > date[t] => u \in page.ids
           /\ page.next # NoToken /\ token # NoToken => page.next < token
  <1> DEFINE rest == Remaining(token)
             DownTo(last) == {t \in rest : date[t] >= date[last]}
             PageOf(last) == [ids |-> DownTo(last),
                              next |-> IF DownTo(last) = rest THEN NoToken ELSE date[last]]
  <1>1. rest \in SUBSET Threads BY DEF Remaining
  <1>2. \A t \in rest : /\ date[t] \in 1..MaxDate
                        /\ token # NoToken => date[t] < token
    BY DEF Remaining
  <1>3. CASE rest = {} /\ page = [ids |-> {}, next |-> NoToken]
    <2>1. page.ids = {} /\ page.next = NoToken BY <1>3
    <2>2. Cardinality({}) = 0 BY FS_EmptySet
    <2> QED BY <1>3, <2>1, <2>2, ManualJobAssumption DEF NoToken
  <1>4. ASSUME NEW last \in rest, Cardinality(DownTo(last)) <= PageSize,
               page = PageOf(last)
        PROVE  /\ page.ids = DownTo(last)
               /\ page.next = NoToken => page.ids = rest
               /\ page.next # NoToken => page.next = date[last]
               /\ page.next \in 0..MaxDate
               /\ Cardinality(page.ids) <= PageSize
    <2>1. page.ids = DownTo(last)
          /\ page.next = IF DownTo(last) = rest THEN NoToken ELSE date[last]
      BY <1>4
    <2>2. date[last] # NoToken BY <1>2 DEF NoToken
    <2> HIDE DEF DownTo
    <2> QED BY <1>2, <1>4, <2>1, <2>2, ManualJobAssumption DEF NoToken
  <1>5. CASE \E last \in rest : Cardinality(DownTo(last)) <= PageSize
                                /\ page = PageOf(last)
    <2>1. PICK last \in rest : /\ Cardinality(DownTo(last)) <= PageSize
                               /\ page = PageOf(last)
      BY <1>5
    <2>2. /\ page.ids = DownTo(last)
          /\ page.next = NoToken => page.ids = rest
          /\ page.next # NoToken => page.next = date[last]
          /\ page.next \in 0..MaxDate
          /\ Cardinality(page.ids) <= PageSize
      BY <1>4, <2>1
    <2>3. page.ids \in SUBSET rest /\ page.ids \in SUBSET Threads BY <1>1, <2>2
    <2>4. Cardinality(page.ids) \in Nat BY <2>3, ThreadSets
    <2>5. \A t \in page.ids : \A u \in rest : date[u] > date[t] => u \in page.ids
      BY <1>1, <1>2, <2>2
    <2>6. page.next # NoToken => page.ids = {t \in rest : date[t] >= page.next}
      BY <2>2
    <2>7. page.next # NoToken /\ token # NoToken => page.next < token
      BY <1>2, <2>2
    <2> QED BY <2>2, <2>3, <2>4, <2>5, <2>6, <2>7
  <1>6. \/ rest = {} /\ page = [ids |-> {}, next |-> NoToken]
        \/ \E last \in rest : Cardinality(DownTo(last)) <= PageSize
                              /\ page = PageOf(last)
    BY DEF Pages
  <1> QED BY <1>3, <1>5, <1>6

\* What a step does to the cursor of a job.
LEMMA AdvancedFacts ==
    ASSUME NEW j \in Jobs, NEW ids \in Nat, NEW next \in 0..MaxDate,
           NEW k, k = Advanced(j, ids, next)
    PROVE  /\ k \in Jobs /\ k.moves = j.moves /\ k.seen = j.seen + ids
           /\ k.token = next /\ (k.done <=> next = NoToken)
  <1>1. j.seen + ids \in Nat BY JobFields
  <1> DEFINE done == next = NoToken
  <1>2. done \in BOOLEAN OBVIOUS
  <1>3. k = [j EXCEPT !.seen = j.seen + ids, !.token = next, !.done = done]
    BY DEF Advanced
  <1>4. done => next = NoToken OBVIOUS
  <1> HIDE DEF done
  <1>5. k.seen = j.seen + ids /\ k.token = next /\ k.done = done /\ k.moves = j.moves
    BY <1>3 DEF Jobs
  <1>6. k \in Jobs BY <1>1, <1>2, <1>3, <1>4 DEF Jobs
  <1> QED BY <1>5, <1>6 DEF done

LEMMA RestoredFacts ==
    ASSUME NEW j \in Jobs, NEW passed \in Nat, NEW next \in 0..MaxDate,
           NEW done \in BOOLEAN, done => next = NoToken
    PROVE  LET k == Restored(j, passed, next, done)
           IN  /\ k \in Jobs /\ k.moves = j.moves /\ k.seen = passed
               /\ k.token = next /\ k.done = done
  BY DEF Restored, Jobs

LEMMA DroppedFacts ==
    ASSUME NEW j \in Jobs, NEW k, k = DropPageToken(j)
    PROVE  /\ k \in Jobs /\ k.moves = j.moves /\ k.seen = j.seen
           /\ k.token = NoToken /\ k.done = j.done
  BY ManualJobAssumption DEF DropPageToken, Jobs, NoToken

LEMMA NewJobFacts ==
    ASSUME NEW moves \in BOOLEAN
    PROVE  /\ NewJob(moves) \in Jobs /\ NewJob(moves).seen = 0
           /\ NewJob(moves).token = NoToken /\ ~NewJob(moves).done
           /\ NewJob(moves) # NoJob
  BY ManualJobAssumption DEF NewJob, Jobs, NoToken, NoJob

\* The type invariant, of a step that changes only the execution.
LEMMA ExecutionTypes ==
    ASSUME TypeOK, UNCHANGED <<date, inputs, queue, job, owed, left, wanted, strays>>,
           slipped' \in BOOLEAN, Faulty \/ Faultless,
           pc' \in {"idle", "load", "refill", "walk", "chunk", "writing"},
           run' \in Memories, WithinCaps(run'.queue)
    PROVE  TypeOK'
  <1>1. faults' \in 0..MaxFaults
    BY ManualJobAssumption DEF TypeOK, Faulty, Faultless
  <1> QED BY <1>1 DEF TypeOK, WithinCaps, Queued, From

LEMMA StartManualRunStep ==
    ASSUME Consistent, StartManualRun
    PROVE  Consistent'
  <1>1. TypeOK BY DEF Consistent
  <1> DEFINE dropped == DropManualWork(queue)
             fresh == NewJob(inputs.moves)
             first == CASE job # NoJob -> CancelWrites
                        [] job = NoJob /\ dropped # queue -> <<"queue">>
                        [] OTHER -> <<>>
             todo == first \o StartWrites
             memory == [Idle EXCEPT !.queue = dropped, !.job = fresh]
  <1>2. /\ UNCHANGED <<date, inputs, queue, job, owed, left, slipped, wanted, strays,
                       faults>>
        /\ pc' = "writing"
        /\ run' = [memory EXCEPT !.todo = todo, !.after = "load"]
    BY DEF StartManualRun, Holds, Writes, Goes, world, observed, Faultless
  <1>3. /\ dropped \in [Threads -> Items] /\ WithinCaps(dropped)
        /\ From(dropped, "manual") = {}
    BY <1>1, DropFacts, CapsShrink DEF TypeOK
  <1>4. inputs.moves \in BOOLEAN BY <1>1 DEF TypeOK, Inputs
  <1>5. fresh \in Jobs BY <1>4, NewJobFacts
  <1>6. /\ todo \in {CancelWrites \o StartWrites, <<"queue">> \o StartWrites, StartWrites}
        /\ todo = StartWrites => job = NoJob /\ dropped = queue
        /\ Head(todo) # "queue" => todo = StartWrites
    <2>1. CASE job # NoJob
      <3>1. todo = CancelWrites \o StartWrites BY <2>1
      <3>2. Head(todo) = "queue"
        <4>1. \A x : x = <<"queue", "delete", "new", "query", "moves", "replace">>
                        => Head(x) = "queue"
          OBVIOUS
        <4> QED BY <3>1, <4>1, LongPlans
      <3>3. todo # StartWrites
        <4>1. Head(StartWrites) = "new" BY DEF StartWrites
        <4> QED BY <3>2, <4>1
      <3> QED BY <3>1, <3>2, <3>3
    <2>2. CASE job = NoJob /\ dropped # queue
      <3>1. todo = <<"queue">> \o StartWrites BY <2>2
      <3>2. Head(todo) = "queue"
        <4>1. \A x : x = <<"queue", "new", "query", "moves", "replace">>
                        => Head(x) = "queue"
          OBVIOUS
        <4> QED BY <3>1, <4>1, LongPlans
      <3>3. todo # StartWrites
        <4>1. Head(StartWrites) = "new" BY DEF StartWrites
        <4> QED BY <3>2, <4>1
      <3> QED BY <3>1, <3>2, <3>3
    <2>3. CASE job = NoJob /\ dropped = queue
      <3>1. first = <<>> BY <2>3
      <3>2. <<>> \o StartWrites = StartWrites BY DEF StartWrites
      <3> QED BY <2>3, <3>1, <3>2
    <2> QED BY <2>1, <2>2, <2>3
  <1>7. todo \in Seq(Keys) BY <1>6, PlansOfStarts
  <1> HIDE DEF dropped, fresh, first, todo
  <1>8. /\ run' \in Memories /\ run'.queue = dropped /\ run'.job = fresh
        /\ run'.todo = todo /\ run'.after = "load"
    <2>1. memory \in Memories /\ memory.queue = dropped /\ memory.job = fresh
      BY <1>3, <1>5, IdleFacts DEF Memories
    <2> HIDE DEF memory
    <2> QED BY <1>2, <1>7, <2>1 DEF Memories
  <1>9. TypeOK'
    <2>1. Faulty \/ Faultless BY <1>2 DEF Faultless
    <2>2. slipped' \in BOOLEAN BY <1>1, <1>2 DEF TypeOK
    <2>3. WithinCaps(run'.queue) BY <1>3, <1>8
    <2> QED BY <1>1, <1>2, <1>8, <2>1, <2>2, <2>3, ExecutionTypes
  <1>10. StartsJob'
    <2>1. \E moves \in BOOLEAN : run'.job = NewJob(moves) BY <1>4, <1>8 DEF fresh
    <2>3. Head(run'.todo) # "queue" => From(queue', "manual") = {}
      BY <1>2, <1>3, <1>6, <1>8
    <2> QED BY <1>3, <1>6, <1>8, <2>1, <2>3 DEF StartsJob, From
  <1> QED BY <1>2, <1>8, <1>9, <1>10, SavingStep

LEMMA CancelManualRunStep ==
    ASSUME Consistent, CancelManualRun
    PROVE  Consistent'
  <1>1. TypeOK BY DEF Consistent
  <1> DEFINE dropped == DropManualWork(queue)
             todo == IF job = NoJob THEN <<"queue">> ELSE CancelWrites
             memory == [Idle EXCEPT !.queue = dropped]
  <1>2. /\ UNCHANGED <<date, inputs, queue, job, owed, left, slipped, wanted, strays,
                       faults>>
        /\ pc' = "writing"
        /\ run' = [memory EXCEPT !.todo = todo, !.after = "idle"]
    BY DEF CancelManualRun, Holds, Writes, Goes, world, observed, Faultless
  <1>3. /\ dropped \in [Threads -> Items] /\ WithinCaps(dropped)
        /\ From(dropped, "manual") = {}
    BY <1>1, DropFacts, CapsShrink DEF TypeOK
  <1>4. /\ todo \in {CancelWrites, <<"queue">>, <<"delete">>}
        /\ todo # <<"delete">>
    BY PlansOfDrops DEF CancelWrites
  <1>5. todo \in Seq(Keys) BY <1>4, PlansOfDrops
  <1> HIDE DEF dropped, todo
  <1>6. /\ run' \in Memories /\ run'.queue = dropped
        /\ run'.todo = todo /\ run'.after = "idle"
    <2>1. memory \in Memories /\ memory.queue = dropped
      BY <1>3, IdleFacts DEF Memories
    <2> HIDE DEF memory
    <2> QED BY <1>2, <1>5, <2>1 DEF Memories
  <1>7. TypeOK'
    <2>1. Faulty \/ Faultless BY <1>2 DEF Faultless
    <2>2. slipped' \in BOOLEAN BY <1>1, <1>2 DEF TypeOK
    <2>3. WithinCaps(run'.queue) BY <1>3, <1>6
    <2> QED BY <1>1, <1>2, <1>6, <2>1, <2>2, <2>3, ExecutionTypes
  <1>8. DropsJob'
    BY <1>3, <1>4, <1>6 DEF DropsJob, From
  <1> QED BY <1>2, <1>6, <1>7, <1>8, SavingStep

LEMMA BeginWorkStep ==
    ASSUME Consistent, NEW taken \in SUBSET Threads, BeginWork(taken)
    PROVE  Consistent'
  <1>1. TypeOK BY DEF Consistent
  <1>2. /\ UNCHANGED <<date, inputs, queue, job, owed, left, slipped, wanted, strays,
                       faults>>
        /\ pc' = "refill" /\ job # NoJob
        /\ run' = [Idle EXCEPT !.queue = queue, !.job = job, !.taken = taken]
    BY DEF BeginWork, Goes, world, observed, Faultless
  <1>3. /\ run' \in Memories /\ run'.queue = queue /\ run'.job = job
        /\ run'.passed = 0 /\ run'.token = NoToken /\ ~run'.moved
    BY <1>1, <1>2, IdleFacts DEF Memories, TypeOK
  <1>4. TypeOK'
    <2>1. Faulty \/ Faultless BY <1>2 DEF Faultless
    <2>2. slipped' \in BOOLEAN BY <1>1, <1>2 DEF TypeOK
    <2>3. WithinCaps(run'.queue) BY <1>1, <1>3 DEF TypeOK
    <2> QED BY <1>1, <1>2, <1>3, <2>1, <2>2, <2>3, ExecutionTypes
  <1> QED BY <1>2, <1>3, <1>4, WorkingStep

\* LeaveJob and Crash: the execution is gone.
LEMMA EndedSteps ==
    ASSUME Consistent, LeaveJob \/ Crash
    PROVE  Consistent'
  <1>1. TypeOK BY DEF Consistent
  <1>2. /\ UNCHANGED <<date, inputs, queue, job, owed, left, slipped, wanted, strays>>
        /\ pc' = "idle" /\ run' = Idle /\ (Faulty \/ Faultless)
    BY DEF LeaveJob, Crash, Holds, Ends, Goes, world, observed
  <1>3. TypeOK'
    <2>1. slipped' \in BOOLEAN BY <1>1, <1>2 DEF TypeOK
    <2> QED BY <1>1, <1>2, <2>1, IdleFacts, ExecutionTypes
  <1> QED BY <1>2, <1>3, RestingStep

LEMMA EndRefillStep ==
    ASSUME Consistent, EndRefill
    PROVE  Consistent'
  <1>1. TypeOK BY DEF Consistent
  <1>2. /\ UNCHANGED <<date, inputs, queue, job, owed, left, slipped, wanted, strays,
                       faults>>
        /\ pc' = "chunk" /\ pc \in {"refill", "walk"}
        /\ run' = [run EXCEPT !.fresh = FALSE, !.passed = 0, !.token = NoToken,
                              !.moved = FALSE]
    BY DEF EndRefill, Goes, world, observed, Faultless
  <1>3. /\ run' \in Memories /\ run'.queue = run.queue /\ run'.job = run.job
        /\ run'.passed = 0 /\ run'.token = NoToken /\ ~run'.moved
    <2>1. run \in Memories BY <1>1 DEF TypeOK
    <2>2. NoToken \in 0..MaxDate BY ManualJobAssumption DEF NoToken
    <2> QED BY <1>2, <2>1, <2>2 DEF Memories
  <1>4. run.queue = queue /\ run.job = job /\ job # NoJob
    BY <1>2 DEF Consistent, MemoryIsCurrent
  <1>5. TypeOK'
    <2>1. Faulty \/ Faultless BY <1>2 DEF Faultless
    <2>2. slipped' \in BOOLEAN BY <1>1, <1>2 DEF TypeOK
    <2>3. WithinCaps(run'.queue) BY <1>1, <1>3 DEF TypeOK
    <2> QED BY <1>1, <1>2, <1>3, <2>1, <2>2, <2>3, ExecutionTypes
  <1> QED BY <1>2, <1>3, <1>4, <1>5, WorkingStep

\* In the middle of the work: the execution begins to save a queue and a job.
LEMMA WorkSaved ==
    ASSUME Consistent, pc \in {"refill", "walk", "chunk"},
           UNCHANGED <<date, inputs, queue, job, owed, left, wanted, strays>>,
           slipped' \in BOOLEAN, Faulty \/ Faultless,
           NEW memory \in Memories, WithinCaps(memory.queue),
           memory.job # NoJob, memory.job.moves = job.moves,
           Follows(memory.queue, job),
           NEW plan \in {PageWrites, <<"job">>}, NEW after \in {"idle", "refill"},
           plan = <<"job">> => memory.queue = queue,
           after = "refill" =>
              memory.passed = 0 /\ memory.token = NoToken /\ ~memory.moved,
           Writes(memory, plan, after)
    PROVE  /\ Consistent'
           /\ pc' = "writing" /\ run'.queue = memory.queue /\ run'.job = memory.job
           /\ run'.todo = plan
  <1>1. pc' = "writing" /\ run' = [memory EXCEPT !.todo = plan, !.after = after]
    BY DEF Writes, Goes
  <1>2. plan \in Seq(Keys) BY PlansOfWork
  <1>3. /\ run' \in Memories /\ run'.queue = memory.queue /\ run'.job = memory.job
        /\ run'.passed = memory.passed /\ run'.token = memory.token
        /\ run'.moved = memory.moved /\ run'.todo = plan /\ run'.after = after
    BY <1>1, <1>2 DEF Memories
  <1>4. TypeOK'
    BY <1>1, <1>3, ExecutionTypes DEF Consistent
  <1>5. SavesWork'
    <2>1. job' = job /\ queue' = queue /\ job # NoJob
      BY DEF Consistent, MemoryIsCurrent
    <2>2. Follows(run.queue, job)' BY <1>3, <2>1 DEF Follows, From
    <2> QED BY <1>3, <2>1, <2>2 DEF SavesWork
  <1> QED BY <1>1, <1>3, <1>4, <1>5, SavingStep

LEMMA WorkingFacts ==
    ASSUME Consistent, pc \in {"refill", "walk", "chunk"}
    PROVE  /\ TypeOK /\ run \in Memories /\ WithinCaps(run.queue)
           /\ run.queue = queue /\ run.job = job /\ run.job \in Jobs /\ job # NoJob
           /\ Follows(run.queue, job)
           /\ pc # "walk" => run.passed = 0 /\ run.token = NoToken /\ ~run.moved
  <1>1. TypeOK /\ run \in Memories /\ WithinCaps(run.queue) BY DEF Consistent, TypeOK
  <1>2. run.queue = queue /\ run.job = job /\ job # NoJob
    BY DEF Consistent, MemoryIsCurrent
  <1>3. run.job \in Jobs BY <1>1, <1>2, MemoryFields
  <1>4. Follows(run.queue, job)
    BY <1>2 DEF Consistent, MovesFollowTheJob, Follows
  <1> QED BY <1>1, <1>2, <1>3, <1>4 DEF Consistent, MemoryIsCurrent

LEMMA ReadPageStep ==
    ASSUME Consistent, ReadPage
    PROVE  Consistent'
  <1>1. pc = "refill" BY DEF ReadPage, Holds
  <1>2. /\ TypeOK /\ run \in Memories /\ run.queue = queue /\ run.job = job
        /\ run.job \in Jobs /\ job # NoJob /\ Follows(run.queue, job)
        /\ run.passed = 0 /\ run.token = NoToken /\ ~run.moved
    BY <1>1, WorkingFacts
  <1> DEFINE moves == run.job.moves
  <1>3. PICK page \in Pages(run.job.token) :
            Writes([run EXCEPT
                     !.queue = Enqueued(@, page.ids, Item("manual", moves)),
                     !.job = Advanced(@, Cardinality(page.ids), page.next),
                     !.fresh = TRUE],
                   PageWrites, "refill")
    BY DEF ReadPage
  <1>4. /\ page.ids \in SUBSET Threads /\ Cardinality(page.ids) \in Nat
        /\ Cardinality(page.ids) <= PageSize /\ page.next \in 0..MaxDate
    BY <1>2, JobFields, PageFacts DEF TypeOK
  <1> DEFINE item == Item("manual", moves)
             q == Enqueued(run.queue, page.ids, item)
             j == Advanced(run.job, Cardinality(page.ids), page.next)
             memory == [run EXCEPT !.queue = q, !.job = j, !.fresh = TRUE]
  <1>5. Writes(memory, PageWrites, "refill") BY <1>3
  <1>6. item \in Items /\ item # NotQueued /\ item.moves = moves
    <2>1. moves \in BOOLEAN BY <1>2, JobFields
    <2> QED BY <2>1, ItemFacts
  <1>7. run.queue \in [Threads -> Items] BY <1>2, MemoryFields
  <1>8. /\ q \in [Threads -> Items]
        /\ \A t \in From(q, "manual") : \/ t \in From(run.queue, "manual")
                                           /\ q[t].moves = run.queue[t].moves
                                        \/ q[t].moves = moves
    <2> HIDE DEF item
    <2> QED BY <1>4, <1>6, <1>7, EnqueuedFacts
  <1>9. WithinCaps(q)
    <2>1. HasRoomForPage(run.job, run.queue) BY DEF ReadPage
    <2> HIDE DEF item
    <2> QED BY <1>4, <1>6, <1>7, <2>1, CapsAllowAPage
  <1>10. j \in Jobs /\ j.moves = job.moves /\ j # NoJob
    <2>1. j \in Jobs /\ j.moves = run.job.moves BY <1>2, <1>4, AdvancedFacts
    <2> QED BY <1>2, <2>1, JobFields
  <1>11. Follows(q, job)
    BY <1>2, <1>8 DEF Follows
  <1> HIDE DEF q, j
  <1>12. /\ memory \in Memories /\ memory.queue = q /\ memory.job = j
         /\ memory.passed = 0 /\ memory.token = NoToken /\ ~memory.moved
    BY <1>2, <1>8, <1>10 DEF Memories
  <1>13. /\ UNCHANGED <<date, inputs, queue, job, owed, left, slipped, wanted, strays>>
         /\ slipped' \in BOOLEAN /\ Faultless
    BY <1>2 DEF ReadPage, Holds, world, observed, TypeOK
  <1> HIDE DEF memory
  <1>14. PageWrites \in {PageWrites, <<"job">>} /\ "refill" \in {"idle", "refill"}
         /\ PageWrites # <<"job">>
    BY DEF PageWrites
  <1> QED BY <1>1, <1>5, <1>9, <1>10, <1>11, <1>12, <1>13, <1>14, WorkSaved

LEMMA RejectTokenStep ==
    ASSUME Consistent, RejectToken
    PROVE  Consistent'
  <1>1. pc = "refill" BY DEF RejectToken, Holds
  <1>2. /\ TypeOK /\ run \in Memories /\ WithinCaps(run.queue)
        /\ run.queue = queue /\ run.job = job
        /\ run.job \in Jobs /\ job # NoJob /\ Follows(run.queue, job)
        /\ run.passed = 0 /\ run.token = NoToken /\ ~run.moved
    BY <1>1, WorkingFacts
  <1> DEFINE j == DropPageToken(run.job)
             memory == [run EXCEPT !.job = j]
  <1>3. Writes(memory, <<"job">>, "refill") BY DEF RejectToken
  <1>4. j \in Jobs /\ j.moves = job.moves BY <1>2, DroppedFacts
  <1>5. j # NoJob BY <1>4, JobFields
  <1> HIDE DEF j
  <1>6. /\ memory \in Memories /\ memory.queue = run.queue /\ memory.job = j
        /\ memory.passed = 0 /\ memory.token = NoToken /\ ~memory.moved
    BY <1>2, <1>4 DEF Memories
  <1>7. /\ UNCHANGED <<date, inputs, queue, job, owed, left, slipped, wanted, strays>>
        /\ slipped' \in BOOLEAN /\ Faulty
    BY <1>2 DEF RejectToken, Holds, world, observed, TypeOK
  <1> HIDE DEF memory
  <1> QED BY <1>1, <1>2, <1>3, <1>4, <1>5, <1>6, <1>7, WorkSaved

LEMMA StartWalkStep ==
    ASSUME Consistent, StartWalk
    PROVE  Consistent'
  <1>1. pc = "refill" BY DEF StartWalk, Holds
  <1>2. /\ TypeOK /\ run \in Memories /\ WithinCaps(run.queue)
        /\ run.queue = queue /\ run.job = job /\ job # NoJob
    BY <1>1, WorkingFacts
  <1>3. /\ UNCHANGED <<date, inputs, queue, job, owed, left, slipped, wanted, strays>>
        /\ slipped' \in BOOLEAN /\ Faultless /\ pc' = "walk" /\ run' = run
    BY <1>2 DEF StartWalk, Holds, Goes, world, observed, TypeOK
  <1>4. TypeOK' BY <1>2, <1>3, ExecutionTypes
  <1> QED BY <1>1, <1>2, <1>3, <1>4, WorkingStep

\* The walk restores the cursor and saves the job.
LEMMA WalkEndsStep ==
    ASSUME Consistent, pc = "walk", UNCHANGED <<inputs, queue, job>>, UNCHANGED world,
           Faultless, NEW passed \in Nat, NEW next \in 0..MaxDate,
           NEW done \in BOOLEAN, done => next = NoToken,
           WalkEnds(passed, next, done)
    PROVE  /\ Consistent'
           /\ pc' = "writing" /\ run'.queue = queue /\ run'.todo = <<"job">>
           /\ run'.job = Restored(run.job, passed, next, done)
  <1>2. /\ TypeOK /\ run \in Memories /\ WithinCaps(run.queue)
        /\ run.queue = queue /\ run.job = job
        /\ run.job \in Jobs /\ job # NoJob /\ Follows(run.queue, job)
    BY WorkingFacts
  <1> DEFINE j == Restored(run.job, passed, next, done)
             memory == [run EXCEPT !.job = j, !.fresh = TRUE, !.passed = 0,
                                   !.token = NoToken, !.moved = FALSE]
  <1>3. Writes(memory, <<"job">>, "refill") BY DEF WalkEnds
  <1>4. j \in Jobs /\ j.moves = job.moves BY <1>2, RestoredFacts
  <1>5. j # NoJob BY <1>4, JobFields
  <1>6. /\ memory \in Memories /\ memory.queue = run.queue /\ memory.job = j
        /\ memory.passed = 0 /\ memory.token = NoToken /\ ~memory.moved
    <2> HIDE DEF j
    <2>1. NoToken \in 0..MaxDate BY ManualJobAssumption DEF NoToken
    <2> QED BY <1>2, <1>4, <2>1 DEF Memories
  <1>7. /\ UNCHANGED <<date, inputs, queue, job, owed, left, wanted, strays>>
        /\ slipped' \in BOOLEAN
    <2>1. slipped \in BOOLEAN /\ left \in BOOLEAN /\ run.moved \in BOOLEAN
      BY <1>2, MemoryFields DEF TypeOK
    <2> QED BY <2>1 DEF WalkEnds, world
  <1>8. "refill" \in {"idle", "refill"} /\ <<"job">> \in {PageWrites, <<"job">>}
    OBVIOUS
  <1> HIDE DEF memory, j
  <1>9. /\ Consistent' /\ pc' = "writing" /\ run'.queue = memory.queue
        /\ run'.job = memory.job /\ run'.todo = <<"job">>
    BY <1>2, <1>3, <1>4, <1>5, <1>6, <1>7, <1>8, WorkSaved
  <1> QED BY <1>2, <1>6, <1>9 DEF j

LEMMA WalkStep ==
    ASSUME Consistent, Walk
    PROVE  Consistent'
  <1>1. pc = "walk" /\ UNCHANGED <<inputs, queue, job>> /\ UNCHANGED world /\ Faultless
    BY DEF Walk, Holds
  <1>2. /\ TypeOK /\ run \in Memories /\ WithinCaps(run.queue)
        /\ run.queue = queue /\ run.job = job /\ job # NoJob
    BY <1>1, WorkingFacts
  <1>3. /\ run.passed \in Nat /\ run.token \in 0..MaxDate
        /\ NoToken \in 0..MaxDate /\ TRUE \in BOOLEAN /\ FALSE \in BOOLEAN
    BY <1>2, MemoryFields, ManualJobAssumption DEF NoToken
  <1>4. CASE WalkEnds(run.passed, run.token, FALSE)
    BY <1>1, <1>3, <1>4, WalkEndsStep
  <1>5. ASSUME NEW page \in Pages(run.token),
               WalkEnds(run.passed + Cardinality(page.ids), NoToken, TRUE)
        PROVE  Consistent'
    <2>1. Cardinality(page.ids) \in Nat BY <1>2, <1>3, PageFacts DEF TypeOK
    <2>2. run.passed + Cardinality(page.ids) \in Nat BY <1>3, <2>1
    <2> QED BY <1>1, <1>3, <1>5, <2>2, WalkEndsStep
  <1>6. ASSUME NEW page \in Pages(run.token),
               Goes("walk", [run EXCEPT !.passed = run.passed + Cardinality(page.ids),
                                        !.token = page.next]),
               UNCHANGED observed
        PROVE  Consistent'
    <2>1. Cardinality(page.ids) \in Nat /\ page.next \in 0..MaxDate
      BY <1>2, <1>3, PageFacts DEF TypeOK
    <2> DEFINE passed == run.passed + Cardinality(page.ids)
    <2>2. passed \in Nat BY <1>3, <2>1
    <2>3. pc' = "walk" /\ run' = [run EXCEPT !.passed = passed, !.token = page.next]
      BY <1>6 DEF Goes
    <2> HIDE DEF passed
    <2>4. run' \in Memories /\ run'.queue = queue /\ run'.job = job
      BY <1>2, <2>1, <2>2, <2>3 DEF Memories
    <2>5. /\ UNCHANGED <<date, inputs, queue, job, owed, left, slipped, wanted, strays>>
          /\ slipped' \in BOOLEAN /\ WithinCaps(run'.queue)
      BY <1>1, <1>2, <1>6, <2>4 DEF world, observed, TypeOK
    <2>6. TypeOK' BY <1>1, <1>2, <2>3, <2>4, <2>5, ExecutionTypes
    <2> QED BY <1>2, <2>3, <2>4, <2>5, <2>6, WorkingStep
  <1>7. \/ WalkEnds(run.passed, run.token, FALSE)
        \/ \E page \in Pages(run.token) :
              WalkEnds(run.passed + Cardinality(page.ids), NoToken, TRUE)
        \/ \E page \in Pages(run.token) :
              /\ Goes("walk", [run EXCEPT !.passed = run.passed + Cardinality(page.ids),
                                          !.token = page.next])
              /\ UNCHANGED observed
    BY DEF Walk
  <1> QED BY <1>4, <1>5, <1>6, <1>7

LEMMA ProcessChunkStep ==
    ASSUME Consistent, ProcessChunk
    PROVE  Consistent'
  <1>1. pc = "chunk" BY DEF ProcessChunk, Holds
  <1>2. /\ TypeOK /\ run \in Memories /\ WithinCaps(run.queue)
        /\ run.queue = queue /\ run.job = job
        /\ run.job \in Jobs /\ job # NoJob /\ Follows(run.queue, job)
        /\ run.passed = 0 /\ run.token = NoToken /\ ~run.moved
    BY <1>1, WorkingFacts
  <1>3. PICK chunk \in SUBSET From(run.queue, "manual"),
             settled \in SUBSET From(run.queue, "manual"), after \in {"refill", "idle"} :
            Writes([run EXCEPT !.queue = Dequeued(@, settled),
                               !.taken = @ \cup chunk], PageWrites, after)
    BY DEF ProcessChunk
  <1>4. chunk \in SUBSET Threads /\ settled \in SUBSET Threads
    BY DEF From
  <1> DEFINE q == Dequeued(run.queue, settled)
             memory == [run EXCEPT !.queue = q, !.taken = run.taken \cup chunk]
  <1>5. Writes(memory, PageWrites, after) BY <1>3
  <1>6. run.queue \in [Threads -> Items] /\ run.taken \in SUBSET Threads
    BY <1>2, MemoryFields
  <1>7. /\ q \in [Threads -> Items]
        /\ Queued(q) \subseteq Queued(run.queue)
        /\ From(q, "manual") \subseteq From(run.queue, "manual")
        /\ \A t \in From(q, "manual") : q[t] = run.queue[t]
    BY <1>4, <1>6, DequeuedFacts
  <1> HIDE DEF q
  <1>8. WithinCaps(q) BY <1>2, <1>7, CapsShrink
  <1>9. Follows(q, job) BY <1>2, <1>7 DEF Follows
  <1>10. run.taken \cup chunk \in SUBSET Threads BY <1>4, <1>6
  <1>11. /\ memory \in Memories /\ memory.queue = q /\ memory.job = run.job
         /\ memory.passed = 0 /\ memory.token = NoToken /\ ~memory.moved
    BY <1>2, <1>7, <1>10 DEF Memories
  <1>12. /\ UNCHANGED <<date, inputs, queue, job, owed, left, slipped, wanted, strays>>
         /\ slipped' \in BOOLEAN /\ Faultless
    BY <1>2 DEF ProcessChunk, Holds, world, observed, TypeOK
  <1> HIDE DEF memory
  <1>13. PageWrites \in {PageWrites, <<"job">>} /\ after \in {"idle", "refill"}
         /\ PageWrites # <<"job">>
    BY DEF PageWrites
  <1> QED BY <1>1, <1>2, <1>5, <1>8, <1>9, <1>11, <1>12, <1>13, WorkSaved

LEMMA StopWorkStep ==
    ASSUME Consistent, StopWork
    PROVE  Consistent'
  <1>1. pc \in {"refill", "walk", "chunk"} /\ Writes(run, <<"job">>, "idle")
    BY DEF StopWork
  <1>2. /\ TypeOK /\ run \in Memories /\ WithinCaps(run.queue)
        /\ run.queue = queue /\ run.job = job
        /\ run.job \in Jobs /\ job # NoJob /\ Follows(run.queue, job)
    BY <1>1, WorkingFacts
  <1>3. /\ UNCHANGED <<date, inputs, queue, job, owed, left, slipped, wanted, strays>>
        /\ slipped' \in BOOLEAN /\ Faultless
    BY <1>2 DEF StopWork, world, observed, TypeOK
  <1> QED BY <1>1, <1>2, <1>3, WorkSaved

LEMMA CompleteJobStep ==
    ASSUME Consistent, CompleteJob
    PROVE  Consistent'
  <1>1. pc = "chunk" BY DEF CompleteJob, Holds
  <1>2. /\ TypeOK /\ run \in Memories /\ WithinCaps(run.queue)
        /\ run.queue = queue
    BY <1>1, WorkingFacts
  <1>3. /\ UNCHANGED <<date, inputs, queue, job, owed, left, slipped, wanted, strays>>
        /\ slipped' \in BOOLEAN /\ Faultless
        /\ pc' = "writing" /\ From(run.queue, "manual") = {}
        /\ run' = [run EXCEPT !.todo = <<"delete">>, !.after = "idle"]
    BY <1>2 DEF CompleteJob, Holds, IsComplete, Writes, Goes, world, observed, TypeOK
  <1>4. <<"delete">> \in Seq(Keys) BY PlansOfDrops
  <1>5. /\ run' \in Memories /\ run'.queue = run.queue /\ run'.todo = <<"delete">>
        /\ run'.after = "idle"
    BY <1>2, <1>3, <1>4 DEF Memories
  <1>6. TypeOK' BY <1>2, <1>3, <1>5, ExecutionTypes
  <1>7. DropsJob' BY <1>2, <1>3, <1>5 DEF DropsJob, From
  <1> QED BY <1>3, <1>5, <1>6, <1>7, SavingStep

\* What Write does, whichever plan it is a part of.
LEMMA WriteFacts ==
    ASSUME Consistent, Write
    PROVE  LET key == Head(run.todo)
               rest == Tail(run.todo)
           IN  /\ TypeOK'
               /\ pc = "writing"
               /\ queue' = IF key = "queue" THEN run.queue ELSE queue
               /\ job' = CASE key \in {"job", "new"} -> run.job
                           [] key = "delete" -> NoJob
                           [] OTHER -> job
               /\ strays' = (strays /\ From(queue', "manual") # {})
               /\ \/ /\ rest # <<>> /\ pc' = "writing" /\ run'.todo = rest
                     /\ run'.queue = run.queue /\ run'.job = run.job
                     /\ run'.after = run.after /\ run'.passed = run.passed
                     /\ run'.token = run.token /\ run'.moved = run.moved
                  \/ /\ rest = <<>> /\ run.after \in {"idle", "load"}
                     /\ pc' = run.after /\ run' = Idle
                  \/ /\ rest = <<>> /\ run.after = "refill" /\ pc' = "refill"
                     /\ run'.queue = run.queue /\ run'.job = run.job
                     /\ run'.passed = run.passed /\ run'.token = run.token
                     /\ run'.moved = run.moved
  <1> DEFINE key == Head(run.todo)
             rest == Tail(run.todo)
  <1>1. TypeOK /\ run \in Memories /\ WithinCaps(run.queue) BY DEF Consistent, TypeOK
  <1>2. pc = "writing" BY DEF Write
  <1>3. run.todo \in Seq(Keys) /\ run.todo # <<>>
    <2>1. SavesWork \/ DropsJob \/ StartsJob \/ ForgetsInputs
      BY <1>2 DEF Consistent, WritesArePlanned
    <2> QED BY <2>1, PlansOfWork, PlansOfDrops, PlansOfStarts, PlansOfInputs
            DEF SavesWork, DropsJob, StartsJob, ForgetsInputs
  <1>4. rest \in Seq(Keys) BY <1>3
  <1>5. /\ queue' = IF key = "queue" THEN run.queue ELSE queue
        /\ job' = CASE key \in {"job", "new"} -> run.job
                    [] key = "delete" -> NoJob
                    [] OTHER -> job
        /\ inputs' = IF key \in Inputs
                     THEN [inputs EXCEPT ![key] = FALSE] ELSE inputs
        /\ strays' = (strays /\ From(queue', "manual") # {})
        /\ UNCHANGED <<date, wanted, faults>>
    BY DEF Write, Faultless
  <1>6. /\ owed' \in SUBSET Threads
        /\ left' \in BOOLEAN /\ slipped' \in BOOLEAN
    <2>1. \/ owed' = {t \in Threads : date[t] > 0} /\ left' = FALSE /\ slipped' = FALSE
          \/ owed' = owed \ Queued(queue') /\ UNCHANGED <<left, slipped>>
      BY DEF Write
    <2> QED BY <1>1, <2>1 DEF TypeOK
  <1>7. \/ rest # <<>> /\ pc' = "writing" /\ run' = [run EXCEPT !.todo = rest]
        \/ rest = <<>> /\ run.after \in {"idle", "load"} /\ pc' = run.after /\ run' = Idle
        \/ /\ rest = <<>> /\ run.after \notin {"idle", "load"} /\ pc' = run.after
           /\ run' = [run EXCEPT !.todo = <<>>, !.after = "idle"]
    BY DEF Write, Goes, Ends
  <1> HIDE DEF key, rest
  <1>8. run.after \in {"idle", "load", "refill"} /\ <<>> \in Seq(Keys)
    BY <1>1, MemoryFields
  <1>9. /\ run' \in Memories /\ WithinCaps(run'.queue)
        /\ \/ /\ rest # <<>> /\ pc' = "writing" /\ run'.todo = rest
              /\ run'.queue = run.queue /\ run'.job = run.job
              /\ run'.after = run.after /\ run'.passed = run.passed
              /\ run'.token = run.token /\ run'.moved = run.moved
           \/ /\ rest = <<>> /\ run.after \in {"idle", "load"}
              /\ pc' = run.after /\ run' = Idle
           \/ /\ rest = <<>> /\ run.after = "refill" /\ pc' = "refill"
              /\ run'.queue = run.queue /\ run'.job = run.job
              /\ run'.passed = run.passed /\ run'.token = run.token
              /\ run'.moved = run.moved
    <2>1. CASE rest # <<>> /\ pc' = "writing" /\ run' = [run EXCEPT !.todo = rest]
      BY <1>1, <1>4, <2>1 DEF Memories
    <2>2. CASE /\ rest = <<>> /\ run.after \in {"idle", "load"}
               /\ pc' = run.after /\ run' = Idle
      BY <2>2, IdleFacts
    <2>3. CASE /\ rest = <<>> /\ run.after \notin {"idle", "load"} /\ pc' = run.after
               /\ run' = [run EXCEPT !.todo = <<>>, !.after = "idle"]
      <3>1. run' \in Memories
        BY <1>1, <1>8, <2>3 DEF Memories
      <3>2. /\ run'.queue = run.queue /\ run'.job = run.job
            /\ run'.passed = run.passed /\ run'.token = run.token
            /\ run'.moved = run.moved
        BY <1>1, <2>3 DEF Memories
      <3> QED BY <1>1, <1>8, <2>3, <3>1, <3>2
    <2> QED BY <1>7, <2>1, <2>2, <2>3
  <1>10. /\ queue' \in [Threads -> Items] /\ WithinCaps(queue')
         /\ job' \in Jobs \cup {NoJob}
    <2>1. run.queue \in [Threads -> Items] /\ run.job \in Jobs \cup {NoJob}
      BY <1>1, MemoryFields
    <2>2. CASE key = "queue" BY <1>1, <1>5, <2>1, <2>2 DEF TypeOK, WithinCaps, Queued, From
    <2>3. CASE key # "queue" BY <1>1, <1>5, <2>1, <2>3 DEF TypeOK, WithinCaps, Queued, From
    <2> QED BY <2>2, <2>3
  <1>11. inputs' \in [Inputs -> BOOLEAN] BY <1>1, <1>5 DEF TypeOK
  <1>12. strays' \in BOOLEAN BY <1>1, <1>5 DEF TypeOK
  <1>13. TypeOK'
    <2>1. pc' \in {"idle", "load", "refill", "walk", "chunk", "writing"}
      BY <1>8, <1>9
    <2> QED BY <1>1, <1>5, <1>6, <1>9, <1>10, <1>11, <1>12, <2>1
            DEF TypeOK, WithinCaps, Queued, From
  <1> QED BY <1>2, <1>5, <1>9, <1>13 DEF key, rest

LEMMA WriteStep ==
    ASSUME Consistent, Write
    PROVE  Consistent'
  <1> DEFINE key == Head(run.todo)
             rest == Tail(run.todo)
  <1>1. /\ TypeOK'
        /\ pc = "writing"
        /\ queue' = IF key = "queue" THEN run.queue ELSE queue
        /\ job' = CASE key \in {"job", "new"} -> run.job
                    [] key = "delete" -> NoJob
                    [] OTHER -> job
        /\ strays' = (strays /\ From(queue', "manual") # {})
    BY WriteFacts
  <1>2. \/ /\ rest # <<>> /\ pc' = "writing" /\ run'.todo = rest
           /\ run'.queue = run.queue /\ run'.job = run.job
           /\ run'.after = run.after /\ run'.passed = run.passed
           /\ run'.token = run.token /\ run'.moved = run.moved
        \/ /\ rest = <<>> /\ run.after \in {"idle", "load"}
           /\ pc' = run.after /\ run' = Idle
        \/ /\ rest = <<>> /\ run.after = "refill" /\ pc' = "refill"
           /\ run'.queue = run.queue /\ run'.job = run.job
           /\ run'.passed = run.passed /\ run'.token = run.token
           /\ run'.moved = run.moved
    BY WriteFacts
  <1>3. /\ TypeOK /\ ManualWorkHasAJob /\ MovesFollowTheJob
        /\ (SavesWork \/ DropsJob \/ StartsJob \/ ForgetsInputs)
        /\ run.after = "refill" =>
              run.passed = 0 /\ run.token = NoToken /\ ~run.moved
    BY <1>1 DEF Consistent, WritesArePlanned, MemoryIsCurrent
  <1>4. Idle.job = NoJob /\ Idle.passed = 0 /\ Idle.token = NoToken /\ ~Idle.moved
    BY IdleFacts
  <1> HIDE DEF key, rest
  \* A page or a chunk: the queue, then the job.
  <1>5. CASE SavesWork
    <2>1. /\ job # NoJob /\ run.job # NoJob /\ run.job.moves = job.moves
          /\ Follows(run.queue, job) /\ run.after \in {"refill", "idle"}
          /\ run.todo \in {PageWrites, <<"job">>}
          /\ run.todo = <<"job">> => run.queue = queue
      BY <1>5 DEF SavesWork
    <2>2. \/ run.todo = PageWrites /\ key = "queue" /\ rest = <<"job">> /\ rest # <<>>
          \/ run.todo = <<"job">> /\ key = "job" /\ rest = <<>>
      BY <2>1, PlansOfWork DEF key, rest
    <2>3. CASE key = "queue" /\ rest = <<"job">> /\ rest # <<>>
      <3>1. queue' = run.queue /\ job' = job BY <1>1, <2>3
      <3>2. /\ pc' = "writing" /\ run'.todo = <<"job">> /\ run'.queue = queue'
            /\ run'.job = run.job /\ run'.after = run.after
            /\ run'.passed = run.passed /\ run'.token = run.token
            /\ run'.moved = run.moved
        BY <1>2, <2>3, <3>1
      <3>3. Follows(queue', job) BY <2>1, <3>1
      <3>4. SavesWork' BY <2>1, <3>1, <3>2, <3>3 DEF SavesWork, Follows, From
      <3>5. ManualWorkHasAJob' /\ MovesFollowTheJob'
        BY <2>1, <3>1, <3>3 DEF ManualWorkHasAJob, MovesFollowTheJob, Follows, From
      <3>6. MemoryIsCurrent' /\ WritesArePlanned'
        BY <1>3, <3>2, <3>4 DEF MemoryIsCurrent, WritesArePlanned
      <3> QED BY <1>1, <3>5, <3>6 DEF Consistent
    <2>4. CASE run.todo = <<"job">> /\ key = "job" /\ rest = <<>>
      <3>1. queue' = queue /\ job' = run.job /\ run.queue = queue BY <1>1, <2>1, <2>4
      <3>2. ManualWorkHasAJob' /\ MovesFollowTheJob'
        BY <2>1, <3>1 DEF ManualWorkHasAJob, MovesFollowTheJob, Follows, From
      <3>3. MemoryIsCurrent' /\ WritesArePlanned'
        BY <1>2, <1>3, <1>4, <2>1, <2>4, <3>1 DEF MemoryIsCurrent, WritesArePlanned
      <3> QED BY <1>1, <3>2, <3>3 DEF Consistent
    <2> QED BY <2>2, <2>3, <2>4
  \* A cancelled or completed job: the queue without manual work, then no job.
  <1>6. CASE DropsJob
    <2>1. /\ run.todo \in {CancelWrites, <<"queue">>, <<"delete">>}
          /\ run.after = "idle" /\ From(run.queue, "manual") = {}
          /\ run.todo = <<"delete">> => From(queue, "manual") = {}
      BY <1>6 DEF DropsJob
    <2>2. \/ key = "queue" /\ rest = <<"delete">> /\ rest # <<>>
          \/ key = "queue" /\ rest = <<>>
          \/ run.todo = <<"delete">> /\ key = "delete" /\ rest = <<>>
      BY <2>1, PlansOfDrops DEF key, rest
    <2>3. From(queue', "manual") = {}
      BY <1>1, <2>1, <2>2
    <2>4. ManualWorkHasAJob' /\ MovesFollowTheJob'
      BY <2>3 DEF ManualWorkHasAJob, MovesFollowTheJob, From
    <2>5. CASE key = "queue" /\ rest = <<"delete">> /\ rest # <<>>
      <3>1. /\ pc' = "writing" /\ run'.todo = <<"delete">> /\ run'.queue = run.queue
            /\ run'.after = "idle"
        BY <1>2, <2>1, <2>5
      <3>2. DropsJob' BY <2>1, <2>3, <3>1 DEF DropsJob, From
      <3>3. MemoryIsCurrent' /\ WritesArePlanned'
        BY <3>1, <3>2 DEF MemoryIsCurrent, WritesArePlanned
      <3> QED BY <1>1, <2>4, <3>3 DEF Consistent
    <2>6. CASE rest = <<>>
      <3>1. pc' = "idle" /\ run' = Idle BY <1>2, <2>1, <2>6
      <3>2. MemoryIsCurrent' /\ WritesArePlanned'
        BY <1>4, <3>1 DEF MemoryIsCurrent, WritesArePlanned
      <3> QED BY <1>1, <2>4, <3>2 DEF Consistent
    <2> QED BY <2>2, <2>5, <2>6
  \* A start: the old work goes as above, then the new job is stored.
  <1>7. CASE StartsJob
    <2>1. /\ run.todo \in {CancelWrites \o StartWrites, <<"queue">> \o StartWrites,
                           <<"delete">> \o StartWrites, StartWrites}
          /\ run.after = "load" /\ From(run.queue, "manual") = {}
          /\ key # "queue" => From(queue, "manual") = {}
      BY <1>7 DEF StartsJob, key
    <2>2. PICK moves \in BOOLEAN : run.job = NewJob(moves) BY <1>7 DEF StartsJob
    <2>3. /\ \/ /\ key = "queue"
                /\ rest \in {<<"delete">> \o StartWrites, StartWrites}
                /\ Head(rest) # "queue"
             \/ key = "delete" /\ rest = StartWrites /\ Head(rest) # "queue"
             \/ key = "new" /\ rest = <<"query", "moves", "replace">>
                /\ Head(rest) # "queue"
          /\ rest # <<>>
      BY <2>1, PlansOfStarts DEF key, rest
    <2>4. From(queue', "manual") = {}
      BY <1>1, <2>1, <2>3
    <2>5. ManualWorkHasAJob' /\ MovesFollowTheJob'
      BY <2>4 DEF ManualWorkHasAJob, MovesFollowTheJob, From
    <2>6. /\ pc' = "writing" /\ run'.todo = rest /\ run'.queue = run.queue
          /\ run'.job = run.job /\ run'.after = "load"
      BY <1>2, <2>1, <2>3
    <2>7. CASE key # "new"
      <3>1. StartsJob'
        <4>1. \E m \in BOOLEAN : run'.job = NewJob(m) BY <2>2, <2>6
        <4> QED BY <2>1, <2>3, <2>4, <2>6, <2>7, <4>1 DEF StartsJob, From
      <3>2. MemoryIsCurrent' /\ WritesArePlanned'
        BY <2>6, <3>1 DEF MemoryIsCurrent, WritesArePlanned
      <3> QED BY <1>1, <2>5, <3>2 DEF Consistent
    <2>8. CASE key = "new"
      <3>1. job' = run.job /\ rest = <<"query", "moves", "replace">>
        BY <1>1, <2>3, <2>8
      <3>2. run.job # NoJob BY <2>2, NewJobFacts
      <3>3. ForgetsInputs' BY <2>6, <3>1, <3>2 DEF ForgetsInputs
      <3>4. MemoryIsCurrent' /\ WritesArePlanned'
        BY <2>6, <3>3 DEF MemoryIsCurrent, WritesArePlanned
      <3> QED BY <1>1, <2>5, <3>4 DEF Consistent
    <2> QED BY <2>7, <2>8
  \* The inputs of the stored job.
  <1>8. CASE ForgetsInputs
    <2>1. /\ run.todo \in {<<"query", "moves", "replace">>, <<"moves", "replace">>,
                           <<"replace">>}
          /\ run.after = "load" /\ job # NoJob /\ run.job = job
      BY <1>8 DEF ForgetsInputs
    <2>2. /\ key \in Inputs
          /\ \/ rest = <<>>
             \/ rest \in {<<"moves", "replace">>, <<"replace">>} /\ rest # <<>>
      BY <2>1, PlansOfInputs DEF key, rest
    <2>3. queue' = queue /\ job' = job
      BY <1>1, <2>2 DEF Inputs
    <2>4. ManualWorkHasAJob' /\ MovesFollowTheJob'
      BY <1>3, <2>1, <2>3 DEF ManualWorkHasAJob, MovesFollowTheJob
    <2>5. CASE rest = <<>>
      <3>1. pc' = "load" /\ run' = Idle BY <1>2, <2>1, <2>5
      <3>2. MemoryIsCurrent' /\ WritesArePlanned'
        BY <1>4, <3>1 DEF MemoryIsCurrent, WritesArePlanned
      <3> QED BY <1>1, <2>4, <3>2 DEF Consistent
    <2>6. CASE rest \in {<<"moves", "replace">>, <<"replace">>} /\ rest # <<>>
      <3>1. /\ pc' = "writing" /\ run'.todo = rest /\ run'.job = run.job
            /\ run'.after = "load"
        BY <1>2, <2>1, <2>6
      <3>2. ForgetsInputs' BY <2>1, <2>3, <2>6, <3>1 DEF ForgetsInputs
      <3>3. MemoryIsCurrent' /\ WritesArePlanned'
        BY <3>1, <3>2 DEF MemoryIsCurrent, WritesArePlanned
      <3> QED BY <1>1, <2>4, <3>3 DEF Consistent
    <2> QED BY <2>2, <2>5, <2>6
  <1> QED BY <1>3, <1>5, <1>6, <1>7, <1>8

\* The first part of the invariant is inductive by itself.
LEMMA ConsistentStep ==
    ASSUME Consistent, [Next]_vars
    PROVE  Consistent'
  <1>1. CASE \E t \in Threads : MailArrives(t) BY <1>1, MailArrivesStep
  <1>2. CASE \/ \E t \in Threads : ThreadLeavesSearch(t)
             \/ \E moves, replace \in BOOLEAN : SetInputs(moves, replace)
    BY <1>2, MailboxAndUserSteps
  <1>3. CASE \E t \in Threads : Scheduled(t) BY <1>3, ScheduledStep
  <1>4. CASE DeletedByHand BY <1>4, DeletedByHandStep
  <1>5. CASE StartManualRun BY <1>5, StartManualRunStep
  <1>6. CASE CancelManualRun BY <1>6, CancelManualRunStep
  <1>7. CASE \E taken \in SUBSET Threads : BeginWork(taken) BY <1>7, BeginWorkStep
  <1>8. CASE LeaveJob \/ Crash BY <1>8, EndedSteps
  <1>9. CASE EndRefill BY <1>9, EndRefillStep
  <1>10. CASE ReadPage BY <1>10, ReadPageStep
  <1>11. CASE RejectToken BY <1>11, RejectTokenStep
  <1>12. CASE StartWalk BY <1>12, StartWalkStep
  <1>13. CASE Walk BY <1>13, WalkStep
  <1>14. CASE ProcessChunk BY <1>14, ProcessChunkStep
  <1>15. CASE StopWork BY <1>15, StopWorkStep
  <1>16. CASE CompleteJob BY <1>16, CompleteJobStep
  <1>17. CASE Write BY <1>17, WriteStep
  <1>18. CASE UNCHANGED vars
    BY <1>18 DEF vars, Consistent, TypeOK, ManualWorkHasAJob, MovesFollowTheJob,
                 MemoryIsCurrent, WritesArePlanned, SavesWork, DropsJob, StartsJob,
                 ForgetsInputs, Follows, WithinCaps, Queued, From
  <1> QED BY <1>1, <1>2, <1>3, <1>4, <1>5, <1>6, <1>7, <1>8, <1>9, <1>10, <1>11,
             <1>12, <1>13, <1>14, <1>15, <1>16, <1>17, <1>18 DEF Next

-----------------------------------------------------------------------------
(* The second part of the invariant: cursors leave no thread behind.       *)

\* A cursor that covers some threads covers fewer; one that has counted none
\* covers them all.
LEMMA CoversFewer ==
    ASSUME NEW j, NEW S, NEW R \in SUBSET S, Covers(j, S)
    PROVE  Covers(j, R)
  BY DEF Covers

LEMMA CoversAnything ==
    ASSUME NEW j, ~j.done, j.token = NoToken, j.seen \in Int, j.seen <= 0,
           NEW S \in SUBSET Threads
    PROVE  Covers(j, S)
  <1>1. \A t \in S : Cardinality(Ahead(t)) \in Nat
    BY ThreadSets DEF Ahead
  <1> QED BY <1>1 DEF Covers

LEMMA NoJobCovers ==
    ASSUME NEW S \in SUBSET Threads
    PROVE  Covers(NoJob, S)
  <1>1. ~NoJob.done /\ NoJob.token = NoToken /\ NoJob.seen \in Int /\ NoJob.seen <= 0
    BY DEF NoJob
  <1> QED BY <1>1, CoversAnything

LEMMA NewJobCovers ==
    ASSUME NEW S \in SUBSET Threads, NEW moves \in BOOLEAN
    PROVE  Covers(NewJob(moves), S)
  BY NewJobFacts, CoversAnything

\* A step that changes neither the mailbox nor the place of a walk.
LEMMA QuietStep ==
    ASSUME IInv, Consistent', date' = date, left' = left, slipped => slipped',
           owed' \subseteq owed, pc' # "walk",
           slipped' \/ (Covers(job', owed') /\ Covers(run'.job, Unsaved'))
    PROVE  IInv'
  <1>1. OwedAreListed' BY DEF IInv, OwedAreListed
  <1>2. CursorsCover'
    BY DEF CursorsCover, Covers, Ahead, Before, Unsaved
  <1>3. WalkIsExact' BY DEF WalkIsExact
  <1> QED BY <1>1, <1>2, <1>3 DEF IInv

\* What is still unsaved is owed.
LEMMA UnsavedIsOwed ==
    /\ Unsaved \subseteq owed /\ Unsaved' \subseteq owed'
    /\ pc' # "writing" => Unsaved' = owed'
    /\ pc # "writing" => Unsaved = owed
  BY DEF Unsaved

\* The steps after which the execution holds no job, a new one, or the same
\* as before, and has no more to queue.
LEMMA PlainSteps ==
    ASSUME IInv, Consistent',
           \/ \E moves, replace \in BOOLEAN : SetInputs(moves, replace)
           \/ DeletedByHand
           \/ \E t \in Threads : Scheduled(t)
           \/ StartManualRun \/ CancelManualRun
           \/ \E taken \in SUBSET Threads : BeginWork(taken)
           \/ LeaveJob \/ Crash \/ EndRefill
           \/ ProcessChunk \/ StopWork \/ CompleteJob
    PROVE  IInv'
  <1>1. /\ TypeOK /\ TypeOK' /\ owed \in SUBSET Threads
        /\ slipped \/ (Covers(job, owed) /\ Covers(run.job, Unsaved))
    BY DEF IInv, Consistent, TypeOK, CursorsCover
  <1>2. date' = date /\ left' = left /\ slipped' = slipped
        /\ owed' \subseteq owed /\ owed' \in SUBSET Threads
    BY <1>1 DEF SetInputs, DeletedByHand, Scheduled, StartManualRun, CancelManualRun,
           BeginWork, LeaveJob, Crash, EndRefill, ProcessChunk, StopWork, CompleteJob,
           world, observed
  <1>3. pc' # "walk"
    BY DEF SetInputs, DeletedByHand, Scheduled, StartManualRun, CancelManualRun,
           BeginWork, LeaveJob, Crash, EndRefill, ProcessChunk, StopWork, CompleteJob,
           Writes, Goes, Ends
  <1>4. slipped' \/ Covers(job', owed')
    <2>1. job' = job \/ job' = NoJob
      BY DEF SetInputs, DeletedByHand, Scheduled, StartManualRun, CancelManualRun,
             BeginWork, LeaveJob, Crash, EndRefill, ProcessChunk, StopWork, CompleteJob,
             Holds
    <2> QED BY <1>1, <1>2, <2>1, CoversFewer, NoJobCovers
  <1>5. slipped' \/ Covers(run'.job, Unsaved')
    <2>1. /\ Unsaved' \in SUBSET owed' /\ Unsaved' \in SUBSET Threads
          /\ Unsaved' \in SUBSET owed
      BY <1>2, UnsavedIsOwed
    <2>2. CASE run'.job = NoJob BY <2>1, <2>2, NoJobCovers
    <2>3. CASE \E moves \in BOOLEAN : run'.job = NewJob(moves)
      BY <2>1, <2>3, NewJobCovers
    <2>4. CASE run'.job = job BY <1>1, <2>1, <2>4, <1>2, CoversFewer
    <2>5. \/ run'.job = NoJob
          \/ \E moves \in BOOLEAN : run'.job = NewJob(moves)
          \/ run'.job = job
      <3>1. CASE \/ \E moves, replace \in BOOLEAN : SetInputs(moves, replace)
                 \/ DeletedByHand
                 \/ \E t \in Threads : Scheduled(t)
        <4>1. pc = "idle" /\ run' = run
          BY <3>1 DEF SetInputs, DeletedByHand, Scheduled
        <4> QED BY <4>1 DEF IInv, Consistent, MemoryIsCurrent
      <3>2. CASE StartManualRun
        <4> DEFINE memory == [Idle EXCEPT !.queue = DropManualWork(queue),
                                          !.job = NewJob(inputs.moves)]
        <4>1. PICK todo : run' = [memory EXCEPT !.todo = todo, !.after = "load"]
          BY <3>2 DEF StartManualRun, Writes, Goes
        <4>2. run'.job = NewJob(inputs.moves) BY <4>1 DEF Idle
        <4>3. inputs.moves \in BOOLEAN BY <1>1 DEF TypeOK, Inputs
        <4> QED BY <4>2, <4>3
      <3>3. CASE CancelManualRun
        <4> DEFINE memory == [Idle EXCEPT !.queue = DropManualWork(queue)]
        <4>1. PICK todo : run' = [memory EXCEPT !.todo = todo, !.after = "idle"]
          BY <3>3 DEF CancelManualRun, Writes, Goes
        <4> QED BY <4>1 DEF Idle
      <3>4. CASE \E taken \in SUBSET Threads : BeginWork(taken)
        <4>1. PICK taken : run' = [Idle EXCEPT !.queue = queue, !.job = job,
                                              !.taken = taken]
          BY <3>4 DEF BeginWork, Goes
        <4> QED BY <4>1 DEF Idle
      <3>5. CASE LeaveJob \/ Crash
        BY <3>5, IdleFacts DEF LeaveJob, Crash, Ends, Goes
      <3>6. CASE EndRefill
        <4>1. /\ run' = [run EXCEPT !.fresh = FALSE, !.passed = 0, !.token = NoToken,
                                    !.moved = FALSE]
              /\ pc \in {"refill", "walk"}
          BY <3>6 DEF EndRefill, Goes
        <4>2. run \in Memories /\ run.job = job
          BY <4>1, WorkingFacts DEF IInv
        <4> QED BY <4>1, <4>2 DEF Memories
      <3>7. CASE ProcessChunk
        <4>1. PICK settled, taken, after :
                 run' = [[run EXCEPT !.queue = Dequeued(@, settled), !.taken = taken]
                            EXCEPT !.todo = PageWrites, !.after = after]
          BY <3>7 DEF ProcessChunk, Writes, Goes
        <4>2. run \in Memories /\ run.job = job
          BY <3>7, WorkingFacts DEF IInv, ProcessChunk, Holds
        <4> QED BY <4>1, <4>2 DEF Memories
      <3>8. CASE StopWork \/ CompleteJob
        <4>1. PICK todo : run' = [run EXCEPT !.todo = todo, !.after = "idle"]
          BY <3>8 DEF StopWork, CompleteJob, Writes, Goes
        <4>2. run \in Memories /\ run.job = job
          BY <3>8, WorkingFacts DEF IInv, StopWork, CompleteJob, Holds
        <4> QED BY <4>1, <4>2 DEF Memories
      <3> QED BY <3>1, <3>2, <3>3, <3>4, <3>5, <3>6, <3>7, <3>8
    <2> QED BY <2>2, <2>3, <2>4, <2>5
  <1> QED BY <1>2, <1>3, <1>4, <1>5, QuietStep

\* Mail that arrives moves its thread ahead of all others, so no cursor has
\* fewer threads before it.
LEMMA MailArrivesCovers ==
    ASSUME IInv, Consistent', NEW t \in Threads, MailArrives(t)
    PROVE  IInv'
  <1>1. /\ date \in [Threads -> 0..MaxDate] /\ owed \in SUBSET Threads
        /\ run \in Memories /\ job \in Jobs \cup {NoJob}
        /\ left \in BOOLEAN /\ slipped \in BOOLEAN
    BY DEF IInv, Consistent, TypeOK
  <1>2. PICK now \in 1..MaxDate : /\ \A u \in Threads : date[u] < now
                                  /\ date' = [date EXCEPT ![t] = now]
    BY DEF MailArrives
  <1>3. /\ date'[t] = now
        /\ \A u \in Threads : date'[u] >= date[u] /\ (u # t => date'[u] = date[u])
        /\ \A u \in Threads : date'[u] \in Nat /\ date[u] \in Nat
    BY <1>1, <1>2
  <1>4. UNCHANGED <<queue, job, pc, left, slipped>>
        /\ owed' = owed \ {t} /\ pc \in {"idle", "refill", "walk"}
    BY DEF MailArrives, observed
  <1> DEFINE moved == run.moved \/ date[t] \in 1..(run.token - 1)
  <1>5. run' = [run EXCEPT !.moved = moved] BY DEF MailArrives
  <1>6. /\ run'.queue = run.queue /\ run'.job = run.job /\ run'.moved = moved
        /\ run'.passed = run.passed /\ run'.token = run.token
    <2> HIDE DEF moved
    <2> QED BY <1>1, <1>5 DEF Memories
  <1>7. OwedAreListed' BY <1>1, <1>3, <1>4 DEF IInv, OwedAreListed
  <1>8. ASSUME NEW u \in owed'
        PROVE  /\ date'[u] = date[u]
               /\ Ahead(u) \subseteq {v \in Threads : date'[v] > date'[u]}
               /\ u \in Threads /\ u \in owed
    BY <1>1, <1>2, <1>3, <1>4 DEF Ahead
  <1>9. ASSUME NEW token \in Nat
        PROVE  Before(token) \subseteq {v \in Threads : date'[v] >= token}
    BY <1>3 DEF Before
  <1>10. ASSUME NEW j \in Jobs \cup {NoJob}, Covers(j, owed)
         PROVE  /\ j.done => owed' = {}
                /\ j.token # NoToken => \A u \in owed' : date'[u] < j.token
                /\ ~left => \A u \in owed' :
                       Cardinality({v \in Threads : date'[v] > date'[u]}) >= j.seen
                /\ ~left /\ j.token # NoToken =>
                       Cardinality({v \in Threads : date'[v] >= j.token}) >= j.seen
    <2>1. j.seen \in Int /\ j.token \in Nat
      BY JobFields, ManualJobAssumption DEF NoJob, NoToken
    <2>2. ASSUME ~left, NEW u \in owed'
          PROVE  Cardinality({v \in Threads : date'[v] > date'[u]}) >= j.seen
      <3> DEFINE S == {v \in Threads : date'[v] > date'[u]}
      <3>1. Ahead(u) \in SUBSET S /\ S \in SUBSET Threads BY <1>8
      <3> HIDE DEF S
      <3>2. Cardinality(Ahead(u)) <= Cardinality(S)
            /\ Cardinality(Ahead(u)) \in Nat /\ Cardinality(S) \in Nat
        BY <3>1, ThreadSets
      <3>3. Cardinality(Ahead(u)) >= j.seen BY <1>8, <1>10, <2>2 DEF Covers
      <3>4. Cardinality(S) >= j.seen BY <2>1, <3>2, <3>3
      <3> QED BY <3>4 DEF S
    <2>3. ASSUME ~left, j.token # NoToken
          PROVE  Cardinality({v \in Threads : date'[v] >= j.token}) >= j.seen
      <3> DEFINE S == {v \in Threads : date'[v] >= j.token}
      <3>1. Before(j.token) \in SUBSET S /\ S \in SUBSET Threads BY <1>9, <2>1
      <3> HIDE DEF S
      <3>2. Cardinality(Before(j.token)) <= Cardinality(S)
            /\ Cardinality(Before(j.token)) \in Nat /\ Cardinality(S) \in Nat
        BY <3>1, ThreadSets
      <3>3. Cardinality(Before(j.token)) >= j.seen BY <1>10, <2>3 DEF Covers
      <3>4. Cardinality(S) >= j.seen BY <2>1, <3>2, <3>3
      <3> QED BY <3>4 DEF S
    <2>4. j.done => owed' = {} BY <1>4, <1>10 DEF Covers
    <2>5. j.token # NoToken => \A u \in owed' : date'[u] < j.token
      BY <1>8, <1>10 DEF Covers
    <2> QED BY <2>2, <2>3, <2>4, <2>5
  <1>11. CursorsCover'
    <2>1. slipped \/ (Covers(job, owed) /\ Covers(run.job, owed))
      BY <1>4, UnsavedIsOwed DEF IInv, CursorsCover
    <2>2. run.job \in Jobs \cup {NoJob} BY <1>1, MemoryFields
    <2>3. Unsaved' = owed' BY <1>4, UnsavedIsOwed
    <2>4. slipped' \/ (Covers(job, owed)' /\ Covers(run.job, owed)')
      <3>1. CASE slipped BY <1>4, <3>1
      <3>2. CASE Covers(job, owed) /\ Covers(run.job, owed)
        <4>1. Covers(job, owed)' BY <1>1, <1>4, <1>10, <3>2 DEF Covers, Ahead, Before
        <4>2. Covers(run.job, owed)'
          BY <1>4, <1>6, <1>10, <2>2, <3>2 DEF Covers, Ahead, Before
        <4> QED BY <4>1, <4>2
      <3> QED BY <2>1, <3>1, <3>2
    <2> QED BY <2>3, <2>4 DEF CursorsCover
  <1>12. WalkIsExact'
    <2> SUFFICES ASSUME pc = "walk", ~slipped, ~left, ~moved
                 PROVE  /\ run.token # NoToken =>
                             Cardinality({v \in Threads : date'[v] >= run.token})
                                >= run.passed
                        /\ \A u \in owed' :
                              /\ run.token # NoToken => date'[u] < run.token
                              /\ run.passed + Cardinality(
                                    {v \in {w \in Threads : date'[w] > date'[u]} :
                                        run.token = NoToken \/ date'[v] < run.token})
                                   >= run.job.seen
      BY <1>4, <1>6 DEF WalkIsExact, IInv, Before, Between, Ahead
    <2>1. /\ run.token # NoToken => Cardinality(Before(run.token)) >= run.passed
          /\ \A u \in owed : /\ run.token # NoToken => date[u] < run.token
                             /\ run.passed + Cardinality(Between(u)) >= run.job.seen
      BY DEF IInv, WalkIsExact
    <2>2. /\ run.token \in Nat /\ run.passed \in Nat /\ run.job.seen \in Nat
      BY <1>1, MemoryFields, WorkingFacts, JobFields DEF IInv
    <2>3. ASSUME run.token # NoToken
          PROVE  Cardinality({v \in Threads : date'[v] >= run.token}) >= run.passed
      <3> DEFINE S == {v \in Threads : date'[v] >= run.token}
      <3>1. Before(run.token) \in SUBSET S /\ S \in SUBSET Threads BY <1>9, <2>2
      <3> HIDE DEF S
      <3>2. Cardinality(Before(run.token)) <= Cardinality(S)
            /\ Cardinality(Before(run.token)) \in Nat /\ Cardinality(S) \in Nat
        BY <3>1, ThreadSets
      <3>3. Cardinality(S) >= run.passed BY <2>1, <2>2, <2>3, <3>2
      <3> QED BY <3>3 DEF S
    <2>4. ASSUME NEW u \in owed'
          PROVE  /\ run.token # NoToken => date'[u] < run.token
                 /\ run.passed + Cardinality(
                       {v \in {w \in Threads : date'[w] > date'[u]} :
                           run.token = NoToken \/ date'[v] < run.token})
                      >= run.job.seen
      <3> DEFINE S == {v \in {w \in Threads : date'[w] > date'[u]} :
                          run.token = NoToken \/ date'[v] < run.token}
      <3>1. ASSUME NEW v \in Between(u)
            PROVE  v \in S
        <4>1. v \in Ahead(u) /\ (run.token = NoToken \/ date[v] < run.token)
              /\ v \in Threads
          BY DEF Between, Ahead
        <4>2. date'[v] > date'[u] BY <1>8, <4>1
        <4>3. CASE v = t
          <5>1. date[t] >= 1
            <6>1. date[v] > date[u] BY <4>1 DEF Ahead
            <6> QED BY <1>3, <1>8, <4>3, <6>1
          <5>2. run.token = NoToken BY <1>3, <2>2, <4>1, <4>3, <5>1
          <5> QED BY <4>1, <4>2, <5>2
        <4>4. CASE v # t BY <1>3, <4>1, <4>2, <4>4
        <4> QED BY <4>3, <4>4
      <3>2. Between(u) \in SUBSET S /\ S \in SUBSET Threads BY <3>1
      <3> HIDE DEF S
      <3>3. Cardinality(Between(u)) <= Cardinality(S)
            /\ Cardinality(Between(u)) \in Nat /\ Cardinality(S) \in Nat
        BY <3>2, ThreadSets
      <3>4. run.passed + Cardinality(Between(u)) >= run.job.seen BY <1>8, <2>1
      <3>5. run.passed + Cardinality(S) >= run.job.seen BY <2>2, <3>3, <3>4
      <3> QED BY <1>8, <2>1, <3>5 DEF S
    <2> QED BY <2>3, <2>4
  <1> QED BY <1>7, <1>11, <1>12 DEF IInv

\* A thread that leaves the search takes nothing that is still owed with it,
\* and from then on no cursor is held to its count.
LEMMA ThreadLeavesCovers ==
    ASSUME IInv, Consistent', NEW t \in Threads, ThreadLeavesSearch(t)
    PROVE  IInv'
  <1>1. /\ date \in [Threads -> 0..MaxDate] /\ owed \in SUBSET Threads
        /\ date' = [date EXCEPT ![t] = 0] /\ owed' = owed \ {t} /\ left' = TRUE
        /\ UNCHANGED <<queue, job, pc, run, slipped>>
        /\ pc \in {"idle", "refill", "walk"}
    BY DEF IInv, Consistent, TypeOK, ThreadLeavesSearch, observed
  <1>2. \A u \in owed' : u \in owed /\ date'[u] = date[u] BY <1>1
  <1>3. OwedAreListed' BY <1>1, <1>2 DEF IInv, OwedAreListed
  <1>4. slipped \/ (Covers(job, owed) /\ Covers(run.job, owed))
    BY <1>1, UnsavedIsOwed DEF IInv, CursorsCover
  <1>5. Unsaved' = owed' BY <1>1, UnsavedIsOwed
  <1>6. CursorsCover' BY <1>1, <1>2, <1>4, <1>5 DEF CursorsCover, Covers
  <1>7. WalkIsExact' BY <1>1 DEF IInv, WalkIsExact
  <1> QED BY <1>3, <1>6, <1>7 DEF IInv

\* A page that is read in the search's order is queued as a whole, and its
\* token leaves all that is still owed behind it.
LEMMA ReadPageCovers ==
    ASSUME IInv, Consistent', ReadPage
    PROVE  IInv'
  <1>1. pc = "refill" BY DEF ReadPage, Holds
  <1>2. /\ TypeOK /\ run \in Memories /\ run.queue = queue /\ run.job = job
        /\ run.job \in Jobs /\ job # NoJob
    BY <1>1, WorkingFacts DEF IInv
  <1>3. /\ date \in [Threads -> 0..MaxDate] /\ owed \in SUBSET Threads
        /\ left \in BOOLEAN
    BY <1>2 DEF TypeOK
  <1> DEFINE item == Item("manual", run.job.moves)
  <1>4. PICK page \in Pages(run.job.token) :
            Writes([run EXCEPT !.queue = Enqueued(@, page.ids, item),
                     !.job = Advanced(@, Cardinality(page.ids), page.next),
                     !.fresh = TRUE],
                   PageWrites, "refill")
    BY DEF ReadPage
  <1> DEFINE token == run.job.token
             ids == page.ids
             next == page.next
             q == Enqueued(run.queue, ids, item)
             j == Advanced(run.job, Cardinality(ids), next)
             memory == [run EXCEPT !.queue = q, !.job = j, !.fresh = TRUE]
  <1>5. token \in 0..MaxDate /\ run.job.seen \in Nat BY <1>2, JobFields
  <1>6. /\ ids \in SUBSET Remaining(token) /\ ids \in SUBSET Threads
        /\ Cardinality(ids) \in Nat
        /\ next \in 0..MaxDate
        /\ next = NoToken => ids = Remaining(token)
        /\ next # NoToken => ids = {t \in Remaining(token) : date[t] >= next}
        /\ next # NoToken /\ token # NoToken => next < token
    BY <1>3, <1>5, PageFacts
  <1>7. /\ j.seen = run.job.seen + Cardinality(ids) /\ j.token = next
        /\ (j.done <=> next = NoToken) /\ j \in Jobs
    BY <1>2, <1>6, AdvancedFacts
  <1>8. Queued(q) = Queued(run.queue) \cup ids
    <2>1. item \in Items /\ item # NotQueued BY <1>2, JobFields, ItemFacts
    <2>2. run.queue \in [Threads -> Items] BY <1>2, MemoryFields
    <2> HIDE DEF item
    <2> QED BY <1>6, <2>1, <2>2, EnqueuedFacts
  <1>9. pc' = "writing" /\ run' = [memory EXCEPT !.todo = PageWrites, !.after = "refill"]
    BY <1>4 DEF Writes, Goes
  <1> HIDE DEF q, j
  <1>10. run'.queue = q /\ run'.job = j /\ run'.todo = PageWrites
    BY <1>2, <1>9 DEF Memories
  <1>11. Unsaved' = owed' \ Queued(q)
    BY <1>9, <1>10 DEF Unsaved, PageWrites, Queued
  <1>12. UNCHANGED <<date, owed, left, slipped, job>>
    BY DEF ReadPage, Holds, world, observed
  <1> HIDE DEF ids, next, token, memory
  \* The threads of the page and those before it.
  <1>13. ASSUME NEW t \in Unsaved'
         PROVE  /\ t \in Threads /\ t \notin ids /\ t \in owed /\ date[t] > 0
    <2>1. t \in owed /\ t \notin ids BY <1>8, <1>11, <1>12
    <2> QED BY <1>3, <2>1 DEF IInv, OwedAreListed
  <1>14. slipped \/ Covers(run.job, owed)
    BY <1>1, UnsavedIsOwed DEF IInv, CursorsCover
  <1>15. ASSUME Covers(run.job, owed)
         PROVE  Covers(j, Unsaved')
    <2>1. \A t \in Unsaved' : t \in Remaining(token)
      BY <1>13, <1>15 DEF Covers, Remaining, token
    <2>2. next = NoToken => Unsaved' = {} BY <1>6, <1>13, <2>1
    <2>3. next # NoToken => \A t \in Unsaved' : date[t] < next
      <3>1. ASSUME next # NoToken, NEW t \in Unsaved'
            PROVE  date[t] < next
        <4>1. ~(date[t] >= next) BY <1>6, <1>13, <2>1, <3>1
        <4>2. date[t] \in Nat /\ next \in Nat BY <1>3, <1>6, <1>13
        <4> QED BY <4>1, <4>2
      <3> QED BY <3>1
    <2>4. ASSUME ~left, next # NoToken
          PROVE  Cardinality(Before(next)) >= j.seen
      <3> DEFINE B == IF token = NoToken THEN {} ELSE Before(token)
      <3>1. B \in SUBSET Threads /\ B \cap ids = {} /\ B \cup ids \in SUBSET Before(next)
        <4>1. B \in SUBSET Threads BY DEF Before
        <4>2. \A t \in ids : /\ t \in Threads /\ date[t] \in Nat /\ date[t] >= next
                             /\ token # NoToken => date[t] < token
          BY <1>3, <1>6, <2>4 DEF Remaining
        <4>3. token \in Nat /\ next \in Nat BY <1>5, <1>6 DEF token
        <4>4. \A t \in Threads : date[t] \in Nat BY <1>3
        <4>5. CASE token = NoToken BY <4>1, <4>2, <4>5 DEF Before
        <4>6. CASE token # NoToken
          <5>1. B = Before(token) BY <4>6
          <5>2. B \cap ids = {} BY <4>2, <4>3, <4>4, <4>6, <5>1 DEF Before
          <5>3. Before(token) \subseteq Before(next)
            BY <1>6, <2>4, <4>3, <4>4, <4>6 DEF Before
          <5>4. ids \subseteq Before(next) BY <4>2 DEF Before
          <5> QED BY <4>1, <5>1, <5>2, <5>3, <5>4
        <4> QED BY <4>5, <4>6
      <3>2. Cardinality(B) >= run.job.seen
        <4>1. CASE token = NoToken
          <5>1. run.job.seen = 0
            <6>1. ~NeedsCursorWalk(run.job) /\ ~run.job.done
              BY DEF ReadPage, HasRoomForPage
            <6> QED BY <1>5, <4>1, <6>1 DEF NeedsCursorWalk, token
          <5> QED BY <4>1, <5>1, FS_EmptySet
        <4>2. CASE token # NoToken BY <1>15, <2>4, <4>2 DEF Covers, token
        <4> QED BY <4>1, <4>2
      <3> HIDE DEF B
      <3>3. Cardinality(B \cup ids) = Cardinality(B) + Cardinality(ids)
        BY <1>6, <3>1, SetsAddUp
      <3>4. Before(next) \in SUBSET Threads BY DEF Before
      <3>5. /\ Cardinality(B \cup ids) <= Cardinality(Before(next))
            /\ Cardinality(B \cup ids) \in Nat /\ Cardinality(Before(next)) \in Nat
            /\ Cardinality(B) \in Nat
        BY <3>1, <3>4, ThreadSets
      <3> QED BY <1>5, <1>6, <1>7, <3>2, <3>3, <3>5
    <2>5. ASSUME ~left, NEW t \in Unsaved'
          PROVE  Cardinality(Ahead(t)) >= j.seen
      <3>1. next # NoToken /\ date[t] < next BY <2>2, <2>3, <2>5
      <3>2. Before(next) \in SUBSET Ahead(t) /\ Ahead(t) \in SUBSET Threads
        BY <1>3, <1>6, <1>13, <3>1 DEF Before, Ahead
      <3>3. /\ Cardinality(Before(next)) <= Cardinality(Ahead(t))
            /\ Cardinality(Before(next)) \in Nat /\ Cardinality(Ahead(t)) \in Nat
        BY <3>2, ThreadSets
      <3>4. Cardinality(Before(next)) >= j.seen BY <2>4, <2>5, <3>1
      <3>5. j.seen \in Nat BY <1>5, <1>6, <1>7
      <3> QED BY <3>3, <3>4, <3>5
    <2> QED BY <1>7, <2>2, <2>3, <2>4, <2>5 DEF Covers
  <1>16. slipped \/ Covers(job, owed) BY DEF IInv, CursorsCover
  <1> QED BY <1>9, <1>10, <1>12, <1>14, <1>15, <1>16, QuietStep

LEMMA RejectTokenCovers ==
    ASSUME IInv, Consistent', RejectToken
    PROVE  IInv'
  <1>1. pc = "refill" BY DEF RejectToken, Holds
  <1>2. run \in Memories /\ run.job = job /\ run.job \in Jobs
    BY <1>1, WorkingFacts DEF IInv
  <1> DEFINE j == DropPageToken(run.job)
             memory == [run EXCEPT !.job = j]
  <1>3. /\ j.seen = run.job.seen /\ j.token = NoToken /\ j.done = run.job.done
    BY <1>2, DroppedFacts
  <1>4. pc' = "writing" /\ run' = [memory EXCEPT !.todo = <<"job">>, !.after = "refill"]
    BY DEF RejectToken, Writes, Goes
  <1> HIDE DEF j
  <1>5. run'.job = j /\ run'.todo = <<"job">> BY <1>2, <1>4 DEF Memories
  <1>6. Unsaved' = owed' BY <1>5 DEF Unsaved
  <1>7. UNCHANGED <<date, owed, left, slipped, job>>
    BY DEF RejectToken, Holds, world, observed
  <1>8. slipped \/ (Covers(job, owed) /\ Covers(run.job, owed))
    BY <1>1, UnsavedIsOwed DEF IInv, CursorsCover
  <1>9. Covers(run.job, owed) => Covers(j, owed) BY <1>3 DEF Covers
  <1> QED BY <1>4, <1>5, <1>6, <1>7, <1>8, <1>9, QuietStep

LEMMA StartWalkCovers ==
    ASSUME IInv, Consistent', StartWalk
    PROVE  IInv'
  <1>1. pc = "refill" BY DEF StartWalk, Holds
  <1>2. /\ run.job \in Jobs /\ run.job = job
        /\ run.passed = 0 /\ run.token = NoToken /\ ~run.moved
    BY <1>1, WorkingFacts DEF IInv
  <1>3. /\ UNCHANGED <<date, owed, left, slipped, job>> /\ run' = run /\ pc' = "walk"
    BY DEF StartWalk, Holds, Goes, world, observed
  <1>4. slipped \/ (Covers(job, owed) /\ Covers(run.job, owed))
    BY <1>1, UnsavedIsOwed DEF IInv, CursorsCover
  <1>5. Unsaved' = owed BY <1>3 DEF Unsaved
  <1>6. CursorsCover'
    BY <1>3, <1>4, <1>5 DEF CursorsCover, Covers, Ahead, Before
  <1>7. OwedAreListed' BY <1>3 DEF IInv, OwedAreListed
  <1>8. WalkIsExact'
    <2>1. run.job.seen \in Nat BY <1>2, JobFields
    <2>2. ASSUME ~slipped, ~left, NEW t \in owed
          PROVE  run.passed + Cardinality(Between(t)) >= run.job.seen
      <3>1. Between(t) = Ahead(t) BY <1>2 DEF Between
      <3>2. Cardinality(Ahead(t)) >= run.job.seen BY <1>4, <2>2 DEF Covers
      <3>3. Cardinality(Ahead(t)) \in Nat BY ThreadSets DEF Ahead
      <3> QED BY <1>2, <2>1, <3>1, <3>2, <3>3
    <2> QED BY <1>2, <1>3, <2>1, <2>2 DEF WalkIsExact, Between, Ahead, Before
  <1> QED BY <1>6, <1>7, <1>8 DEF IInv

\* A walk stops before it has counted more than the cursor did, so a thread
\* that is owed is never on a page it has passed; and it ends the search only
\* when nothing is owed.
LEMMA WalkCovers ==
    ASSUME IInv, Consistent', Walk
    PROVE  IInv'
  <1>1. /\ pc = "walk" /\ UNCHANGED <<inputs, queue, job>> /\ UNCHANGED world
        /\ Faultless
    BY DEF Walk, Holds
  <1>2. /\ Consistent /\ TypeOK /\ run \in Memories /\ run.queue = queue
        /\ run.job = job /\ run.job \in Jobs /\ job # NoJob
    BY <1>1, WorkingFacts DEF IInv
  <1>3. /\ date \in [Threads -> 0..MaxDate] /\ owed \in SUBSET Threads
        /\ left \in BOOLEAN /\ slipped \in BOOLEAN
        /\ run.moved \in BOOLEAN /\ run.passed \in Nat /\ run.token \in 0..MaxDate
        /\ run.job.seen \in Nat
        /\ UNCHANGED <<date, owed, left, job>>
    BY <1>1, <1>2, MemoryFields, JobFields DEF TypeOK, world
  <1>4. slipped \/ (Covers(job, owed) /\ Covers(run.job, owed))
    BY <1>1, UnsavedIsOwed DEF IInv, CursorsCover
  <1>5. /\ run.passed <= run.job.seen
        /\ run.token = NoToken => run.passed = 0
        /\ \/ slipped \/ left \/ run.moved
           \/ /\ run.token # NoToken => Cardinality(Before(run.token)) >= run.passed
              /\ \A t \in owed :
                    /\ run.token # NoToken => date[t] < run.token
                    /\ run.passed + Cardinality(Between(t)) >= run.job.seen
    BY <1>1 DEF IInv, WalkIsExact
  \* The cursor is put back where the walk is.
  <1>6. CASE WalkEnds(run.passed, run.token, FALSE)
    <2> DEFINE j == Restored(run.job, run.passed, run.token, FALSE)
    <2>1. FALSE \in BOOLEAN OBVIOUS
    <2>2. pc' = "writing" /\ run'.job = j /\ run'.todo = <<"job">>
      BY <1>1, <1>2, <1>3, <1>6, <2>1, WalkEndsStep
    <2>3. j.seen = run.passed /\ j.token = run.token /\ j.done = FALSE
      BY <1>2, <1>3 DEF Restored, Jobs
    <2> HIDE DEF j
    <2>4. slipped' = (slipped \/ left \/ run.moved) BY <1>6 DEF WalkEnds
    <2>5. Unsaved' = owed' BY <2>2 DEF Unsaved
    <2>6. ASSUME ~slipped, ~left, ~run.moved
          PROVE  Covers(j, owed)
      <3>1. ASSUME NEW t \in owed
            PROVE  Cardinality(Ahead(t)) >= run.passed
        <4>1. Cardinality(Ahead(t)) >= run.job.seen BY <1>4, <2>6 DEF Covers
        <4>2. Cardinality(Ahead(t)) \in Nat BY ThreadSets DEF Ahead
        <4> QED BY <1>3, <1>5, <4>1, <4>2
      <3> QED BY <1>5, <2>3, <2>6, <3>1 DEF Covers
    <2> QED BY <1>3, <1>4, <2>2, <2>4, <2>5, <2>6, QuietStep
  \* What a page that fits the count has on it.
  <1>7. ASSUME NEW page \in Pages(run.token),
               FitsTarget(run.passed, Cardinality(page.ids)),
               ~slipped, ~left, ~run.moved, NEW t \in owed
        PROVE  /\ t \in Remaining(run.token) /\ t \notin page.ids
               /\ Between(t) \in SUBSET Remaining(run.token)
    <2>1. t \in Threads /\ date[t] > 0 BY <1>3 DEF IInv, OwedAreListed
    <2>2. t \in Remaining(run.token) BY <1>5, <1>7, <2>1 DEF Remaining
    <2>3. Between(t) \in SUBSET Remaining(run.token)
      BY <1>3, <2>1 DEF Between, Ahead, Remaining
    <2>4. SUFFICES ASSUME t \in page.ids
                   PROVE  FALSE
      BY <2>2, <2>3
    <2>5. /\ \A u \in Remaining(run.token) : date[u] > date[t] => u \in page.ids
          /\ page.ids \in SUBSET Threads /\ Cardinality(page.ids) \in Nat
      BY <1>3, <2>4, PageFacts
    <2>6. Between(t) \cup {t} \in SUBSET page.ids
      BY <2>3, <2>4, <2>5 DEF Between, Ahead
    <2>7. Between(t) \in SUBSET Threads /\ t \notin Between(t)
      BY <1>3, <2>1 DEF Between, Ahead
    <2>8. IsFiniteSet(Between(t)) /\ Cardinality(Between(t)) \in Nat BY <2>7, ThreadSets
    <2>9. Cardinality(Between(t) \cup {t}) = Cardinality(Between(t)) + 1
      BY <2>7, <2>8, FS_AddElement
    <2>10. Cardinality(Between(t) \cup {t}) <= Cardinality(page.ids)
      BY <2>5, <2>6, ThreadSets
    <2>11. run.passed + Cardinality(Between(t)) >= run.job.seen BY <1>5, <1>7
    <2>12. run.passed + Cardinality(page.ids) <= run.job.seen
      BY <1>7 DEF FitsTarget
    <2> QED BY <1>3, <2>5, <2>8, <2>9, <2>10, <2>11, <2>12
  \* The results end at or before the count.
  <1>8. ASSUME NEW page \in Pages(run.token),
               FitsTarget(run.passed, Cardinality(page.ids)), page.next = NoToken,
               WalkEnds(run.passed + Cardinality(page.ids), NoToken, TRUE)
        PROVE  IInv'
    <2> DEFINE passed == run.passed + Cardinality(page.ids)
               j == Restored(run.job, passed, NoToken, TRUE)
    <2>1. Cardinality(page.ids) \in Nat /\ page.ids = Remaining(run.token)
      BY <1>3, <1>8, PageFacts
    <2>2. passed \in Nat /\ TRUE \in BOOLEAN /\ NoToken \in 0..MaxDate
      BY <1>3, <2>1, ManualJobAssumption DEF NoToken
    <2>3. WalkEnds(passed, NoToken, TRUE) BY <1>8
    <2> HIDE DEF passed
    <2>4. pc' = "writing" /\ run'.job = j /\ run'.todo = <<"job">>
      BY <1>1, <1>2, <2>2, <2>3, WalkEndsStep
    <2>5. j.token = NoToken BY <1>2, <2>2, RestoredFacts
    <2> HIDE DEF j
    <2>6. slipped' = (slipped \/ left \/ run.moved) BY <1>8 DEF WalkEnds
    <2>7. Unsaved' = owed' BY <2>4 DEF Unsaved
    <2>8. ASSUME ~slipped, ~left, ~run.moved
          PROVE  Covers(j, owed)
      <3>1. owed = {} BY <1>7, <1>8, <2>1, <2>8
      <3> QED BY <2>5, <3>1 DEF Covers
    <2> QED BY <1>3, <1>4, <2>4, <2>6, <2>7, <2>8, QuietStep
  \* The walk goes on behind the page.
  <1>9. ASSUME NEW page \in Pages(run.token),
               FitsTarget(run.passed, Cardinality(page.ids)), page.next # NoToken,
               Goes("walk", [run EXCEPT !.passed = run.passed + Cardinality(page.ids),
                                        !.token = page.next]),
               UNCHANGED observed
        PROVE  IInv'
    <2> DEFINE ids == page.ids
               next == page.next
               passed == run.passed + Cardinality(ids)
    <2>1. /\ ids \in SUBSET Remaining(run.token) /\ ids \in SUBSET Threads
          /\ Cardinality(ids) \in Nat /\ next \in 0..MaxDate
          /\ ids = {t \in Remaining(run.token) : date[t] >= next}
          /\ run.token # NoToken => next < run.token
      BY <1>3, <1>9, PageFacts
    <2>2. passed \in Nat /\ passed <= run.job.seen
      BY <1>3, <1>9, <2>1 DEF FitsTarget
    <2>3. pc' = "walk" /\ run' = [run EXCEPT !.passed = passed, !.token = next]
      BY <1>9 DEF Goes
    <2>4. next # NoToken BY <1>9
    <2>5. \A t \in owed : ~slipped /\ ~left /\ ~run.moved =>
              /\ t \in Remaining(run.token) /\ t \notin ids
              /\ Between(t) \in SUBSET Remaining(run.token)
      BY <1>7, <1>9
    <2>6. passed = run.passed + Cardinality(ids) OBVIOUS
    <2> HIDE DEF passed, ids, next
    <2>7. /\ run'.passed = passed /\ run'.token = next /\ run'.job = run.job
          /\ run'.moved = run.moved
      BY <1>2, <2>3 DEF Memories
    <2>8. slipped' = slipped BY <1>9 DEF observed
    <2>9. OwedAreListed' BY <1>3 DEF IInv, OwedAreListed
    <2>10. CursorsCover'
      <3>1. Unsaved' = owed BY <1>3, <2>3 DEF Unsaved
      <3> QED BY <1>3, <1>4, <2>7, <2>8, <3>1 DEF CursorsCover, Covers, Ahead, Before
    <2>11. ASSUME ~slipped, ~left, ~run.moved
           PROVE  Cardinality(Before(next)) >= passed
      <3> DEFINE B == IF run.token = NoToken THEN {} ELSE Before(run.token)
      <3>1. B \in SUBSET Threads BY DEF Before
      <3>2. \A t \in ids : /\ t \in Threads /\ date[t] \in Nat /\ date[t] >= next
                           /\ run.token # NoToken => date[t] < run.token
        BY <1>3, <2>1 DEF Remaining
      <3>3. B \cap ids = {} /\ B \cup ids \in SUBSET Before(next)
        <4>1. CASE run.token = NoToken BY <3>2, <4>1 DEF Before
        <4>2. CASE run.token # NoToken
          <5>1. B = Before(run.token) BY <4>2
          <5>2. B \cap ids = {} BY <1>3, <3>2, <4>2, <5>1 DEF Before
          <5>3. Before(run.token) \subseteq Before(next)
            BY <1>3, <2>1, <4>2 DEF Before
          <5>4. ids \subseteq Before(next) BY <3>2 DEF Before
          <5> QED BY <5>1, <5>2, <5>3, <5>4
        <4> QED BY <4>1, <4>2
      <3>4. Cardinality(B) >= run.passed
        <4>1. CASE run.token = NoToken BY <1>5, <4>1, FS_EmptySet
        <4>2. CASE run.token # NoToken BY <1>5, <2>11, <4>2
        <4> QED BY <4>1, <4>2
      <3> HIDE DEF B
      <3>5. Cardinality(B \cup ids) = Cardinality(B) + Cardinality(ids)
        BY <2>1, <3>1, <3>3, SetsAddUp
      <3>6. Before(next) \in SUBSET Threads BY DEF Before
      <3>7. /\ Cardinality(B \cup ids) <= Cardinality(Before(next))
            /\ Cardinality(B \cup ids) \in Nat /\ Cardinality(Before(next)) \in Nat
            /\ Cardinality(B) \in Nat
        BY <3>1, <3>3, <3>6, ThreadSets
      <3> QED BY <1>3, <2>1, <2>6, <3>4, <3>5, <3>7
    <2>12. ASSUME ~slipped, ~left, ~run.moved, NEW t \in owed
           PROVE  /\ date[t] < next
                  /\ passed + Cardinality({u \in Ahead(t) : date[u] < next})
                        >= run.job.seen
      <3>1. /\ t \in Remaining(run.token) /\ t \notin ids /\ t \in Threads
            /\ Between(t) \in SUBSET Remaining(run.token)
        BY <1>3, <2>5, <2>12
      <3>2. date[t] < next
        <4>1. ~(date[t] >= next) BY <2>1, <3>1
        <4>2. date[t] \in Nat /\ next \in Nat BY <1>3, <2>1, <3>1
        <4> QED BY <4>1, <4>2
      <3> DEFINE C == {u \in Ahead(t) : date[u] < next}
      <3>3. Between(t) \in SUBSET (C \cup ids)
        <4>1. ASSUME NEW u \in Between(t), u \notin ids
              PROVE  u \in C
          <5>1. u \in Ahead(t) /\ u \in Remaining(run.token) /\ u \in Threads
            BY <3>1 DEF Between, Ahead
          <5>2. ~(date[u] >= next) BY <2>1, <4>1, <5>1
          <5>3. date[u] \in Nat /\ next \in Nat BY <1>3, <2>1, <5>1
          <5> QED BY <5>1, <5>2, <5>3
        <4> QED BY <4>1
      <3>4. C \in SUBSET Threads BY DEF Ahead
      <3> HIDE DEF C
      <3>5. C \cup ids \in SUBSET Threads BY <2>1, <3>4
      <3>6. /\ Cardinality(Between(t)) <= Cardinality(C \cup ids)
            /\ Cardinality(Between(t)) \in Nat /\ Cardinality(C \cup ids) \in Nat
            /\ Cardinality(C) \in Nat
        BY <3>3, <3>4, <3>5, ThreadSets
      <3>7. Cardinality(C \cup ids) <= Cardinality(C) + Cardinality(ids)
        BY <2>1, <3>4, SetsAddUp
      <3>8. run.passed + Cardinality(Between(t)) >= run.job.seen BY <1>5, <2>12
      <3>9. passed + Cardinality(C) >= run.job.seen
        BY <1>3, <2>1, <2>6, <3>6, <3>7, <3>8
      <3> QED BY <3>2, <3>9 DEF C
    <2>13. WalkIsExact'
      <3>1. \A t \in owed : {u \in Ahead(t) : next = NoToken \/ date[u] < next}
                                = {u \in Ahead(t) : date[u] < next}
        BY <2>4
      <3> QED BY <1>3, <2>2, <2>3, <2>4, <2>7, <2>8, <2>11, <2>12, <3>1
              DEF WalkIsExact, Between, Ahead, Before
    <2> QED BY <2>9, <2>10, <2>13 DEF IInv
  <1>10. \/ WalkEnds(run.passed, run.token, FALSE)
         \/ \E page \in Pages(run.token) :
              /\ FitsTarget(run.passed, Cardinality(page.ids)) /\ page.next = NoToken
              /\ WalkEnds(run.passed + Cardinality(page.ids), NoToken, TRUE)
         \/ \E page \in Pages(run.token) :
              /\ FitsTarget(run.passed, Cardinality(page.ids)) /\ page.next # NoToken
              /\ Goes("walk", [run EXCEPT !.passed = run.passed + Cardinality(page.ids),
                                          !.token = page.next])
              /\ UNCHANGED observed
    BY DEF Walk
  <1> QED BY <1>6, <1>8, <1>9, <1>10

\* What is written was covered before: the queue settles what was unsaved, and
\* the job that is stored is the one in memory.
LEMMA WriteCovers ==
    ASSUME IInv, Consistent', Write
    PROVE  IInv'
  <1> DEFINE key == Head(run.todo)
             rest == Tail(run.todo)
  <1>1. Consistent BY DEF IInv
  <1>2. /\ pc = "writing"
        /\ queue' = IF key = "queue" THEN run.queue ELSE queue
        /\ job' = CASE key \in {"job", "new"} -> run.job
                    [] key = "delete" -> NoJob
                    [] OTHER -> job
    BY <1>1, WriteFacts
  <1>3. /\ pc' # "walk" /\ (run'.job = run.job \/ run'.job = NoJob)
        /\ rest # <<>> => pc' = "writing" /\ run'.job = run.job /\ run'.todo = rest
    <2>1. run.after \in {"idle", "load", "refill"}
      BY <1>1, MemoryFields DEF Consistent, TypeOK
    <2> QED BY <1>1, <2>1, WriteFacts, IdleFacts
  <1>4. /\ date' = date
        /\ IF key = "new"
           THEN owed' = {t \in Threads : date[t] > 0} /\ left' = FALSE /\ slipped' = FALSE
           ELSE owed' = owed \ Queued(queue') /\ UNCHANGED <<left, slipped>>
    BY DEF Write
  <1>5. /\ slipped \/ (Covers(job, owed) /\ Covers(run.job, Unsaved))
        /\ owed \in SUBSET Threads /\ date \in [Threads -> 0..MaxDate]
    BY DEF IInv, Consistent, TypeOK, CursorsCover
  <1>6. CASE key # "new"
    <2>1. owed' \in SUBSET owed /\ owed' \in SUBSET Unsaved
          /\ owed' \in SUBSET Threads
      BY <1>2, <1>4, <1>5, <1>6 DEF Unsaved
    <2>2. Unsaved' \in SUBSET owed' BY UnsavedIsOwed
    <2>3. Unsaved' \in SUBSET Unsaved /\ Unsaved' \in SUBSET Threads BY <2>1, <2>2
    <2>4. job' = job \/ job' = run.job \/ job' = NoJob BY <1>2
    <2> HIDE DEF key, rest
    <2>5. slipped \/ Covers(job', owed')
      <3>1. Covers(NoJob, owed') BY <2>1, NoJobCovers
      <3>2. slipped \/ (Covers(job, owed') /\ Covers(run.job, owed'))
        BY <1>5, <2>1, CoversFewer
      <3> QED BY <2>4, <3>1, <3>2
    <2>6. slipped \/ Covers(run'.job, Unsaved')
      <3>1. Covers(NoJob, Unsaved') BY <2>3, NoJobCovers
      <3>2. slipped \/ Covers(run.job, Unsaved') BY <1>5, <2>3, CoversFewer
      <3> QED BY <1>3, <3>1, <3>2
    <2> QED BY <1>3, <1>4, <1>6, <2>1, <2>5, <2>6, QuietStep
  <1>7. CASE key = "new"
    <2>1. StartsJob
      <3>1. SavesWork \/ DropsJob \/ StartsJob \/ ForgetsInputs
        BY <1>1, <1>2 DEF Consistent, WritesArePlanned
      <3> QED BY <1>7, <3>1, PlansOfWork, PlansOfDrops, PlansOfInputs
              DEF SavesWork, DropsJob, ForgetsInputs, Inputs
    <2>2. PICK moves \in BOOLEAN : run.job = NewJob(moves) BY <2>1 DEF StartsJob
    <2>3. /\ run.job.seen = 0 /\ run.job.token = NoToken /\ ~run.job.done
      BY <2>2, NewJobFacts
    <2>4. rest # <<>> /\ Head(rest) # "queue"
      BY <1>7, <2>1, PlansOfStarts DEF StartsJob
    <2>5. job' = run.job /\ run'.job = run.job /\ Unsaved' = owed' /\ ~left'
      BY <1>2, <1>3, <1>4, <1>7, <2>4 DEF Unsaved
    <2>6. \A t \in owed' : /\ date'[t] > 0
                           /\ Cardinality({u \in Threads : date'[u] > date'[t]}) >= 0
      <3>1. ASSUME NEW t \in owed'
            PROVE  Cardinality({u \in Threads : date'[u] > date'[t]}) >= 0
        BY ThreadSets
      <3> QED BY <1>4, <1>7, <3>1
    <2>7. OwedAreListed' BY <2>6 DEF OwedAreListed
    <2>8. CursorsCover'
      BY <2>3, <2>5, <2>6 DEF CursorsCover, Covers, Ahead
    <2>9. WalkIsExact' BY <1>3 DEF WalkIsExact
    <2> QED BY <2>7, <2>8, <2>9 DEF IInv
  <1> QED BY <1>6, <1>7

-----------------------------------------------------------------------------
(* The theorems.                                                           *)

LEMMA IInvStep ==
    ASSUME IInv, [Next]_vars
    PROVE  IInv'
  <1>1. Consistent' BY ConsistentStep DEF IInv
  <1>2. CASE \E t \in Threads : MailArrives(t) BY <1>1, <1>2, MailArrivesCovers
  <1>3. CASE \E t \in Threads : ThreadLeavesSearch(t)
    BY <1>1, <1>3, ThreadLeavesCovers
  <1>4. CASE \/ \E moves, replace \in BOOLEAN : SetInputs(moves, replace)
             \/ DeletedByHand
             \/ \E t \in Threads : Scheduled(t)
             \/ StartManualRun \/ CancelManualRun
             \/ \E taken \in SUBSET Threads : BeginWork(taken)
             \/ LeaveJob \/ Crash \/ EndRefill
             \/ ProcessChunk \/ StopWork \/ CompleteJob
    BY <1>1, <1>4, PlainSteps
  <1>5. CASE ReadPage BY <1>1, <1>5, ReadPageCovers
  <1>6. CASE RejectToken BY <1>1, <1>6, RejectTokenCovers
  <1>7. CASE StartWalk BY <1>1, <1>7, StartWalkCovers
  <1>8. CASE Walk BY <1>1, <1>8, WalkCovers
  <1>9. CASE Write BY <1>1, <1>9, WriteCovers
  <1>10. CASE UNCHANGED vars
    BY <1>1, <1>10 DEF vars, IInv, OwedAreListed, CursorsCover, Covers, Ahead, Before,
                       Unsaved, Queued, WalkIsExact, Between
  <1> QED BY <1>2, <1>3, <1>4, <1>5, <1>6, <1>7, <1>8, <1>9, <1>10 DEF Next

LEMMA InitIInv ==
    ASSUME Init
    PROVE  IInv
  <1>1. Consistent BY InitConsistent
  <1>2. owed = {} /\ pc = "idle" /\ job = NoJob /\ run = Idle BY DEF Init
  <1>3. run.job = NoJob BY <1>2 DEF Idle
  <1>4. Unsaved \in SUBSET Threads /\ owed \in SUBSET Threads BY <1>2 DEF Unsaved
  <1>5. CursorsCover BY <1>2, <1>3, <1>4, NoJobCovers DEF CursorsCover
  <1> QED BY <1>1, <1>2, <1>5 DEF IInv, OwedAreListed, WalkIsExact

\* The inductive invariant holds of every behaviour.
THEOREM Invariant == Spec => []IInv
  <1>1. Init => IInv BY InitIInv
  <1>2. IInv /\ [Next]_vars => IInv' BY IInvStep
  <1> QED BY <1>1, <1>2, PTL DEF Spec

\* Every job that startManualJob, refillManualQueue and applyManualOutcomes
\* save can be loaded by manualJobCodec, and the queue stays within both caps,
\* for any page size, caps and number of threads.
THEOREM TypeCorrectness == Spec => []TypeOK
  <1>1. IInv => TypeOK BY DEF IInv, Consistent
  <1> QED BY <1>1, Invariant, PTL

\* Wherever an execution ends between two of its writes, queued manual items
\* have a job that will finish them, unless the user deleted it by hand.
THEOREM ManualItemsAreNotStranded == Spec => []ManualWorkHasAJob
  <1>1. IInv => ManualWorkHasAJob BY DEF IInv, Consistent
  <1> QED BY <1>1, Invariant, PTL

\* A queued manual item moves its thread only if the stored job does: items
\* of a replaced, cancelled or deleted job are dropped before the next is
\* stored.
THEOREM MovesAreTheJobs == Spec => []MovesFollowTheJob
  <1>1. IInv => MovesFollowTheJob BY DEF IInv, Consistent
  <1> QED BY <1>1, Invariant, PTL

\* A job that completes has queued every thread that was in its search from
\* its start on, whatever page tokens Gmail rejected and wherever executions
\* ended, unless a walk counted on a search whose threads had left or moved.
THEOREM SearchIsCovered == Spec => []JobCoversItsSearch
  <1>1. ASSUME IInv, pc = "writing", run.todo = <<"delete">>, run.job.done
        PROVE  owed = {} \/ slipped
    <2>1. Head(run.todo) # "queue" BY <1>1
    <2>2. Unsaved = owed BY <2>1 DEF Unsaved
    <2> QED BY <1>1, <2>2 DEF IInv, CursorsCover, Covers
  <1>2. IInv => JobCoversItsSearch BY <1>1 DEF JobCoversItsSearch
  <1> QED BY <1>2, Invariant, PTL

\* MANUAL_QUERY is deleted only after the job that it asks for was stored, so
\* no request is lost to an execution that ends early.
THEOREM RequestsAreKept == Spec => RequestsBecomeJobs
  <1>1. ASSUME IInv, [Next]_vars, inputs.query, ~inputs'.query
        PROVE  job # NoJob /\ job' = job
    <2>1. Write
      <3>1. ~UNCHANGED inputs BY <1>1
      <3>2. ~\E moves, replace \in BOOLEAN : SetInputs(moves, replace)
        BY <1>1 DEF SetInputs, IInv, Consistent, TypeOK, Inputs
      <3> QED BY <1>1, <3>1, <3>2
          DEF Next, vars, MailArrives, ThreadLeavesSearch, DeletedByHand, Scheduled,
              StartManualRun, CancelManualRun, BeginWork, LeaveJob, EndRefill, ReadPage,
              RejectToken, StartWalk, Walk, ProcessChunk, StopWork, CompleteJob, Crash,
              Holds
    <2> DEFINE key == Head(run.todo)
    <2>2. /\ pc = "writing"
          /\ inputs' = IF key \in Inputs THEN [inputs EXCEPT ![key] = FALSE] ELSE inputs
          /\ job' = CASE key \in {"job", "new"} -> run.job
                      [] key = "delete" -> NoJob
                      [] OTHER -> job
      BY <2>1 DEF Write
    <2>3. key \in Inputs BY <1>1, <2>2
    <2>4. ForgetsInputs
      <3>1. SavesWork \/ DropsJob \/ StartsJob \/ ForgetsInputs
        BY <1>1, <2>2 DEF IInv, Consistent, WritesArePlanned
      <3>2. key \notin {"queue", "job", "new", "delete"} BY <2>3 DEF Inputs
      <3> QED BY <3>1, <3>2, PlansOfWork, PlansOfDrops, PlansOfStarts
              DEF SavesWork, DropsJob, StartsJob
    <2> HIDE DEF key
    <2>5. job' = job BY <2>2, <2>3 DEF Inputs
    <2> QED BY <2>4, <2>5 DEF ForgetsInputs
  <1>2. IInv /\ [Next]_vars =>
            [inputs.query /\ ~inputs'.query => job # NoJob /\ job' = job]_vars
    BY <1>1
  <1> QED BY <1>2, Invariant, PTL DEF Spec, RequestsBecomeJobs

=============================================================================
