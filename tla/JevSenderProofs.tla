--------------------------- MODULE JevSenderProofs ---------------------------
(***************************************************************************)
(* Proofs about JevSender: type correctness, the daily budget, the run's   *)
(* deadline, and that failures are earned and a refusal ends the sending.  *)
(***************************************************************************)
EXTENDS JevSender, TLAPS, FiniteSetTheorems, FunctionTheorems, WellFoundedInduction

-----------------------------------------------------------------------------
(* The inductive invariant.                                                *)

Entries == [outcome : {None, "untouched", "classified", "marked", "struck"},
            tokens : 0..MaxTokens]

Waiting == {requests[i] : i \in {j \in DOMAIN requests : j >= from}}
Later == {requests[i] : i \in {j \in DOMAIN requests : j >= from + BatchSize}}

\* The variables that TypeOK leaves out, and what is empty between the calls.
CallIsShaped ==
    /\ requests \in Seq(Threads) /\ from >= 1
    /\ \A i, j \in DOMAIN requests : requests[i] = requests[j] => i = j
    /\ \A t \in InCall : entries[t] \in Entries
    /\ slow \in BOOLEAN /\ over \in BOOLEAN /\ faults \in Nat
    /\ pc \in {"idle", "chunk"} => requests = <<>> /\ from = 1 /\ stopped = None
    /\ pc \in {"idle", "chunk"} => ~over
    /\ pc # "round" => pending = {}
    /\ pending \subseteq Batch

\* A request has no entry before its last round is over.
EntriesAreLast ==
    /\ \A t \in pending : entries[t] = NoEntry
    /\ pc = "batch" => \A t \in Waiting : entries[t] = NoEntry
    /\ pc \in {"round", "after"} => \A t \in Later : entries[t] = NoEntry

\* A failure in an entry is the thread's own.
IsEarned(t) ==
    /\ tries[t].class \in {"final", "retryable"}
    /\ tries[t].class = "retryable" => tries[t].count = MaxAttempts
    /\ tries[t].down => tries[t].alone

EntriesAreEarned ==
    \A t \in InCall : entries[t].outcome \in {"marked", "struck"} => IsEarned(t)

\* A refusal is still on its way to the controller.
RefusalIsKept == over => pc \in {"after", "settle"} /\ stopped \notin {None, "deadline"}

\* A round that begins has the time that was estimated for it.
RoundFits == pc = "round" => remaining >= estimate \/ slow

Load == BatchSize * MaxTokens
Debt == faults * Load

StoredFor(d) == IF stored.day = d THEN stored.tokens ELSE 0

\* The budget in memory is the stored one, or that of a later day.
BudgetIsStored ==
    /\ pc \in {"batch", "round", "after"} =>
          /\ stored.day <= budget.day /\ budget.day <= day
          /\ budget.tokens = StoredFor(budget.day)
    /\ pc \in {"round", "after"} => budget.tokens < DailyTokenBudget

\* The tokens of the batch that is being sent, of which nothing is saved yet.
Unsaved(d) == IF pc \in {"round", "after"} /\ d = budget.day THEN BatchTokens(Batch) ELSE 0

\* What is billed and not saved is in the batch being sent or was lost with one.
TokensAreSaved ==
    \A d \in 0..MaxDay : stored.day <= d => billed[d] <= StoredFor(d) + Debt + Unsaved(d)

IInv ==
    /\ TypeOK /\ CallIsShaped
    /\ EntriesAreLast /\ EntriesAreEarned /\ RefusalIsKept
    /\ DeadlineHolds /\ RoundFits
    /\ BudgetIsStored /\ TokensAreSaved /\ DailyBudgetHolds

-----------------------------------------------------------------------------
(* The constants, sums of tokens, and the smallest and the largest of a    *)
(* set of numbers.                                                         *)

LEMMA ConstantTypes ==
    /\ Threads \subseteq Nat /\ IsFiniteSet(Threads)
    /\ ChunkSize \in Nat \ {0} /\ BatchSize \in Nat \ {0} /\ MaxAttempts \in Nat \ {0}
    /\ MaxStrikes \in Nat \ {0} /\ DailyTokenBudget \in Nat \ {0} /\ MaxTokens \in Nat \ {0}
    /\ InitialEstimate \in Nat \ {0} /\ BaseDelay \in Nat \ {0} /\ MaxBackoff \in Nat \ {0}
    /\ SoftLimit \in Nat \ {0} /\ MaxRound \in Nat \ {0}
    /\ MinChunkStart \in Nat /\ MaxRetryAfter \in Nat /\ MaxRead \in Nat /\ MaxDay \in Nat
    /\ MaxFaults \in Nat /\ Waits \subseteq Nat
  BY SenderAssumption DEF SenderAssumption

LEMMA MinOfTwo ==
    ASSUME NEW a \in Int, NEW b \in Int
    PROVE  /\ Min({a, b}) \in {a, b}
           /\ Min({a, b}) <= a /\ Min({a, b}) <= b
  <1>1. \E x \in {a, b} : \A y \in {a, b} : x =< y
    <2>1. CASE a =< b
      BY <2>1
    <2>2. CASE ~(a =< b)
      BY <2>2
    <2> QED BY <2>1, <2>2
  <1> QED BY <1>1 DEF Min

\* A bounded set of naturals has a largest element.
LEMMA MaxOfBounded ==
    ASSUME NEW S \in SUBSET Nat, S # {}, NEW n \in Nat, \A s \in S : s <= n
    PROVE  /\ Max(S) \in S
           /\ \A s \in S : s <= Max(S)
  <1> DEFINE R == OpToRel(<, Nat)
             T == {n - s : s \in S}
  <1>1. T \subseteq Nat /\ T # {}
    <2>1. \A s \in S : n - s \in Nat
      OBVIOUS
    <2>2. PICK s \in S : TRUE
      OBVIOUS
    <2>3. n - s \in T
      OBVIOUS
    <2> QED BY <2>1, <2>3
  <1>2. PICK k \in T : \A y \in T : <<y, k>> \notin R
    <2> HIDE DEF T, R
    <2>1. IsWellFoundedOn(R, Nat)
      BY NatLessThanWellFounded DEF R
    <2> QED BY <1>1, <2>1, WFMin
  <1>3. \A y \in T : ~(y < k)
    <2> SUFFICES ASSUME NEW y \in T, y < k PROVE FALSE
      OBVIOUS
    <2>1. <<y, k>> \in Nat \X Nat
      BY <1>1
    <2> HIDE DEF T
    <2>2. <<y, k>> \in R
      BY <2>1 DEF OpToRel
    <2> QED BY <1>2, <2>2
  <1>4. PICK x \in S : k = n - x
    OBVIOUS
  <1>5. \A s \in S : x >= s
    <2> SUFFICES ASSUME NEW s \in S PROVE x >= s
      OBVIOUS
    <2>1. n - s \in T
      OBVIOUS
    <2>2. ~(n - s < n - x)
      BY <1>3, <1>4, <2>1
    <2> QED BY <2>2
  <1>6. \E z \in S : \A y \in S : z >= y
    BY <1>5
  <1>7. Max(S) \in S /\ \A y \in S : Max(S) >= y
    BY <1>6 DEF Max
  <1> QED BY <1>7

\* The sum of the tokens of finitely many threads, each of which has MaxTokens
\* at most.
LEMMA TokensAreBounded ==
    ASSUME NEW f, NEW S, IsFiniteSet(S)
    PROVE  /\ Tokens(f, S) \in Nat
           /\ Tokens(f, S) <= Cardinality(S) * MaxTokens
           /\ IsFiniteSet({c \in S \X (1..MaxTokens) : c[2] <= f[c[1]].tokens})
  <1> DEFINE P == {c \in S \X (1..MaxTokens) : c[2] <= f[c[1]].tokens}
  <1>1. IsFiniteSet(1..MaxTokens) /\ Cardinality(1..MaxTokens) = MaxTokens
    BY FS_Interval, ConstantTypes
  <1>2. /\ IsFiniteSet(S \X (1..MaxTokens))
        /\ Cardinality(S \X (1..MaxTokens)) = Cardinality(S) * MaxTokens
    BY <1>1, FS_Product
  <1>3. P \in SUBSET (S \X (1..MaxTokens))
    OBVIOUS
  <1> HIDE DEF P
  <1>4. IsFiniteSet(P) /\ Cardinality(P) <= Cardinality(S \X (1..MaxTokens))
    BY <1>2, <1>3, FS_Subset
  <1>5. Cardinality(P) \in Nat
    BY <1>4, FS_CardinalityType
  <1> QED BY <1>2, <1>4, <1>5 DEF P, Tokens

LEMMA NoTokens ==
    ASSUME NEW f, NEW S, \A t \in S : f[t].tokens = 0
    PROVE  Tokens(f, S) = 0
  <1>1. {c \in S \X (1..MaxTokens) : c[2] <= f[c[1]].tokens} = {}
    BY ConstantTypes
  <1> QED BY <1>1, FS_EmptySet DEF Tokens

\* What is added to a sum for the threads that had nothing in it.
LEMMA TokensAreAdded ==
    ASSUME NEW f, NEW g, NEW h, NEW S, NEW T \in SUBSET S, IsFiniteSet(S),
           \A t \in T : f[t].tokens = 0 /\ h[t].tokens = g[t].tokens,
           \A t \in S \ T : h[t].tokens = f[t].tokens
    PROVE  Tokens(h, S) = Tokens(f, S) + Tokens(g, T)
  <1> DEFINE F == {c \in S \X (1..MaxTokens) : c[2] <= f[c[1]].tokens}
             G == {c \in T \X (1..MaxTokens) : c[2] <= g[c[1]].tokens}
             H == {c \in S \X (1..MaxTokens) : c[2] <= h[c[1]].tokens}
  <1>1. IsFiniteSet(T)
    BY FS_Subset
  <1>2. IsFiniteSet(F) /\ IsFiniteSet(G)
    BY <1>1, TokensAreBounded
  <1>3. \A c \in F : c[1] \notin T
    BY ConstantTypes
  <1>4. F \cap G = {}
    BY <1>3
  <1>5. H = F \cup G
    <2>1. \A c \in S \X (1..MaxTokens) : c \in H <=> c \in F \/ c \in G
      <3> SUFFICES ASSUME NEW t \in S, NEW n \in 1..MaxTokens
                   PROVE  <<t, n>> \in H <=> <<t, n>> \in F \/ <<t, n>> \in G
        OBVIOUS
      <3>1. CASE t \in T
        BY <3>1, ConstantTypes
      <3>2. CASE t \notin T
        BY <3>2
      <3> QED BY <3>1, <3>2
    <2>2. H \subseteq S \X (1..MaxTokens)
      OBVIOUS
    <2>3. F \cup G \subseteq S \X (1..MaxTokens)
      OBVIOUS
    <2> HIDE DEF F, G, H
    <2> QED BY <2>1, <2>2, <2>3
  <1> HIDE DEF F, G, H
  <1>6. Cardinality(F \cup G) = Cardinality(F) + Cardinality(G) - Cardinality(F \cap G)
    BY <1>2, FS_Union
  <1>7. Cardinality(F \cap G) = 0 /\ Cardinality(F) \in Nat /\ Cardinality(G) \in Nat
    BY <1>2, <1>4, FS_EmptySet, FS_CardinalityType
  <1>8. /\ Tokens(f, S) = Cardinality(F) /\ Tokens(g, T) = Cardinality(G)
        /\ Tokens(h, S) = Cardinality(H)
    BY DEF F, G, H, Tokens
  <1> QED BY <1>5, <1>6, <1>7, <1>8

\* A batch is small, and part of the call.
LEMMA BatchIsSmall ==
    ASSUME requests \in Seq(Threads), from \in Nat, from >= 1
    PROVE  /\ IsFiniteSet(Batch) /\ Cardinality(Batch) <= BatchSize
           /\ Batch \subseteq InCall /\ Batch \subseteq Waiting
           /\ \A i \in DOMAIN requests :
                 i >= from => requests[i] \in Batch \/ requests[i] \in Later
  <1>0. BatchSize \in Int /\ BatchSize >= 1 /\ from + BatchSize - 1 \in Int
    BY ConstantTypes
  <1>1. Len(requests) \in Nat /\ DOMAIN requests = 1..Len(requests)
    OBVIOUS
  <1>2. PICK end \in Int :
           /\ end = Min({from + BatchSize - 1, Len(requests)})
           /\ end <= from + BatchSize - 1 /\ end <= Len(requests)
           /\ end \in {from + BatchSize - 1, Len(requests)}
    <2> DEFINE a == from + BatchSize - 1
               b == Len(requests)
    <2>1. a \in Int /\ b \in Int
      BY <1>0, <1>1
    <2> HIDE DEF a, b
    <2>2. Min({a, b}) \in {a, b} /\ Min({a, b}) <= a /\ Min({a, b}) <= b
      BY <2>1, MinOfTwo
    <2>3. Min({a, b}) \in Int
      BY <2>1, <2>2
    <2> QED BY <2>2, <2>3 DEF a, b
  <1> DEFINE f == [i \in from..end |-> requests[i]]
  <1>3. Batch = {requests[i] : i \in from..end}
    BY <1>2 DEF Batch
  <1>4. IsFiniteSet(from..end) /\ Cardinality(from..end) <= BatchSize
    <2>1. from \in Int /\ end \in Int
      OBVIOUS
    <2>2. /\ IsFiniteSet(from..end)
          /\ Cardinality(from..end) = IF from > end THEN 0 ELSE end - from + 1
      BY <2>1, FS_Interval
    <2> QED BY <1>0, <1>2, <2>2
  <1>5. f \in Surjection(from..end, Batch)
    BY <1>3 DEF Surjection
  <1> HIDE DEF f
  <1>6. IsFiniteSet(Batch) /\ Cardinality(Batch) <= Cardinality(from..end)
    BY <1>4, <1>5, FS_Surjection
  <1>7. Cardinality(Batch) <= BatchSize
    BY <1>0, <1>4, <1>6, FS_CardinalityType
  <1>8. from..end \subseteq DOMAIN requests
    BY <1>1, <1>2
  <1>9. Batch \subseteq InCall /\ Batch \subseteq Waiting
    BY <1>3, <1>8 DEF InCall, Waiting
  <1>10. ASSUME NEW i \in DOMAIN requests, i >= from
         PROVE  requests[i] \in Batch \/ requests[i] \in Later
    <2>1. CASE i <= end
      BY <1>1, <1>2, <1>3, <1>10, <2>1
    <2>2. CASE i > end
      <3>1. i >= from + BatchSize
        BY <1>0, <1>1, <1>2, <2>2
      <3> QED BY <3>1 DEF Later
    <2> QED BY <2>1, <2>2, <1>1, <1>2
  <1> QED BY <1>6, <1>7, <1>9, <1>10

\* The tokens of a batch are within what is lost when it is not saved.
LEMMA BatchIsALoad ==
    ASSUME requests \in Seq(Threads), from \in Nat, from >= 1, NEW f
    PROVE  Tokens(f, Batch) \in Nat /\ Tokens(f, Batch) <= Load
  <1>1. IsFiniteSet(Batch) /\ Cardinality(Batch) <= BatchSize
    BY BatchIsSmall
  <1>2. Cardinality(Batch) \in Nat
    BY <1>1, FS_CardinalityType
  <1>3. Tokens(f, Batch) \in Nat /\ Tokens(f, Batch) <= Cardinality(Batch) * MaxTokens
    BY <1>1, TokensAreBounded
  <1>4. \A a, b, m \in Nat : a <= b => a * m <= b * m
    BY SMT
  <1>5. Cardinality(Batch) * MaxTokens <= BatchSize * MaxTokens
    BY <1>1, <1>2, <1>4, ConstantTypes
  <1>6. Cardinality(Batch) * MaxTokens \in Nat /\ BatchSize * MaxTokens \in Nat
    BY <1>2, ConstantTypes
  <1> QED BY <1>3, <1>5, <1>6 DEF Load

LEMMA DebtGrows ==
    /\ Load \in Nat
    /\ \A f \in Nat : f * Load \in Nat /\ (f + 1) * Load = f * Load + Load
    /\ \A f \in Nat : (1 + f) * BatchSize * MaxTokens = f * Load + Load
  <1>1. \A f, b, m \in Nat : (1 + f) * b * m = f * (b * m) + b * m
    BY SMT
  <1>2. \A f, b \in Nat : (f + 1) * b = f * b + b /\ f * b \in Nat
    BY SMT
  <1>3. Load \in Nat
    BY <1>2, ConstantTypes DEF Load
  <1> QED BY <1>1, <1>2, <1>3, ConstantTypes DEF Load

-----------------------------------------------------------------------------
(* Each step keeps the invariant.                                          *)

\* The daily budget in the terms of the invariant.
LEMMA BudgetIsDebtAndLoad ==
    ASSUME faults \in Nat
    PROVE  DailyBudgetHolds <=>
               \A d \in 0..MaxDay : billed[d] < DailyTokenBudget + (Debt + Load)
  <1>1. (1 + faults) * BatchSize * MaxTokens = Debt + Load
    BY DebtGrows DEF Debt
  <1> DEFINE sum == (1 + faults) * BatchSize * MaxTokens
  <1>2. DailyBudgetHolds <=> \A d \in 0..MaxDay : billed[d] < DailyTokenBudget + sum
    BY DEF DailyBudgetHolds
  <1>3. sum = Debt + Load
    BY <1>1
  <1> HIDE DEF sum
  <1> QED BY <1>2, <1>3

LEMMA InitiallyIInv == Init => IInv
  <1> SUFFICES ASSUME Init PROVE IInv
    OBVIOUS
  <1> USE ConstantTypes DEF Init
  <1>1. InCall = {} /\ pending = {} /\ Queued = Threads
    BY DEF InCall, Queued
  <1>2. TypeOK
    BY <1>1 DEF TypeOK, Budgets
  <1>3. CallIsShaped
    BY <1>1 DEF CallIsShaped
  <1>4. EntriesAreLast /\ EntriesAreEarned /\ RefusalIsKept /\ DeadlineHolds /\ RoundFits
    BY <1>1 DEF EntriesAreLast, EntriesAreEarned, RefusalIsKept, DeadlineHolds, RoundFits
  <1>5. BudgetIsStored
    BY DEF BudgetIsStored
  <1>6. Debt \in Nat /\ Load \in Nat
    BY DebtGrows DEF Debt
  <1>7. TokensAreSaved
    BY <1>6 DEF TokensAreSaved, StoredFor, Unsaved
  <1>8. DailyBudgetHolds
    BY <1>6, BudgetIsDebtAndLoad
  <1> QED BY <1>2, <1>3, <1>4, <1>5, <1>7, <1>8 DEF IInv

\* A call and perhaps the run end; a batch that was being sent is lost.
LEMMA EndedStep ==
    ASSUME IInv, CallEnded, pc' \in {"idle", "chunk"}, over' = FALSE,
           UNCHANGED <<day, stored, billed>>,
           faults' \in {faults, faults + 1},
           pc \in {"round", "after"} => faults' = faults + 1,
           remaining' \in Int, taken' \subseteq Threads, slow' \in BOOLEAN,
           remaining' >= 0 \/ slow',
           DOMAIN strikes' \subseteq Threads, errored' \subseteq Threads \ DOMAIN strikes',
           \A t \in DOMAIN strikes' : strikes'[t] \in 0..MaxStrikes - 1
    PROVE  IInv'
  <1> USE ConstantTypes
  <1>1. InCall' = {} /\ pending' = {} /\ requests' = <<>>
    BY DEF InCall, CallEnded
  <1>2. TypeOK'
    BY <1>1 DEF TypeOK, Budgets, CallEnded, IInv, Queued
  <1>3. CallIsShaped'
    <2>1. /\ requests' \in Seq(Threads) /\ from' = 1 /\ stopped' = None
          /\ DOMAIN requests' = {}
      BY <1>1 DEF CallEnded
    <2>2. faults' \in Nat
      BY DEF IInv, CallIsShaped
    <2>3. slow' \in BOOLEAN /\ over' \in BOOLEAN
      BY Zenon
    <2>4. \A i, j \in DOMAIN requests' : requests'[i] = requests'[j] => i = j
      BY <2>1
    <2>5. \A t \in InCall' : entries'[t] \in Entries
      BY <1>1
    <2>6. pending' \subseteq Batch'
      BY <1>1
    <2> QED BY <1>1, <2>1, <2>2, <2>3, <2>4, <2>5, <2>6 DEF CallIsShaped
  <1>4. EntriesAreLast' /\ EntriesAreEarned' /\ RefusalIsKept' /\ DeadlineHolds' /\ RoundFits'
    BY <1>1 DEF EntriesAreLast, EntriesAreEarned, RefusalIsKept, DeadlineHolds, RoundFits
  <1>5. BudgetIsStored'
    BY DEF BudgetIsStored
  <1>6. faults \in Nat /\ faults' \in Nat /\ requests \in Seq(Threads) /\ from \in Nat
        /\ from >= 1 /\ billed \in [0..MaxDay -> Nat] /\ stored \in Budgets
    BY DEF IInv, TypeOK, CallIsShaped
  <1>7. Load \in Nat /\ Debt \in Nat /\ Debt' \in Nat
        /\ Debt' = (IF faults' = faults THEN Debt ELSE Debt + Load)
    BY <1>6, DebtGrows DEF Debt, Load
  <1>8. TokensAreSaved'
    <2> SUFFICES ASSUME NEW d \in 0..MaxDay, stored.day <= d
                 PROVE  billed[d] <= StoredFor(d)' + Debt' + Unsaved(d)'
      BY DEF TokensAreSaved
    <2>1. StoredFor(d)' = StoredFor(d) /\ StoredFor(d) \in Nat /\ Unsaved(d)' = 0
      BY <1>6 DEF StoredFor, Unsaved, Budgets
    <2>2. billed[d] <= StoredFor(d) + Debt + Unsaved(d) /\ billed[d] \in Nat
      BY <1>6 DEF IInv, TokensAreSaved
    <2>3. Unsaved(d) \in Nat /\ Unsaved(d) <= Load
      BY <1>6, <1>7, BatchIsALoad DEF Unsaved, BatchTokens
    <2>4. CASE pc \in {"round", "after"}
      BY <1>7, <2>1, <2>2, <2>3, <2>4, <1>6
    <2>5. CASE pc \notin {"round", "after"}
      <3>1. Unsaved(d) = 0
        BY <2>5 DEF Unsaved
      <3> QED BY <1>7, <2>1, <2>2, <3>1
    <2> QED BY <2>4, <2>5
  <1>9. DailyBudgetHolds'
    <2>1. \A d \in 0..MaxDay : billed[d] < DailyTokenBudget + (Debt + Load)
      BY <1>6, BudgetIsDebtAndLoad DEF IInv
    <2>2. \A d \in 0..MaxDay : billed[d] < DailyTokenBudget + (Debt' + Load)
      BY <1>6, <1>7, <2>1
    <2>3. (1 + faults') * BatchSize * MaxTokens = Debt' + Load
      BY <1>6, DebtGrows DEF Debt, Load
    <2> DEFINE sum == (1 + faults') * BatchSize * MaxTokens
    <2>4. DailyBudgetHolds' <=> \A d \in 0..MaxDay : billed'[d] < DailyTokenBudget + sum
      BY DEF DailyBudgetHolds
    <2>5. sum = Debt' + Load
      BY <2>3
    <2> HIDE DEF sum
    <2> QED BY <2>2, <2>4, <2>5
  <1> QED BY <1>2, <1>3, <1>4, <1>5, <1>8, <1>9 DEF IInv

LEMMA DieStep == ASSUME IInv, Die PROVE IInv'
  <1>1. faults \in Nat /\ faults' = faults + 1
    BY DEF IInv, CallIsShaped, Die, Fault
  <1>2. /\ CallEnded /\ pc' = "idle" /\ over' = FALSE /\ UNCHANGED <<day, stored, billed>>
        /\ remaining' = SoftLimit /\ taken' = {} /\ slow' = FALSE
    BY DEF Die, RunEnded, persistent
  <1>4. remaining' \in Int /\ remaining' >= 0 /\ taken' \subseteq Threads
    BY <1>2, ConstantTypes
  <1>5. slow' \in BOOLEAN
    BY <1>2, Zenon
  <1>3. /\ DOMAIN strikes' \subseteq Threads /\ errored' \subseteq Threads \ DOMAIN strikes'
        /\ \A t \in DOMAIN strikes' : strikes'[t] \in 0..MaxStrikes - 1
    BY DEF Die, persistent, IInv, TypeOK, Queued
  <1> QED BY <1>1, <1>2, <1>3, <1>4, <1>5, EndedStep

LEMMA FinishRunStep == ASSUME IInv, FinishRun PROVE IInv'
  <1>1. faults' = faults /\ pc = "chunk"
    BY DEF FinishRun
  <1>2. /\ CallEnded /\ pc' = "idle" /\ over' = FALSE /\ UNCHANGED <<day, stored, billed>>
        /\ remaining' = SoftLimit /\ taken' = {} /\ slow' = FALSE
    BY DEF FinishRun, RunEnded, persistent
  <1>4. remaining' \in Int /\ remaining' >= 0 /\ taken' \subseteq Threads
    BY <1>2, ConstantTypes
  <1>5. slow' \in BOOLEAN
    BY <1>2, Zenon
  <1>3. /\ DOMAIN strikes' \subseteq Threads /\ errored' \subseteq Threads \ DOMAIN strikes'
        /\ \A t \in DOMAIN strikes' : strikes'[t] \in 0..MaxStrikes - 1
    BY DEF FinishRun, persistent, IInv, TypeOK, Queued
  <1> QED BY <1>1, <1>2, <1>3, <1>4, <1>5, EndedStep

\* A step that leaves the call, what is stored and what is billed alone.
LEMMA QuietStep ==
    ASSUME IInv, UNCHANGED <<stored, strikes, errored, taken, callVars, billed, tries, over,
                             faults, slow>>,
           \/ UNCHANGED <<pc, remaining>> /\ day' \in day..MaxDay
           \/ pc = "idle" /\ pc' = "chunk" /\ remaining' = SoftLimit /\ UNCHANGED day
    PROVE  IInv'
  <1> USE ConstantTypes DEF callVars
  <1>1. InCall' = InCall /\ Batch' = Batch /\ Waiting' = Waiting /\ Later' = Later
        /\ Queued' = Queued
    BY DEF InCall, Batch, Waiting, Later, Queued
  <1>2. TypeOK'
    <2>1. TypeOK
      BY DEF IInv
    <2>2. day' \in 0..MaxDay /\ stored.day <= day'
      BY <2>1 DEF TypeOK, Budgets
    <2>3. pc' \in {"idle", "chunk", "batch", "round", "after", "settle"} /\ remaining' \in Int
          /\ (pc' = "settle" => pc = "settle")
      BY <2>1 DEF TypeOK
    <2> QED BY <1>1, <2>1, <2>2, <2>3 DEF TypeOK
  <1>3. CallIsShaped'
    BY <1>1 DEF CallIsShaped, IInv
  <1>4. EntriesAreLast' /\ EntriesAreEarned' /\ RefusalIsKept' /\ DeadlineHolds' /\ RoundFits'
    BY <1>1 DEF IInv, EntriesAreLast, EntriesAreEarned, RefusalIsKept, DeadlineHolds, RoundFits,
        IsEarned
  <1>5. BudgetIsStored'
    BY DEF BudgetIsStored, IInv, StoredFor, TypeOK, Budgets
  <1>6. TokensAreSaved' /\ DailyBudgetHolds'
    BY <1>1 DEF IInv, TokensAreSaved, DailyBudgetHolds, StoredFor, Unsaved, BatchTokens, Tokens,
        Debt, Load
  <1> QED BY <1>2, <1>3, <1>4, <1>5, <1>6 DEF IInv

LEMMA MidnightStep == ASSUME IInv, Midnight PROVE IInv'
  <1>1. day' \in day..MaxDay
    BY ConstantTypes DEF IInv, TypeOK, Midnight
  <1> QED BY <1>1, QuietStep DEF Midnight, persistent

LEMMA StartRunStep == ASSUME IInv, StartRun PROVE IInv'
  BY QuietStep DEF StartRun, persistent

\* The budget of a day is that of the store, or a new one.
LEMMA BudgetOfTheDay ==
    ASSUME NEW b \in Budgets, b.day <= day, day \in 0..MaxDay, stored \in Budgets,
           stored.day <= b.day, b.tokens = StoredFor(b.day)
    PROVE  LET r == BudgetForDay(b, day)
           IN  /\ r \in Budgets /\ r.day = day /\ stored.day <= day
               /\ r.tokens = StoredFor(day)
  BY ConstantTypes DEF Budgets, BudgetForDay, StoredFor

LEMMA TakeChunkStep == ASSUME IInv, TakeChunk PROVE IInv'
  <1> DEFINE open == Queued \ taken
             n == Min({ChunkSize, Cardinality(open)})
  <1>1. TypeOK /\ CallIsShaped
    BY DEF IInv
  <1>2. /\ requests = <<>> /\ from = 1 /\ stopped = None /\ pending = {} /\ over = FALSE
        /\ day \in 0..MaxDay /\ Queued \subseteq Threads /\ stored \in Budgets
        /\ stored.day <= day /\ remaining \in Int
    BY <1>1, Zenon DEF TypeOK, CallIsShaped, TakeChunk
  <1>3. n \in Nat
    <2>1. IsFiniteSet(open)
      BY <1>2, FS_Subset, ConstantTypes
    <2>2. Cardinality(open) \in Nat
      BY <2>1, FS_CardinalityType
    <2>3. ChunkSize \in Int /\ Cardinality(open) \in Int /\ ChunkSize >= 0
      BY <2>2, ConstantTypes
    <2>4. n \in {ChunkSize, Cardinality(open)}
      BY <2>3, MinOfTwo
    <2> QED BY <2>2, <2>3, <2>4
  <1>4. PICK chunk \in [1..n -> open] :
           /\ \A i, j \in 1..n : i < j => chunk[i] < chunk[j]
           /\ requests' = chunk
           /\ entries' = [t \in {chunk[i] : i \in 1..n} |-> NoEntry]
           /\ tries' = [t \in {chunk[i] : i \in 1..n} |-> NoTry]
           /\ taken' = taken \cup {chunk[i] : i \in 1..n}
    BY DEF TakeChunk
  <1>5. /\ remaining >= MinChunkStart
        /\ \E spent \in 0..Min({MaxRead, remaining}) : remaining' = remaining - spent
        /\ estimate' = InitialEstimate /\ budget' = BudgetForDay(stored, day) /\ pc' = "batch"
        /\ UNCHANGED <<day, stored, strikes, errored, from, pending, attempt, stopped, billed,
                       slow, over, faults>>
    BY DEF TakeChunk, CanStartChunk, persistent
  <1> HIDE DEF n, open
  <1>6. /\ requests' \in Seq(Threads) /\ DOMAIN requests' = 1..n
        /\ \A i \in 1..n : requests'[i] \in open
    <2>1. \A i \in 1..n : chunk[i] \in Threads
      BY <1>2 DEF open
    <2>2. chunk \in [1..n -> Threads]
      BY <2>1
    <2> QED BY <1>3, <1>4, <2>2
  <1>7. /\ InCall' = {chunk[i] : i \in 1..n} /\ InCall' \subseteq open
        /\ DOMAIN entries' = InCall' /\ DOMAIN tries' = InCall'
        /\ \A t \in InCall' : entries'[t] = NoEntry
    BY <1>4, <1>6 DEF InCall
  <1>8. remaining' \in Int /\ remaining' >= 0
    <2> DEFINE most == Min({MaxRead, remaining})
    <2>1. MaxRead \in Int /\ remaining \in Int
      BY <1>2, ConstantTypes
    <2>2. most \in {MaxRead, remaining} /\ most <= remaining
      BY <2>1, MinOfTwo
    <2>3. most \in Int
      BY <2>1, <2>2
    <2>4. PICK spent \in 0..most : remaining' = remaining - spent
      BY <1>5
    <2> HIDE DEF most
    <2> QED BY <2>1, <2>2, <2>3, <2>4
  <1>9. budget' \in Budgets /\ budget'.day = day /\ budget'.tokens = StoredFor(day)
    <2>1. stored.tokens = StoredFor(stored.day) /\ stored.day <= stored.day
      BY <1>2 DEF StoredFor, Budgets
    <2> QED BY <1>2, <1>5, <2>1, BudgetOfTheDay
  <1>10. TypeOK'
    <2>1. Queued' = Queued
      BY <1>5 DEF Queued
    <2>2. InCall' \subseteq Queued' /\ taken' \subseteq Threads /\ pending' \subseteq InCall'
      BY <1>1, <1>2, <1>4, <1>5, <1>7, <2>1 DEF open, TypeOK
    <2>3. estimate' \in Nat
      BY <1>5, ConstantTypes
    <2> QED BY <1>1, <1>5, <1>7, <1>8, <1>9, <2>1, <2>2, <2>3 DEF TypeOK
  <1>11. CallIsShaped'
    <2>1. \A i, j \in DOMAIN requests' : requests'[i] = requests'[j] => i = j
      <3> SUFFICES ASSUME NEW i \in 1..n, NEW j \in 1..n, i # j PROVE chunk[i] # chunk[j]
        BY <1>4, <1>6
      <3>1. chunk[i] \in Nat /\ chunk[j] \in Nat
        BY <1>2, <1>4, <1>6, ConstantTypes DEF open
      <3>2. i < j \/ j < i
        BY <1>3
      <3> QED BY <1>4, <3>1, <3>2
    <2>2. \A t \in InCall' : entries'[t] \in Entries
      <3>1. NoEntry \in Entries
        BY ConstantTypes DEF Entries, NoEntry
      <3> QED BY <1>7, <3>1
    <2>3. pending' \subseteq Batch' /\ from' >= 1
      BY <1>2, <1>5
    <2> QED BY <1>1, <1>2, <1>5, <1>6, <2>1, <2>2, <2>3 DEF CallIsShaped
  <1>12. EntriesAreLast' /\ EntriesAreEarned' /\ RefusalIsKept' /\ DeadlineHolds' /\ RoundFits'
    <2>1. Waiting' \subseteq InCall'
      BY DEF Waiting, InCall
    <2> QED BY <1>2, <1>5, <1>7, <1>8, <2>1
            DEF EntriesAreLast, EntriesAreEarned, RefusalIsKept, DeadlineHolds, RoundFits,
                NoEntry, None
  <1>13. BudgetIsStored'
    BY <1>2, <1>5, <1>9 DEF BudgetIsStored, StoredFor, Budgets
  <1>14. TokensAreSaved' /\ DailyBudgetHolds'
    <2>1. pc \notin {"round", "after"}
      BY DEF TakeChunk
    <2> QED BY <1>5, <2>1
            DEF IInv, TokensAreSaved, DailyBudgetHolds, StoredFor, Unsaved, Debt, Load
  <1> QED BY <1>10, <1>11, <1>12, <1>13, <1>14 DEF IInv

LEMMA StartBatchStep == ASSUME IInv, StartBatch PROVE IInv'
  <1>1. TypeOK /\ CallIsShaped /\ EntriesAreLast
    BY DEF IInv
  <1>2. /\ pc = "batch" /\ pc' = "round" /\ pending' = Batch /\ attempt' = 1
        /\ budget' = BudgetForDay(budget, day) /\ ~IsBudgetReached(budget')
        /\ remaining >= estimate
        /\ UNCHANGED <<day, stored, strikes, errored, remaining, taken, requests, from, entries,
                       estimate, stopped, billed, tries, slow, over, faults>>
    BY DEF StartBatch, persistent
  <1>3. budget' \in Budgets /\ budget'.day = day /\ budget'.tokens = StoredFor(day)
        /\ stored.day <= day
    BY <1>1, <1>2, BudgetOfTheDay DEF IInv, BudgetIsStored, TypeOK
  <1>4. Batch \subseteq InCall /\ Batch \subseteq Waiting
    BY <1>1, BatchIsSmall DEF CallIsShaped, TypeOK
  <1>5. InCall' = InCall /\ Batch' = Batch /\ Later' = Later /\ Queued' = Queued
    BY <1>2 DEF InCall, Batch, Later, Queued
  <1>6. TypeOK'
    BY <1>1, <1>2, <1>3, <1>4, <1>5, ConstantTypes DEF TypeOK
  <1>7. CallIsShaped'
    BY <1>1, <1>2, <1>5 DEF CallIsShaped
  <1>8. EntriesAreLast'
    <2>1. Later \subseteq Waiting
      BY <1>1, ConstantTypes DEF Later, Waiting, CallIsShaped, TypeOK
    <2> QED BY <1>1, <1>2, <1>4, <1>5, <2>1 DEF EntriesAreLast
  <1>9. EntriesAreEarned' /\ RefusalIsKept' /\ DeadlineHolds' /\ RoundFits'
    BY <1>2, <1>5
       DEF IInv, EntriesAreEarned, IsEarned, RefusalIsKept, DeadlineHolds, RoundFits
  <1>10. BudgetIsStored'
    BY <1>1, <1>2, <1>3, ConstantTypes
       DEF BudgetIsStored, StoredFor, Budgets, IsBudgetReached, TypeOK
  <1>11. BatchTokens(Batch)' = 0
    BY <1>1, <1>2, <1>4, <1>5, NoTokens DEF BatchTokens, EntriesAreLast, NoEntry, Tokens
  <1>12. TokensAreSaved' /\ DailyBudgetHolds'
    BY <1>2, <1>11 DEF IInv, TokensAreSaved, DailyBudgetHolds, StoredFor, Unsaved, Debt, Load
  <1> QED BY <1>6, <1>7, <1>8, <1>9, <1>10, <1>12 DEF IInv

\* What is not sent has no tokens and no failure.
LEMMA NotSentIsHarmless ==
    ASSUME IInv, entries' = MarkedNotSent, UNCHANGED <<requests, from, tries>>
    PROVE  /\ InCall' = InCall /\ Batch' = Batch
           /\ DOMAIN entries' = InCall
           /\ \A t \in InCall : entries'[t] \in Entries /\ entries'[t] # NoEntry
           /\ EntriesAreEarned'
  <1>1. /\ InCall' = InCall /\ Batch' = Batch /\ DOMAIN entries = InCall
        /\ DOMAIN entries' = InCall
    BY DEF IInv, TypeOK, InCall, Batch, MarkedNotSent
  <1>2. \A t \in InCall :
            entries'[t] = IF entries[t] = NoEntry THEN NotSent ELSE entries[t]
    BY <1>1 DEF MarkedNotSent
  <1>3. NotSent \in Entries /\ NotSent # NoEntry
    BY ConstantTypes DEF NotSent, NoEntry, Entries, None
  <1>4. \A t \in InCall : entries'[t] \in Entries /\ entries'[t] # NoEntry
    BY <1>2, <1>3 DEF IInv, CallIsShaped
  <1>5. EntriesAreEarned'
    BY <1>1, <1>2 DEF IInv, EntriesAreEarned, IsEarned, NotSent
  <1> QED BY <1>1, <1>4, <1>5

LEMMA HoldBatchStep == ASSUME IInv, HoldBatch PROVE IInv'
  <1>1. TypeOK /\ CallIsShaped
    BY DEF IInv
  <1>2. /\ pc = "batch" /\ pc' = "settle" /\ stopped' \in {"budget", "deadline"}
        /\ budget' = BudgetForDay(budget, day) /\ entries' = MarkedNotSent
        /\ UNCHANGED <<day, stored, strikes, errored, remaining, taken, requests, from, pending,
                       attempt, estimate, billed, tries, slow, over, faults>>
    BY DEF HoldBatch, persistent
  <1>3. budget' \in Budgets
    BY <1>1, <1>2, BudgetOfTheDay DEF IInv, BudgetIsStored, TypeOK
  <1>4. /\ InCall' = InCall /\ Batch' = Batch /\ DOMAIN entries' = InCall
        /\ \A t \in InCall : entries'[t] \in Entries /\ entries'[t] # NoEntry
        /\ EntriesAreEarned'
    BY <1>2, NotSentIsHarmless
  <1>5. Queued' = Queued
    BY <1>2 DEF Queued
  <1>6. TypeOK'
    BY <1>1, <1>2, <1>3, <1>4, <1>5 DEF TypeOK
  <1>7. CallIsShaped'
    BY <1>1, <1>2, <1>4 DEF CallIsShaped
  <1>8. EntriesAreLast' /\ RefusalIsKept' /\ DeadlineHolds' /\ RoundFits' /\ BudgetIsStored'
    BY <1>1, <1>2 DEF IInv, EntriesAreLast, RefusalIsKept, DeadlineHolds, RoundFits,
        BudgetIsStored, CallIsShaped
  <1>9. TokensAreSaved' /\ DailyBudgetHolds'
    BY <1>2 DEF IInv, TokensAreSaved, DailyBudgetHolds, StoredFor, Unsaved, Debt, Load
  <1> QED BY <1>4, <1>6, <1>7, <1>8, <1>9 DEF IInv

\* What an outcome of each kind is.
LEMMA OutcomeIsKnown ==
    ASSUME NEW o \in Outcomes
    PROVE  /\ o.tokens \in 0..MaxTokens
           /\ o \in Retryable => o.tokens = 0 /\ o.wait \in Nat /\ Class(o) = "retryable"
           /\ o.kind \in {"invalid", "malformed", "failed", "error500"} => Class(o) = "final"
           /\ o.kind = "invalid" => o.kind \notin ServerErrors
           /\ o \in Retryable => o.kind \in {"unavailable", "limited", "transport"}
  <1>1. CASE o \in Answered
    <2>1. o.kind \in {"success", "malformed"} /\ o.tokens \in 0..MaxTokens
      BY <1>1, ConstantTypes DEF Answered
    <2>2. o \notin Retryable
      BY <2>1 DEF Retryable
    <2> QED BY <2>1, <2>2 DEF Class, ServerErrors
  <1>2. CASE o \in Final
    <2>1. o.kind \in {"invalid", "auth", "config", "failed", "error500", "scope"}
          /\ o.tokens \in 0..MaxTokens
      BY <1>2, ConstantTypes DEF Final
    <2>2. o \notin Retryable
      BY <2>1 DEF Retryable
    <2> QED BY <2>1, <2>2 DEF Class, ServerErrors
  <1>3. CASE o \in Retryable
    <2>1. o.kind \in {"unavailable", "limited", "transport"} /\ o.tokens = 0 /\ o.wait \in Nat
      <3>1. CASE o \in [kind : {"unavailable", "limited"}, tokens : {0}, wait : Waits]
        BY <3>1, ConstantTypes
      <3>2. CASE o \in [kind : {"transport"}, tokens : {0}, wait : {0}]
        BY <3>2
      <3> QED BY <1>3, <3>1, <3>2 DEF Retryable
    <2>2. Class(o) = "retryable"
      BY <1>3, <2>1 DEF Class
    <2> QED BY <2>1, <2>2, ConstantTypes DEF ServerErrors
  <1> QED BY <1>1, <1>2, <1>3 DEF Outcomes

\* A request that ends as a failure has earned it.
LEMMA EndIsEarned ==
    ASSUME IsFiniteSet(pending), attempt \in 1..MaxAttempts,
           NEW round \in [pending -> Outcomes], NEW t \in pending,
           Outcome(round, t) \in {"marked", "struck"}
    PROVE  /\ Class(round[t]) \in {"final", "retryable"}
           /\ Class(round[t]) = "retryable" => attempt = MaxAttempts
           /\ Kinds(round) \subseteq ServerErrors => pending = {t}
  <1>1. DOMAIN round = pending /\ round[t] \in Outcomes /\ round[t].kind \in Kinds(round)
    BY DEF Kinds
  <1>2. ~(RoundStop(round) = None /\ IsOutageRound(round))
    <2> SUFFICES ASSUME RoundStop(round) = None /\ IsOutageRound(round) PROVE FALSE
      OBVIOUS
    <2>1. Outcome(round, t) = "untouched"
      BY DEF Outcome
    <2> QED BY <2>1
  <1>3. \/ round[t].kind \in {"invalid", "malformed", "failed", "error500"}
        \/ round[t] \in Retryable /\ ~IsCut(round, t)
    BY <1>2 DEF Outcome
  <1>4. Class(round[t]) \in {"final", "retryable"}
    BY <1>1, <1>3, OutcomeIsKnown
  <1>5. Class(round[t]) = "retryable" => attempt = MaxAttempts
    BY <1>1, <1>3, OutcomeIsKnown, ConstantTypes DEF IsCut
  <1>6. ASSUME Kinds(round) \subseteq ServerErrors PROVE pending = {t}
    <2>1. RoundStop(round) = None
      BY <1>6 DEF RoundStop, ServerErrors
    <2>2. ~(Cardinality(pending) >= 2)
      BY <1>1, <1>2, <1>6, <2>1 DEF IsOutageRound
    <2>3. Cardinality(pending) \in Nat /\ Cardinality(pending) # 0
      BY FS_CardinalityType, FS_EmptySet
    <2>4. Cardinality(pending) = 1
      BY <2>2, <2>3
    <2>5. \E x : pending = {x}
      BY <2>4, FS_Singleton
    <2> QED BY <2>5
  <1> QED BY <1>4, <1>5, <1>6

\* What is sent again cost nothing, and may be.
LEMMA AgainIsAllowed ==
    ASSUME NEW round \in [pending -> Outcomes]
    PROVE  /\ Again(round) \subseteq pending
           /\ \A t \in Again(round) :
                 /\ round[t].tokens = 0 /\ round[t].wait \in Nat
                 /\ round[t].wait <= MaxRetryAfter
           /\ Again(round) # {} =>
                 /\ RoundStop(round) = None /\ ~IsOutageRound(round)
                 /\ ~(attempt >= MaxAttempts)
  <1>1. \A t \in Again(round) :
            t \in pending /\ round[t] \in Retryable /\ round[t].wait <= MaxRetryAfter
    BY DEF Again
  <1>2. \A t \in pending : round[t] \in Outcomes
    OBVIOUS
  <1>3. \A t \in Again(round) : round[t].tokens = 0 /\ round[t].wait \in Nat
    BY <1>1, <1>2, OutcomeIsKnown
  <1> QED BY <1>1, <1>3 DEF Again

\* The sleep before a round is a number.
LEMMA SleepIsANumber ==
    ASSUME NEW round \in [pending -> Outcomes], NEW backoff \in Backoffs(attempt)
    PROVE  Max({backoff} \cup {round[t].wait : t \in Again(round)}) \in Nat
  <1> DEFINE S == {backoff} \cup {round[t].wait : t \in Again(round)}
  <1>1. backoff \in 1..MaxBackoff
    BY DEF Backoffs
  <1>2. \A s \in S : s \in Nat /\ s <= MaxBackoff + MaxRetryAfter
    <2> SUFFICES ASSUME NEW s \in S PROVE s \in Nat /\ s <= MaxBackoff + MaxRetryAfter
      OBVIOUS
    <2>1. CASE s = backoff
      BY <1>1, <2>1, ConstantTypes
    <2>2. CASE \E t \in Again(round) : s = round[t].wait
      BY <2>2, AgainIsAllowed, ConstantTypes
    <2> QED BY <2>1, <2>2
  <1>3. backoff \in S
    OBVIOUS
  <1>4. MaxBackoff + MaxRetryAfter \in Nat
    BY ConstantTypes
  <1> HIDE DEF S
  <1>5. S \in SUBSET Nat /\ S # {}
    BY <1>2, <1>3
  <1>6. Max(S) \in S
    BY <1>2, <1>4, <1>5, MaxOfBounded
  <1>7. Max(S) \in Nat
    BY <1>2, <1>6
  <1> QED BY <1>7 DEF S

LEMMA MaxOfTwo ==
    ASSUME NEW a \in Nat, NEW b \in Nat
    PROVE  Max({a, b}) \in Nat /\ a <= Max({a, b}) /\ b <= Max({a, b})
  <1>1. {a, b} \in SUBSET Nat /\ {a, b} # {} /\ a + b \in Nat /\ \A s \in {a, b} : s <= a + b
    OBVIOUS
  <1>2. Max({a, b}) \in {a, b} /\ \A s \in {a, b} : s <= Max({a, b})
    BY <1>1, MaxOfBounded
  <1> QED BY <1>2

LEMMA RoundStep == ASSUME IInv, Round PROVE IInv'
  <1>1. TypeOK /\ CallIsShaped /\ EntriesAreLast
    BY DEF IInv
  <1>2. PICK round \in [pending -> Outcomes], took \in 1..MaxRound,
             backoff \in Backoffs(attempt) :
          LET again == Again(round)
              timed == \E t \in InCall : tries[t] # NoTry
              longest == IF timed THEN Max({estimate, took}) ELSE took
              sleep == Max({backoff} \cup {round[t].wait : t \in again})
              left == remaining - took
              next == IF FitsRetry(left, sleep, longest) THEN again ELSE {}
              stop == RoundStop(round)
          IN  /\ entries' = [t \in DOMAIN entries |->
                    IF t \in pending \ next THEN EntryAfter(round, t) ELSE entries[t]]
              /\ estimate' = longest
              /\ pending' = next
              /\ stopped' = CASE stop # None -> stop
                              [] stop = None /\ IsOutageRound(round) -> "outage"
                              [] stop = None /\ again # next -> "deadline"
                              [] OTHER -> stopped
              /\ IF next = {}
                 THEN pc' = "after" /\ remaining' = left /\ UNCHANGED attempt
                 ELSE pc' = "round" /\ remaining' = left - sleep /\ attempt' = attempt + 1
              /\ tries' = [t \in DOMAIN tries |->
                    IF t \in pending
                    THEN [count |-> attempt, class |-> Class(round[t]), alone |-> pending = {t},
                          down |-> Kinds(round) \subseteq ServerErrors]
                    ELSE tries[t]]
              /\ billed' = [billed EXCEPT ![budget.day] = @ + Tokens(round, pending)]
              /\ slow' = (slow \/ took > estimate)
              /\ over' = (over \/ stop # None \/ IsOutageRound(round))
    BY DEF Round
  <1>3. /\ pc = "round"
        /\ UNCHANGED <<day, stored, strikes, errored, taken, requests, from, budget, faults>>
    BY DEF Round, persistent
  <1> DEFINE again == Again(round)
             timed == \E t \in InCall : tries[t] # NoTry
             longest == IF timed THEN Max({estimate, took}) ELSE took
             sleep == Max({backoff} \cup {round[t].wait : t \in again})
             left == remaining - took
             next == IF FitsRetry(left, sleep, longest) THEN again ELSE {}
             stop == RoundStop(round)
  <1>4. /\ entries' = [t \in DOMAIN entries |->
                IF t \in pending \ next THEN EntryAfter(round, t) ELSE entries[t]]
        /\ estimate' = longest /\ pending' = next
        /\ tries' = [t \in DOMAIN tries |->
                IF t \in pending
                THEN [count |-> attempt, class |-> Class(round[t]), alone |-> pending = {t},
                      down |-> Kinds(round) \subseteq ServerErrors]
                ELSE tries[t]]
        /\ billed' = [billed EXCEPT ![budget.day] = @ + Tokens(round, pending)]
    BY <1>2
  <1>5. slow' = (slow \/ took > estimate)
    BY <1>2
  <1>6. over' = (over \/ stop # None \/ IsOutageRound(round))
    BY <1>2
  <1>7. stopped' = CASE stop # None -> stop
                     [] stop = None /\ IsOutageRound(round) -> "outage"
                     [] stop = None /\ again # next -> "deadline"
                     [] OTHER -> stopped
    BY <1>2
  <1>8. IF next = {}
        THEN pc' = "after" /\ remaining' = left /\ UNCHANGED attempt
        ELSE pc' = "round" /\ remaining' = left - sleep /\ attempt' = attempt + 1
    BY <1>2
  <1>9. estimate \in Nat /\ took \in Nat /\ took >= 1 /\ remaining \in Int
    BY <1>1, ConstantTypes DEF TypeOK
  <1>10. longest \in Nat /\ sleep \in Nat /\ left \in Int
    <2>1. longest \in Nat
      BY <1>9, MaxOfTwo
    <2> QED BY <1>9, <2>1, SleepIsANumber
  <1>11. /\ next \subseteq pending
         /\ \A t \in next : round[t].tokens = 0
         /\ next # {} => /\ stop = None /\ ~IsOutageRound(round) /\ ~(attempt >= MaxAttempts)
                         /\ left >= sleep + longest
    <2>1. next \subseteq again /\ (next # {} => next = again /\ left >= sleep + longest)
      BY DEF FitsRetry
    <2> QED BY <2>1, AgainIsAllowed
  <1>12. /\ stop \in {None, "auth", "config", "scope"}
         /\ stopped' \in {None, "budget", "deadline", "auth", "config", "scope", "outage"}
         /\ (stop # None \/ IsOutageRound(round)) => stopped' \notin {None, "deadline"}
    <2>1. stop \in {None, "auth", "config", "scope"}
      BY DEF RoundStop
    <2>2. stopped \in {None, "budget", "deadline", "auth", "config", "scope", "outage"}
      BY <1>1 DEF TypeOK
    <2>3. IsOutageRound(round) => again = next
      BY <1>11, AgainIsAllowed
    <2> HIDE DEF again, next, stop
    <2>4. CASE stop # None
      <3>1. stopped' = stop
        BY <1>7, <2>4
      <3> QED BY <2>1, <2>4, <3>1 DEF None
    <2>5. CASE stop = None /\ IsOutageRound(round)
      <3>1. stopped' = "outage"
        BY <1>7, <2>3, <2>5
      <3> QED BY <2>1, <3>1 DEF None
    <2>6. CASE stop = None /\ ~IsOutageRound(round) /\ again # next
      <3>1. stopped' = "deadline"
        BY <1>7, <2>6
      <3> QED BY <2>1, <2>6, <3>1
    <2>7. CASE stop = None /\ ~IsOutageRound(round) /\ again = next
      <3>1. stopped' = stopped
        BY <1>7, <2>7
      <3> QED BY <2>1, <2>2, <2>7, <3>1
    <2> QED BY <2>4, <2>5, <2>6, <2>7
  <1> HIDE DEF again, timed, longest, sleep, left, next, stop
  <1>13. /\ InCall' = InCall /\ Batch' = Batch /\ Later' = Later /\ Queued' = Queued
         /\ DOMAIN entries = InCall /\ DOMAIN tries = InCall
         /\ DOMAIN entries' = InCall /\ DOMAIN tries' = InCall
    BY <1>1, <1>3, <1>4 DEF InCall, Batch, Later, Queued, TypeOK
  <1>14. /\ pending \subseteq Batch /\ Batch \subseteq InCall /\ IsFiniteSet(Batch)
         /\ Batch \cap Later = {}
    <2>1. pending \subseteq Batch /\ Batch \subseteq InCall /\ IsFiniteSet(Batch)
      BY <1>1, BatchIsSmall DEF CallIsShaped, TypeOK
    <2>2. ASSUME NEW t \in Batch, t \in Later PROVE FALSE
      <3>1. from \in Nat /\ requests \in Seq(Threads) /\ from >= 1
        BY <1>1 DEF TypeOK, CallIsShaped
      <3>2. from + BatchSize - 1 \in Int /\ Len(requests) \in Int
        BY <3>1, ConstantTypes
      <3>3. /\ Min({from + BatchSize - 1, Len(requests)}) <= from + BatchSize - 1
            /\ Min({from + BatchSize - 1, Len(requests)}) <= Len(requests)
            /\ Min({from + BatchSize - 1, Len(requests)}) \in
                  {from + BatchSize - 1, Len(requests)}
        BY <3>2, MinOfTwo
      <3>4. PICK i \in from..Min({from + BatchSize - 1, Len(requests)}) : t = requests[i]
        BY <2>2 DEF Batch
      <3>5. PICK j \in DOMAIN requests : j >= from + BatchSize /\ t = requests[j]
        BY <2>2 DEF Later
      <3>6. i \in Int /\ i >= from /\ i <= from + BatchSize - 1 /\ i <= Len(requests)
        BY <3>1, <3>2, <3>3, <3>4
      <3>7. i \in DOMAIN requests
        BY <3>1, <3>6
      <3>8. i = j
        BY <1>1, <3>4, <3>5, <3>7 DEF CallIsShaped
      <3> QED BY <3>1, <3>5, <3>6, <3>8, ConstantTypes
    <2> QED BY <2>1, <2>2
  <1>15. /\ pending \subseteq InCall
         /\ \A t \in pending \ next : /\ entries'[t].outcome = Outcome(round, t)
                                      /\ entries'[t].tokens = round[t].tokens
                                      /\ entries'[t] = EntryAfter(round, t)
         /\ \A t \in InCall \ (pending \ next) : entries'[t] = entries[t]
         /\ \A t \in InCall \ pending : tries'[t] = tries[t]
    BY <1>4, <1>13, <1>14 DEF EntryAfter
  <1>16. Tokens(round, pending) \in Nat
    BY <1>14, FS_Subset, TokensAreBounded
  <1>17. /\ budget \in Budgets /\ budget.day \in 0..MaxDay /\ budget.tokens \in Nat
         /\ billed \in [0..MaxDay -> Nat]
    BY <1>1 DEF TypeOK, Budgets
  <1>18. TypeOK'
    <2>1. billed' \in [0..MaxDay -> Nat]
      BY <1>4, <1>16, <1>17
    <2>2. attempt' \in 1..MaxAttempts
      BY <1>1, <1>8, <1>11, ConstantTypes DEF TypeOK
    <2>3. remaining' \in Int /\ pc' \in {"round", "after"}
      BY <1>8, <1>10
    <2>4. pending' \subseteq InCall' /\ estimate' \in Nat
      BY <1>4, <1>10, <1>11, <1>13, <1>14
    <2> QED BY <1>1, <1>3, <1>12, <1>13, <2>1, <2>2, <2>3, <2>4 DEF TypeOK
  <1>19. CallIsShaped'
    <2>1. \A t \in InCall : entries'[t] \in Entries
      <3> SUFFICES ASSUME NEW t \in InCall PROVE entries'[t] \in Entries
        OBVIOUS
      <3>1. CASE t \in pending \ next
        <4>1. round[t].tokens \in 0..MaxTokens
          BY <3>1, OutcomeIsKnown
        <4>2. Outcome(round, t) \in {None, "untouched", "classified", "marked", "struck"}
          BY DEF Outcome
        <4>3. EntryAfter(round, t) \in Entries
          BY <4>1, <4>2 DEF EntryAfter, Entries
        <4> QED BY <1>15, <3>1, <4>3
      <3>2. CASE t \notin pending \ next
        BY <1>1, <1>15, <3>2 DEF CallIsShaped
      <3> QED BY <3>1, <3>2
    <2>2. pc' \in {"round", "after"} /\ (pc' # "round" => pending' = {})
      BY <1>4, <1>8
    <2>3. slow' \in BOOLEAN
      BY <1>5, Zenon
    <2>4. over' \in BOOLEAN
      BY <1>6, Zenon
    <2>5. pending' \subseteq Batch'
      BY <1>4, <1>11, <1>13, <1>14
    <2> QED BY <1>1, <1>3, <1>13, <2>1, <2>2, <2>3, <2>4, <2>5 DEF CallIsShaped
  <1>20. EntriesAreLast'
    <2>1. \A t \in next : entries'[t] = NoEntry
      BY <1>1, <1>11, <1>14, <1>15 DEF EntriesAreLast
    <2>2. Later \subseteq InCall
      BY DEF Later, InCall
    <2>3. \A t \in Later : entries'[t] = NoEntry
      BY <1>1, <1>3, <1>14, <1>15, <2>2 DEF EntriesAreLast
    <2>4. pc' \in {"round", "after"}
      BY <1>8
    <2> QED BY <1>4, <1>13, <2>1, <2>3, <2>4 DEF EntriesAreLast
  <1>21. EntriesAreEarned'
    <2> SUFFICES ASSUME NEW t \in InCall, entries'[t].outcome \in {"marked", "struck"}
                 PROVE  IsEarned(t)'
      BY <1>13 DEF EntriesAreEarned
    <2>1. CASE t \in pending \ next
      <3>1. Outcome(round, t) \in {"marked", "struck"}
        BY <1>15, <2>1
      <3>2. IsFiniteSet(pending) /\ attempt \in 1..MaxAttempts
        BY <1>1, <1>14, FS_Subset DEF TypeOK
      <3>3. /\ Class(round[t]) \in {"final", "retryable"}
            /\ Class(round[t]) = "retryable" => attempt = MaxAttempts
            /\ Kinds(round) \subseteq ServerErrors => pending = {t}
        BY <2>1, <3>1, <3>2, EndIsEarned
      <3>4. /\ tries'[t].class = Class(round[t]) /\ tries'[t].count = attempt
            /\ tries'[t].alone = (pending = {t})
            /\ tries'[t].down = (Kinds(round) \subseteq ServerErrors)
        <4>1. t \in DOMAIN tries /\ t \in pending
          BY <1>13, <2>1
        <4>2. tries'[t] = [count |-> attempt, class |-> Class(round[t]),
                           alone |-> pending = {t}, down |-> Kinds(round) \subseteq ServerErrors]
          BY <1>4, <4>1
        <4> QED BY <4>2
      <3> QED BY <3>3, <3>4 DEF IsEarned
    <2>2. CASE t \in next
      <3>1. entries'[t] = NoEntry
        BY <1>1, <1>11, <1>14, <1>15, <2>2 DEF EntriesAreLast
      <3> QED BY <3>1 DEF NoEntry, None
    <2>3. CASE t \notin pending
      <3>1. entries'[t] = entries[t] /\ tries'[t] = tries[t]
        BY <1>15, <2>3
      <3> QED BY <3>1 DEF IInv, EntriesAreEarned, IsEarned
    <2> QED BY <2>1, <2>2, <2>3
  <1>22. RefusalIsKept'
    <2>1. ~over
      BY <1>3 DEF IInv, RefusalIsKept
    <2>2. ASSUME over' PROVE pc' \in {"after", "settle"} /\ stopped' \notin {None, "deadline"}
      <3>1. stop # None \/ IsOutageRound(round)
        BY <1>6, <2>1, <2>2
      <3>2. next = {}
        BY <1>11, <3>1
      <3> QED BY <1>8, <1>12, <3>1, <3>2
    <2> QED BY <2>2 DEF RefusalIsKept
  <1>23. DeadlineHolds' /\ RoundFits'
    <2>1. remaining >= estimate \/ slow
      BY <1>3 DEF IInv, RoundFits
    <2>2. slow' \/ left >= 0
      <3>1. CASE slow \/ took > estimate
        BY <1>5, <3>1
      <3>2. CASE ~slow /\ ~(took > estimate)
        BY <1>9, <2>1, <3>2 DEF left
      <3> QED BY <3>1, <3>2
    <2>3. CASE next = {}
      <3>1. pc' = "after" /\ remaining' = left
        BY <1>8, <2>3
      <3> QED BY <2>2, <3>1 DEF DeadlineHolds, RoundFits
    <2>4. CASE next # {}
      <3>1. remaining' = left - sleep /\ left >= sleep + longest /\ estimate' = longest
        BY <1>4, <1>8, <1>11, <2>4
      <3>2. remaining' >= estimate' /\ remaining' >= 0
        BY <1>10, <3>1
      <3> QED BY <3>2 DEF DeadlineHolds, RoundFits
    <2> QED BY <2>3, <2>4
  <1>24. pc' \in {"round", "after"}
    BY <1>8
  <1>25. BudgetIsStored'
    BY <1>3, <1>24 DEF IInv, BudgetIsStored, StoredFor
  <1>26. /\ BatchTokens(Batch)' = BatchTokens(Batch) + Tokens(round, pending)
         /\ BatchTokens(Batch) \in Nat /\ BatchTokens(Batch)' \in Nat
         /\ BatchTokens(Batch)' <= Load
    <2>1. \A t \in pending : entries[t].tokens = 0 /\ entries'[t].tokens = round[t].tokens
      <3> SUFFICES ASSUME NEW t \in pending
                   PROVE  entries[t].tokens = 0 /\ entries'[t].tokens = round[t].tokens
        OBVIOUS
      <3>1. entries[t].tokens = 0
        BY <1>1 DEF EntriesAreLast, NoEntry
      <3>2. CASE t \in next
        BY <1>11, <1>14, <1>15, <3>1, <3>2
      <3>3. CASE t \notin next
        BY <1>15, <3>3, <3>1
      <3> QED BY <3>1, <3>2, <3>3
    <2>2. \A t \in Batch \ pending : entries'[t].tokens = entries[t].tokens
      BY <1>14, <1>15
    <2>3. Tokens(entries', Batch) = Tokens(entries, Batch) + Tokens(round, pending)
      BY <1>14, <2>1, <2>2, TokensAreAdded
    <2>4. BatchTokens(Batch)' = Tokens(entries', Batch)
      BY <1>13 DEF BatchTokens, Tokens
    <2>5. Tokens(entries, Batch) \in Nat /\ Tokens(entries', Batch) \in Nat
          /\ Tokens(entries', Batch) <= Load
      BY <1>1, BatchIsALoad DEF TypeOK, CallIsShaped
    <2> QED BY <2>3, <2>4, <2>5 DEF BatchTokens
  <1>27. Load \in Nat /\ Debt \in Nat /\ Debt' = Debt /\ faults \in Nat /\ faults' \in Nat
    BY <1>1, <1>3, DebtGrows DEF Debt, Load, CallIsShaped
  <1>28. TokensAreSaved'
    <2> SUFFICES ASSUME NEW d \in 0..MaxDay, stored.day <= d
                 PROVE  billed'[d] <= StoredFor(d)' + Debt' + Unsaved(d)'
      BY <1>3 DEF TokensAreSaved
    <2>1. /\ billed[d] <= StoredFor(d) + Debt + Unsaved(d) /\ billed[d] \in Nat
          /\ StoredFor(d)' = StoredFor(d) /\ StoredFor(d) \in Nat
      BY <1>1, <1>3 DEF IInv, TokensAreSaved, StoredFor, TypeOK, Budgets
    <2>2. CASE d = budget.day
      <3>1. billed'[d] = billed[d] + Tokens(round, pending)
        BY <1>4, <1>17, <2>2
      <3>2. Unsaved(d) = BatchTokens(Batch) /\ Unsaved(d)' = BatchTokens(Batch)'
        BY <1>3, <1>24, <2>2 DEF Unsaved
      <3> QED BY <1>16, <1>26, <1>27, <2>1, <3>1, <3>2
    <2>3. CASE d # budget.day
      <3>1. billed'[d] = billed[d]
        BY <1>4, <1>17, <2>3
      <3>2. Unsaved(d) = 0 /\ Unsaved(d)' = 0
        BY <1>3, <2>3 DEF Unsaved
      <3> QED BY <1>27, <2>1, <3>1, <3>2
    <2> QED BY <2>2, <2>3
  <1>29. DailyBudgetHolds'
    <2>1. \A d \in 0..MaxDay : billed[d] < DailyTokenBudget + (Debt + Load)
      BY <1>27, BudgetIsDebtAndLoad DEF IInv
    <2>2. \A d \in 0..MaxDay : billed'[d] < DailyTokenBudget + (Debt' + Load)
      <3> SUFFICES ASSUME NEW d \in 0..MaxDay
                   PROVE  billed'[d] < DailyTokenBudget + (Debt' + Load)
        OBVIOUS
      <3>1. CASE d # budget.day
        BY <1>4, <1>17, <1>27, <2>1, <3>1
      <3>2. CASE d = budget.day
        <4>1. stored.day <= d /\ StoredFor(d) = budget.tokens /\ budget.tokens < DailyTokenBudget
          BY <1>3, <3>2 DEF IInv, BudgetIsStored
        <4>2. StoredFor(d)' = StoredFor(d) /\ Unsaved(d)' = BatchTokens(Batch)'
          BY <1>3, <1>24, <3>2 DEF StoredFor, Unsaved
        <4>3. billed'[d] <= StoredFor(d) + Debt + BatchTokens(Batch)'
          BY <1>3, <1>27, <1>28, <4>1, <4>2 DEF TokensAreSaved
        <4>4. billed'[d] \in Nat
          BY <1>18 DEF TypeOK
        <4> QED BY <1>17, <1>26, <1>27, <4>1, <4>3, <4>4, ConstantTypes
      <3> QED BY <3>1, <3>2
    <2>3. DailyBudgetHolds' <=>
              \A d \in 0..MaxDay : billed'[d] < DailyTokenBudget + (Debt' + Load)
      <3> DEFINE sum == (1 + faults') * BatchSize * MaxTokens
      <3>1. DailyBudgetHolds' <=> \A d \in 0..MaxDay : billed'[d] < DailyTokenBudget + sum
        BY DEF DailyBudgetHolds
      <3>2. sum = Debt' + Load
        BY <1>27, DebtGrows DEF Debt, Load
      <3> HIDE DEF sum
      <3> QED BY <3>1, <3>2
    <2> QED BY <2>2, <2>3
  <1> QED BY <1>18, <1>19, <1>20, <1>21, <1>22, <1>23, <1>25, <1>28, <1>29 DEF IInv

LEMMA AfterBatchStep == ASSUME IInv, AfterBatch PROVE IInv'
  <1>1. TypeOK /\ CallIsShaped /\ EntriesAreLast
    BY DEF IInv
  <1> DEFINE T == BatchTokens(Batch)
  <1>2. /\ pc = "after"
        /\ budget' = [budget EXCEPT !.tokens = @ + T]
        /\ stored' = IF T > 0 THEN budget' ELSE stored
        /\ \/ /\ stopped \in {None, "deadline"} /\ from + BatchSize <= Len(requests)
              /\ pc' = "batch" /\ from' = from + BatchSize /\ UNCHANGED entries
           \/ pc' = "settle" /\ entries' = MarkedNotSent /\ UNCHANGED from
        /\ stopped \notin {None, "deadline"} => pc' = "settle"
        /\ UNCHANGED <<day, strikes, errored, remaining, taken, requests, pending, attempt,
                       estimate, stopped, billed, tries, slow, over, faults>>
    BY DEF AfterBatch
  <1>3. T \in Nat
    BY <1>1, BatchIsALoad DEF TypeOK, CallIsShaped, BatchTokens
  <1> HIDE DEF T
  <1>4. /\ budget \in Budgets /\ stored \in Budgets /\ day \in 0..MaxDay
        /\ stored.day <= budget.day /\ budget.day <= day
        /\ budget.tokens = StoredFor(budget.day)
    BY <1>1, <1>2 DEF TypeOK, IInv, BudgetIsStored
  <1>5. /\ budget' \in Budgets /\ budget'.day = budget.day
        /\ budget'.tokens = budget.tokens + T
    BY <1>2, <1>3, <1>4 DEF Budgets
  <1>6. /\ stored' \in Budgets /\ stored.day <= stored'.day /\ stored'.day <= budget'.day
        /\ (budget.tokens = StoredFor(budget.day))'
        /\ T = 0 => stored' = stored
        /\ T > 0 => stored' = budget'
    <2>1. CASE T > 0
      BY <1>2, <1>4, <1>5, <2>1 DEF StoredFor, Budgets
    <2>2. CASE T = 0
      <3>1. stored' = stored
        BY <1>2, <2>2
      <3>2. budget'.tokens = budget.tokens
        BY <1>4, <1>5, <2>2 DEF Budgets
      <3> QED BY <1>4, <1>5, <2>2, <3>1, <3>2 DEF StoredFor, Budgets
    <2> QED BY <1>3, <2>1, <2>2
  <1>7. /\ InCall' = InCall /\ Queued' = Queued /\ pending = {} /\ from' \in Nat /\ from' >= 1
        /\ pc' \in {"batch", "settle"}
    <2>1. from \in Nat /\ from >= 1 /\ from + BatchSize \in Nat /\ from + BatchSize >= 1
      BY <1>1, ConstantTypes DEF TypeOK, CallIsShaped
    <2>2. pending = {}
      BY <1>1, <1>2 DEF CallIsShaped
    <2> QED BY <1>2, <2>1, <2>2 DEF InCall, Queued
  <1>8. /\ DOMAIN entries' = InCall /\ EntriesAreEarned'
        /\ \A t \in InCall : entries'[t] \in Entries
        /\ pc' = "settle" => \A t \in InCall : entries'[t] # NoEntry
    <2>1. CASE pc' = "batch" /\ UNCHANGED entries
      BY <1>1, <1>2, <1>7, <2>1
         DEF IInv, EntriesAreEarned, IsEarned, TypeOK, CallIsShaped
    <2>2. CASE entries' = MarkedNotSent /\ UNCHANGED from
      BY <1>2, <2>2, NotSentIsHarmless
    <2> QED BY <1>2, <2>1, <2>2
  <1>9. TypeOK'
    <2>1. stored'.day <= day
      BY <1>4, <1>5, <1>6 DEF Budgets
    <2> QED BY <1>1, <1>2, <1>5, <1>6, <1>7, <1>8, <2>1 DEF TypeOK
  <1>10. CallIsShaped'
    BY <1>1, <1>2, <1>7, <1>8 DEF CallIsShaped
  <1>11. EntriesAreLast'
    <2>1. CASE pc' = "batch"
      <3>1. from' = from + BatchSize /\ entries' = entries
        BY <1>2, <2>1
      <3>2. Waiting' = Later
        BY <1>2, <3>1 DEF Waiting, Later
      <3> QED BY <1>1, <1>2, <1>7, <2>1, <3>1, <3>2 DEF EntriesAreLast
    <2>2. CASE pc' = "settle"
      BY <1>2, <1>7, <2>2 DEF EntriesAreLast
    <2> QED BY <1>7, <2>1, <2>2
  <1>12. RefusalIsKept' /\ DeadlineHolds' /\ RoundFits'
    BY <1>2, <1>7 DEF IInv, RefusalIsKept, DeadlineHolds, RoundFits
  <1>13. BudgetIsStored'
    BY <1>2, <1>4, <1>5, <1>6, <1>7 DEF BudgetIsStored
  <1>14. DailyBudgetHolds'
    BY <1>2 DEF IInv, DailyBudgetHolds
  <1>15. Debt' = Debt /\ Debt \in Nat
    BY <1>1, <1>2, DebtGrows DEF Debt, Load, CallIsShaped
  <1>16. TokensAreSaved'
    <2> SUFFICES ASSUME NEW d \in 0..MaxDay, stored'.day <= d
                 PROVE  billed[d] <= StoredFor(d)' + Debt + Unsaved(d)'
      BY <1>2, <1>15 DEF TokensAreSaved
    <2>1. Unsaved(d)' = 0
      BY <1>7 DEF Unsaved
    <2>2. stored.day <= d
      BY <1>4, <1>6 DEF Budgets
    <2>3. billed[d] <= StoredFor(d) + Debt + Unsaved(d) /\ billed[d] \in Nat
      BY <1>1, <2>2 DEF IInv, TokensAreSaved, TypeOK
    <2>4. Unsaved(d) = IF d = budget.day THEN T ELSE 0
      BY <1>2 DEF Unsaved, T
    <2>5. StoredFor(d) \in Nat /\ StoredFor(d)' \in Nat
      BY <1>4, <1>6 DEF StoredFor, Budgets
    <2>6. CASE d = budget.day
      <3>1. StoredFor(d)' = StoredFor(d) + T
        <4>1. StoredFor(d) = budget.tokens
          BY <1>4, <2>6
        <4>2. CASE T = 0
          BY <1>6, <2>5, <4>2 DEF StoredFor
        <4>3. CASE T > 0
          <5>1. stored'.day = d /\ stored'.tokens = budget.tokens + T
            BY <1>5, <1>6, <2>6, <4>3
          <5> QED BY <4>1, <5>1 DEF StoredFor
        <4> QED BY <1>3, <4>2, <4>3
      <3> QED BY <1>3, <1>15, <2>1, <2>3, <2>4, <2>5, <2>6, <3>1
    <2>7. CASE d # budget.day
      <3>1. StoredFor(d)' >= StoredFor(d)
        <4>1. CASE T = 0
          BY <1>6, <2>5, <4>1 DEF StoredFor
        <4>2. CASE T > 0
          <5>1. stored'.day = budget.day
            BY <1>5, <1>6, <4>2
          <5>2. d > budget.day
            BY <1>4, <2>7, <5>1 DEF Budgets
          <5>3. StoredFor(d) = 0
            BY <1>4, <5>2 DEF StoredFor, Budgets
          <5> QED BY <2>5, <5>3
        <4> QED BY <1>3, <4>1, <4>2
      <3> QED BY <1>15, <2>1, <2>3, <2>4, <2>5, <2>7, <3>1
    <2> QED BY <2>6, <2>7
  <1> QED BY <1>8, <1>9, <1>10, <1>11, <1>12, <1>13, <1>14, <1>16 DEF IInv

LEMMA SettleChunkStep == ASSUME IInv, SettleChunk PROVE IInv'
  <1>1. TypeOK /\ CallIsShaped
    BY DEF IInv
  <1> DEFINE Leaving == {u \in InCall : LeavesQueue(u)}
  <1>2. /\ pc = "settle"
        /\ errored' = errored \cup {t \in InCall : IsMarked(t)}
        /\ strikes' = [t \in Queued \ Leaving |->
                          IF t \in InCall /\ entries[t].outcome = "struck" THEN strikes[t] + 1
                          ELSE strikes[t]]
        /\ UNCHANGED <<day, stored, billed, faults>>
    BY DEF SettleChunk
  <1>3. DOMAIN strikes' = Queued \ Leaving
    BY <1>2
  <1>4. DOMAIN strikes' \subseteq Threads
    BY <1>1, <1>3 DEF TypeOK
  <1>5. errored' \subseteq Threads \ DOMAIN strikes'
    <2>1. \A t \in errored : t \in Threads /\ t \notin DOMAIN strikes'
      BY <1>1, <1>3 DEF TypeOK
    <2>2. \A t \in InCall : IsMarked(t) => t \in Threads /\ t \notin DOMAIN strikes'
      BY <1>1, <1>3 DEF TypeOK, LeavesQueue
    <2> QED BY <1>2, <2>1, <2>2
  <1>6. \A t \in DOMAIN strikes' : strikes'[t] \in 0..MaxStrikes - 1
    <2> SUFFICES ASSUME NEW t \in Queued \ Leaving
                 PROVE  strikes'[t] \in 0..MaxStrikes - 1
      BY <1>3
    <2>1. strikes[t] \in 0..MaxStrikes - 1
      BY <1>1 DEF TypeOK
    <2>2. CASE t \in InCall /\ entries[t].outcome = "struck"
      <3>1. ~(strikes[t] + 1 >= MaxStrikes) /\ strikes'[t] = strikes[t] + 1
        BY <1>2, <2>2 DEF LeavesQueue, IsMarked
      <3> QED BY <2>1, <3>1, ConstantTypes
    <2>3. CASE ~(t \in InCall /\ entries[t].outcome = "struck")
      BY <1>2, <2>1, <2>3
    <2> QED BY <2>2, <2>3
  <1>7. CASE RunEnded
    <2>1. /\ CallEnded /\ pc' = "idle" /\ over' = FALSE
          /\ remaining' = SoftLimit /\ taken' = {} /\ slow' = FALSE
      BY <1>7 DEF RunEnded
    <2>2. remaining' \in Int /\ remaining' >= 0 /\ taken' \subseteq Threads
      BY <2>1, ConstantTypes
    <2>3. slow' \in BOOLEAN
      BY <2>1, Zenon
    <2> QED BY <1>2, <1>4, <1>5, <1>6, <2>1, <2>2, <2>3, EndedStep
  <1>8. CASE /\ ~StopsRun(stopped) /\ pc' = "chunk" /\ CallEnded
             /\ UNCHANGED <<remaining, taken, slow, over>>
    <2>1. ~over
      BY <1>8 DEF StopsRun, IInv, RefusalIsKept
    <2>2. over' = FALSE /\ slow' \in BOOLEAN
      BY <1>1, <1>8, <2>1, Zenon DEF CallIsShaped
    <2>3. remaining' \in Int /\ taken' \subseteq Threads
      BY <1>1, <1>8 DEF TypeOK
    <2>4. remaining' >= 0 \/ slow'
      BY <1>8 DEF IInv, DeadlineHolds
    <2> QED BY <1>2, <1>4, <1>5, <1>6, <1>8, <2>2, <2>3, <2>4, EndedStep
  <1> QED BY <1>7, <1>8 DEF SettleChunk

LEMMA StepKeepsIInv == IInv /\ [Next]_vars => IInv'
  <1> SUFFICES ASSUME IInv, [Next]_vars PROVE IInv'
    OBVIOUS
  <1>1. CASE Midnight BY <1>1, MidnightStep
  <1>2. CASE Die BY <1>2, DieStep
  <1>3. CASE StartRun BY <1>3, StartRunStep
  <1>4. CASE TakeChunk BY <1>4, TakeChunkStep
  <1>5. CASE FinishRun BY <1>5, FinishRunStep
  <1>6. CASE StartBatch BY <1>6, StartBatchStep
  <1>7. CASE HoldBatch BY <1>7, HoldBatchStep
  <1>8. CASE Round BY <1>8, RoundStep
  <1>9. CASE AfterBatch BY <1>9, AfterBatchStep
  <1>10. CASE SettleChunk BY <1>10, SettleChunkStep
  <1>11. CASE UNCHANGED vars
    <2>1. UNCHANGED <<stored, strikes, errored, taken, callVars, billed, tries, over, faults,
                      slow, pc, remaining, day>>
      BY <1>11 DEF vars, persistent
    <2>2. day' \in day..MaxDay
      BY <2>1 DEF IInv, TypeOK
    <2> QED BY <2>1, <2>2, QuietStep
  <1> QED BY <1>1, <1>2, <1>3, <1>4, <1>5, <1>6, <1>7, <1>8, <1>9, <1>10, <1>11 DEF Next

-----------------------------------------------------------------------------
(* The theorems.                                                           *)

\* The invariant holds in every state.
THEOREM Invariant == Spec => []IInv
  BY InitiallyIInv, StepKeepsIInv, PTL DEF Spec

\* The call's requests are queued, its entries complete when it is settled, and
\* no thread is both queued and marked with Jev/Error.
THEOREM TypeCorrectness == Spec => []TypeOK
  <1>1. IInv => TypeOK
    BY DEF IInv
  <1> QED BY <1>1, Invariant, PTL

\* The daily token budget: the batches begun on a day cost less than the budget
\* and one batch, and one more for each execution that died unsaved.
THEOREM BudgetIsKept == Spec => []DailyBudgetHolds
  <1>1. IInv => DailyBudgetHolds
    BY DEF IInv
  <1> QED BY <1>1, Invariant, PTL

\* A call leaves the run its time, unless a round took longer than estimated.
THEOREM DeadlineIsKept == Spec => []DeadlineHolds
  <1>1. IInv => DeadlineHolds
    BY DEF IInv
  <1> QED BY <1>1, Invariant, PTL

\* A strike or Jev/Error is for the thread's own failure, at its last attempt.
THEOREM StrikesAreEarned == Spec => FailuresAreEarned
  <1> DEFINE Earns(t) ==
               t \in errored' \/ (t \in DOMAIN strikes' /\ strikes'[t] > strikes[t]) =>
                   /\ tries[t].class \in {"final", "retryable"}
                   /\ tries[t].class = "retryable" => tries[t].count = MaxAttempts
                   /\ tries[t].down => tries[t].alone
  <1>1. ASSUME IInv, [Next]_vars, NEW t \in InCall PROVE Earns(t)
    <2>1. t \in Queued /\ t \notin errored /\ strikes[t] \in Int
      BY <1>1 DEF IInv, TypeOK
    <2>2. CASE SettleChunk
      <3>1. t \in errored' => entries[t].outcome \in {"marked", "struck"}
        BY <2>1, <2>2 DEF SettleChunk, IsMarked
      <3>2. t \in DOMAIN strikes' /\ strikes'[t] > strikes[t] => entries[t].outcome = "struck"
        BY <2>1, <2>2 DEF SettleChunk
      <3> QED BY <1>1, <3>1, <3>2 DEF IInv, EntriesAreEarned, IsEarned
    <2>3. CASE UNCHANGED <<strikes, errored>>
      BY <2>1, <2>3
    <2>4. SettleChunk \/ UNCHANGED <<strikes, errored>>
      BY <1>1 DEF Next, vars, Midnight, Die, StartRun, TakeChunk, FinishRun, StartBatch,
          HoldBatch, Round, AfterBatch, persistent
    <2> QED BY <2>2, <2>3, <2>4
  <1>2. IInv /\ [Next]_vars => [\A t \in InCall : Earns(t)]_vars
    BY <1>1
  <1> QED BY <1>2, Invariant, PTL DEF Spec, FailuresAreEarned

\* After a refusal or an outage the run sends nothing more.
THEOREM NothingAfterRefusal == Spec => RefusalEndsSending
  <1>1. ASSUME IInv, [Next]_vars, over PROVE billed' = billed /\ tries' \in {tries, <<>>}
    <2>1. pc \in {"after", "settle"}
      BY <1>1 DEF IInv, RefusalIsKept
    <2>2. AfterBatch \/ SettleChunk \/ Die \/ UNCHANGED vars
      BY <1>1, <2>1 DEF Next, Midnight, StartRun, TakeChunk, FinishRun, StartBatch, HoldBatch,
          Round
    <2>3. CASE AfterBatch BY <2>3 DEF AfterBatch
    <2>4. CASE SettleChunk
      <3>1. stopped # None
        BY <1>1 DEF IInv, RefusalIsKept
      <3> QED BY <2>4, <3>1 DEF SettleChunk, StopsRun, RunEnded, CallEnded
    <2>5. CASE Die BY <2>5 DEF Die, RunEnded, CallEnded, persistent
    <2>6. CASE UNCHANGED vars BY <2>6 DEF vars
    <2> QED BY <2>2, <2>3, <2>4, <2>5, <2>6
  <1>2. IInv /\ [Next]_vars => [over => billed' = billed /\ tries' \in {tries, <<>>}]_vars
    BY <1>1
  <1> QED BY <1>2, Invariant, PTL DEF Spec, RefusalEndsSending

=============================================================================
