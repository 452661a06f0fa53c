--------------------------- MODULE SettlementProofs ---------------------------
(***************************************************************************)
(* Proofs about Settlement: type correctness, that Jev/Error is            *)
(* recognised, that the trigger has a position, and that stale labels cost *)
(* no strike and answers are applied.                                      *)
(*                                                                         *)
(* IDs of a name are numbered in the order they are made, and the list of  *)
(* those known grows in that order although an old ID can be remembered    *)
(* again: the cache that remembers is never older than the list.  So an ID *)
(* that is dropped has MaxIds newer ones.                                  *)
(***************************************************************************)
EXTENDS Settlement, FiniteSetTheorems, SequenceTheorems, TLAPS

-----------------------------------------------------------------------------
(* The inductive invariant.                                                *)

Settled == {"resolve", "reload", "refresh", "modify"}

\* A label has the newest number of its name, and there are as many as changes
\* allow.
LabelsAreNumbered ==
    \A n \in Names :
        /\ labels[n] \in {0, made[n]}
        /\ made[n] <= changes + (IF labels[n] = 0 THEN 0 ELSE 1)

\* The known IDs are of Jev/Error, each newer than the one before.
KnownIsIncreasing ==
    /\ \A i \in DOMAIN known :
          known[i][1] = JevError /\ known[i][2] \in 1..made[JevError]
    /\ \A i, j \in DOMAIN known : i <= j => known[j][2] - known[i][2] >= j - i

\* The cache lives in a run, and is as new as the newest ID that is known.
CacheIsNewest ==
    /\ pc \notin Settled \cup {"run"} => cache = NoCache
    /\ \A n \in DOMAIN cache \cap Names : cache[n] \in 1..made[n]
    /\ JevError \in DOMAIN cache =>
          \A i \in DOMAIN known : known[i][2] <= cache[JevError]

\* What a settlement is about to write.
JobIsShaped ==
    /\ pc \in Settled <=> job # NoJob
    /\ job.kind = "mark" => job.labels = {JevError} /\ job.move = "stay"
    /\ job.kind = "apply" =>
          /\ job.labels = job.asked.labels /\ (job.move = job.asked.move \/ job.scope)
          /\ job.labels \subseteq {"Work"} /\ job.move \in {"stay", "archive", "Work"}
    /\ pc = "modify" => JobNames \subseteq DOMAIN cache
    /\ pc = "modify" /\ job.kind = "mark" => <<JevError, cache[JevError]>> \in ToSet(known)

\* Every Jev/Error of this installation that is not given up is known.
AddedAreKnown ==
    \A p \in added :
        /\ p[2][1] = JevError /\ p[2][2] \in Nat
        /\ made[JevError] - p[2][2] < MaxIds => p[2] \in ToSet(known)

\* An install or uninstall that is under way.
SetupIsOrdered ==
    /\ trigger => position
    /\ pc = "keys" => ~trigger
    /\ pc \in {"lookup", "oldTrigger", "newTrigger"} => position

\* After Gmail has refused a label, the cache is right until a label changes.
RetryIsCurrent ==
    steady =>
        /\ job.kind = "apply" /\ pc = "reload" => JobNames \subseteq DOMAIN Listed
        /\ job.kind = "apply" /\ pc \in {"resolve", "reload", "modify"} =>
              (job.retried => \A n \in DOMAIN cache \cap Names : cache[n] = labels[n])

IInv ==
    /\ TypeOK /\ LabelsAreNumbered /\ KnownIsIncreasing /\ CacheIsNewest
    /\ JobIsShaped /\ AddedAreKnown /\ SetupIsOrdered /\ RetryIsCurrent

-----------------------------------------------------------------------------
(* The list of the known IDs.                                              *)

LEMMA ConstantTypes ==
    /\ IsFiniteSet(Threads) /\ MaxIds \in Nat \ {0}
    /\ MaxStoredStrikes \in Nat /\ MaxChanges \in Nat /\ MaxMail \in Nat
    /\ MaxSetups \in Nat /\ MaxFaults \in Nat
  BY SettlementAssumption DEF SettlementAssumption

LEMMA LastOrBefore ==
    ASSUME NEW n \in Nat, NEW i \in 1..n
    PROVE  i = n \/ i \in 1..n - 1
  OBVIOUS

\* An ID as new as the list is its last already, or is put behind the others.
LEMMA NewestIsLast ==
    ASSUME NEW s \in Seq(LabelId), NEW c \in Nat, NEW id \in LabelId, id[2] = c,
           \A i \in DOMAIN s : s[i][2] \in Nat /\ s[i][2] <= c,
           \A i, j \in DOMAIN s : i <= j => s[j][2] - s[i][2] >= j - i,
           \A i \in DOMAIN s : s[i][1] = id[1]
    PROVE  LET all == Append(Others(s, id), id)
           IN  \/ all = s /\ Len(s) # 0 /\ s[Len(s)] = id
               \/ all = Append(s, id) /\ \A i \in DOMAIN s : s[i][2] < c
  <1>1. Len(s) \in Nat /\ DOMAIN s = 1..Len(s)
    OBVIOUS
  <1>2. CASE \A i \in DOMAIN s : s[i] # id
    <2>1. Others(s, id) = s
      BY <1>2 DEF Others
    <2>2. ASSUME NEW i \in DOMAIN s PROVE s[i][2] < c
      <3>1. s[i] \in LabelId
        BY <1>1
      <3>2. s[i][2] # id[2]
        BY <1>2, <3>1 DEF LabelId
      <3> QED BY <3>2
    <2> QED BY <2>1, <2>2
  <1>3. CASE \E i \in DOMAIN s : s[i] = id
    <2>1. PICK k \in DOMAIN s : s[k] = id /\ Others(s, id) = RemoveAt(s, k)
      BY <1>3 DEF Others
    <2>2. k \in Nat /\ k <= Len(s)
      BY <1>1, <2>1
    <2>3. k = Len(s)
      <3>1. Len(s) \in DOMAIN s /\ k <= Len(s)
        BY <1>1, <2>1
      <3>2. s[Len(s)][2] - s[k][2] >= Len(s) - k /\ s[Len(s)][2] <= c /\ s[Len(s)][2] \in Nat
        BY <2>1, <3>1
      <3>3. s[k][2] = c
        BY <2>1
      <3>4. Len(s) - k <= 0
        BY <1>1, <2>2, <3>2, <3>3
      <3> QED BY <1>1, <2>2, <3>4
    <2>4. RemoveAt(s, Len(s)) = SubSeq(s, 1, Len(s) - 1)
      <3>1. SubSeq(s, Len(s) + 1, Len(s)) = <<>>
        BY <1>1
      <3>2. SubSeq(s, 1, Len(s) - 1) \in Seq(LabelId)
        BY <1>1, <2>1
      <3> QED BY <3>1, <3>2, ConcatEmptySeq DEF RemoveAt
    <2>5. Append(SubSeq(s, 1, Len(s) - 1), id) = s
      <3> DEFINE front == SubSeq(s, 1, Len(s) - 1)
      <3>1. front \in Seq(LabelId) /\ Len(front) = Len(s) - 1
            /\ \A i \in 1..Len(s) - 1 : front[i] = s[i]
        BY <1>1, <2>2
      <3> HIDE DEF front
      <3>2. Append(front, id) \in Seq(LabelId) /\ Len(Append(front, id)) = Len(s)
            /\ \A i \in 1..Len(s) : Append(front, id)[i] = s[i]
        <4>1. s[Len(s)] = id /\ Len(s) \in Nat \ {0}
          BY <1>1, <2>1, <2>3
        <4>2. Append(front, id) \in Seq(LabelId) /\ Len(Append(front, id)) = Len(front) + 1
              /\ Append(front, id)[Len(front) + 1] = id
              /\ \A i \in 1..Len(front) : Append(front, id)[i] = front[i]
          BY <3>1, AppendProperties
        <4>3. ASSUME NEW i \in 1..Len(s) PROVE Append(front, id)[i] = s[i]
          <5>1. CASE i = Len(s)
            BY <3>1, <4>1, <4>2, <5>1
          <5>2. CASE i \in 1..Len(s) - 1
            BY <3>1, <4>1, <4>2, <5>2
          <5> QED BY <1>1, <5>1, <5>2, LastOrBefore
        <4> QED BY <3>1, <4>1, <4>2, <4>3
      <3> QED BY <3>2, SeqEqual DEF front
    <2> QED BY <1>1, <2>1, <2>2, <2>3, <2>4, <2>5
  <1> QED BY <1>2, <1>3

\* The list stays increasing and short, has the ID, and drops none but the oldest.
LEMMA RememberedIds ==
    ASSUME known \in LabelIds, KnownIsIncreasing, NEW c \in 1..made[JevError],
           c \in Number, made[JevError] \in Nat, made' = made,
           \A i \in DOMAIN known : known[i][2] <= c,
           known' = AddJevErrorLabelId(known, <<JevError, c>>)
    PROVE  /\ known' \in LabelIds /\ KnownIsIncreasing'
           /\ <<JevError, c>> \in ToSet(known')
           /\ \A i \in DOMAIN known' : known'[i][2] <= c
           /\ \A x \in ToSet(known) :
                 made[JevError] - x[2] < MaxIds => x \in ToSet(known')
  <1> DEFINE id == <<JevError, c>>
             all == Append(Others(known, id), id)
  <1>1. /\ known \in Seq(LabelId) /\ Len(known) \in Nat /\ Len(known) <= MaxIds
        /\ DOMAIN known = 1..Len(known)
    BY DEF LabelIds
  <1>2. id \in LabelId /\ id[2] = c /\ id[1] = JevError /\ c \in Nat
    BY ConstantTypes DEF LabelId, Names, Number
  <1>3. /\ \A i \in DOMAIN known : known[i][2] \in Nat /\ known[i][1] = JevError
        /\ \A i, j \in DOMAIN known : i <= j => known[j][2] - known[i][2] >= j - i
    BY DEF KnownIsIncreasing
  <1> HIDE DEF id
  <1>4. \/ all = known /\ Len(known) # 0 /\ known[Len(known)] = id
        \/ all = Append(known, id) /\ \A i \in DOMAIN known : known[i][2] < c
    <2>1. \A i \in DOMAIN known : known[i][1] = id[1]
      BY <1>2, <1>3
    <2> QED BY <1>1, <1>2, <1>3, <2>1, NewestIsLast
  <1>5. known' = IF Len(all) > MaxIds THEN Tail(all) ELSE all
    BY DEF AddJevErrorLabelId, id
  <1> HIDE DEF all
  <1>6. CASE all = known /\ Len(known) # 0 /\ known[Len(known)] = id
    <2>1. known' = known
      BY <1>1, <1>5, <1>6, ConstantTypes
    <2>2. id \in ToSet(known)
      BY <1>1, <1>6 DEF ToSet
    <2> QED BY <2>1, <2>2 DEF KnownIsIncreasing, id
  <1>7. CASE all = Append(known, id) /\ \A i \in DOMAIN known : known[i][2] < c
    <2>1. /\ all \in Seq(LabelId) /\ Len(all) = Len(known) + 1 /\ DOMAIN all = 1..Len(known) + 1
          /\ \A i \in 1..Len(known) : all[i] = known[i]
          /\ all[Len(known) + 1] = id
      BY <1>1, <1>2, <1>7
    <2>2. \A i \in DOMAIN all : all[i][1] = JevError /\ all[i][2] \in 1..made[JevError]
                                /\ all[i][2] <= c
      <3> SUFFICES ASSUME NEW i \in DOMAIN all
                   PROVE  all[i][1] = JevError /\ all[i][2] \in 1..made[JevError]
                          /\ all[i][2] <= c
        OBVIOUS
      <3>1. CASE i \in 1..Len(known)
        BY <1>1, <2>1, <3>1 DEF KnownIsIncreasing
      <3>2. CASE i = Len(known) + 1
        BY <1>2, <2>1, <3>2
      <3> QED BY <1>1, <2>1, <3>1, <3>2
    <2>3. ASSUME NEW i \in DOMAIN all, NEW j \in DOMAIN all, i <= j
          PROVE  all[j][2] - all[i][2] >= j - i
      <3>1. CASE j \in 1..Len(known)
        <4>1. i \in 1..Len(known)
          BY <1>1, <2>1, <2>3, <3>1
        <4> QED BY <1>1, <1>3, <2>1, <2>3, <3>1, <4>1
      <3>2. CASE j = Len(known) + 1 /\ i = j
        BY <1>2, <2>1, <3>2
      <3>3. CASE j = Len(known) + 1 /\ i \in 1..Len(known)
        <4>1. Len(known) \in DOMAIN known /\ i <= Len(known) /\ i \in DOMAIN known
          BY <1>1, <3>3
        <4>2. known[Len(known)][2] - known[i][2] >= Len(known) - i
          BY <1>3, <4>1
        <4>3. known[Len(known)][2] < c /\ known[Len(known)][2] \in Nat /\ known[i][2] \in Nat
          BY <1>3, <1>7, <4>1
        <4>4. all[j][2] = c /\ all[i][2] = known[i][2]
          BY <1>2, <2>1, <3>3
        <4> QED BY <1>1, <1>2, <3>3, <4>2, <4>3, <4>4
      <3> QED BY <1>1, <2>1, <2>3, <3>1, <3>2, <3>3
    <2>4. CASE ~(Len(all) > MaxIds)
      <3>1. known' = all
        BY <1>5, <2>4
      <3>2. known' \in LabelIds
        BY <1>1, <2>1, <2>4, <3>1, ConstantTypes DEF LabelIds
      <3>3. KnownIsIncreasing'
        BY <2>2, <2>3, <3>1 DEF KnownIsIncreasing
      <3>4. id \in ToSet(known')
        <4>1. Len(known) + 1 \in DOMAIN known' /\ known'[Len(known) + 1] = id
          BY <1>1, <2>1, <3>1
        <4> QED BY <4>1 DEF ToSet
      <3>5. ASSUME NEW x \in ToSet(known) PROVE x \in ToSet(known')
        <4>1. PICK i \in DOMAIN known : x = known[i]
          BY DEF ToSet
        <4>2. i \in DOMAIN known' /\ known'[i] = x
          BY <1>1, <2>1, <3>1, <4>1
        <4> QED BY <4>2 DEF ToSet
      <3> QED BY <2>2, <3>1, <3>2, <3>3, <3>4, <3>5 DEF id
    <2>5. CASE Len(all) > MaxIds
      <3>1. Len(known) = MaxIds /\ MaxIds >= 1 /\ MaxIds \in Nat
        BY <1>1, <2>1, <2>5, ConstantTypes
      <3>2. /\ known' = Tail(all) /\ known' \in Seq(LabelId) /\ Len(known') = MaxIds
            /\ DOMAIN known' = 1..MaxIds
            /\ \A i \in 1..MaxIds : known'[i] = all[i + 1] /\ i + 1 \in DOMAIN all
        <4>1. known' = Tail(all)
          BY <1>5, <2>5
        <4>2. all # <<>>
          BY <1>1, <1>2, <1>7, AppendProperties
        <4>3. Tail(all) \in Seq(LabelId) /\ Len(Tail(all)) = Len(all) - 1
              /\ \A i \in 1..Len(Tail(all)) : Tail(all)[i] = all[i + 1]
          BY <2>1, <4>2, HeadTailProperties
        <4>4. Len(Tail(all)) = MaxIds
          BY <1>1, <2>1, <3>1, <4>3
        <4>5. known' \in Seq(LabelId) /\ Len(known') = MaxIds
          BY <4>1, <4>3, <4>4
        <4>6. DOMAIN known' = 1..MaxIds
          BY <4>5
        <4>7. ASSUME NEW i \in 1..MaxIds PROVE known'[i] = all[i + 1] /\ i + 1 \in DOMAIN all
          <5>1. i \in 1..Len(Tail(all))
            BY <4>4
          <5>2. i + 1 \in DOMAIN all
            BY <2>1, <3>1
          <5> QED BY <4>1, <4>3, <5>1, <5>2
        <4> QED BY <4>1, <4>5, <4>6, <4>7
      <3>3. known' \in LabelIds
        BY <3>1, <3>2 DEF LabelIds
      <3>4. KnownIsIncreasing'
        <4>1. \A i \in DOMAIN known' : known'[i][1] = JevError
                                       /\ known'[i][2] \in 1..made[JevError]
          BY <2>2, <3>2
        <4>2. ASSUME NEW i \in DOMAIN known', NEW j \in DOMAIN known', i <= j
              PROVE  known'[j][2] - known'[i][2] >= j - i
          <5>1. i + 1 \in DOMAIN all /\ j + 1 \in DOMAIN all /\ i + 1 <= j + 1
            BY <3>1, <3>2, <4>2
          <5>2. all[j + 1][2] - all[i + 1][2] >= (j + 1) - (i + 1)
            BY <2>3, <5>1
          <5>3. i \in Nat /\ j \in Nat
            BY <3>1, <3>2
          <5>4. known'[i] = all[i + 1] /\ known'[j] = all[j + 1]
            BY <3>2
          <5>5. all[i + 1][2] \in Nat /\ all[j + 1][2] \in Nat
            BY <2>2, <5>1
          <5> QED BY <5>2, <5>3, <5>4, <5>5
        <4> QED BY <4>1, <4>2 DEF KnownIsIncreasing
      <3>5. id \in ToSet(known')
        <4>1. MaxIds \in DOMAIN known' /\ known'[MaxIds] = id
          <5>1. MaxIds \in 1..MaxIds
            BY <3>1
          <5>2. known'[MaxIds] = all[MaxIds + 1]
            BY <3>2, <5>1
          <5> QED BY <2>1, <3>1, <3>2, <5>1, <5>2
        <4> QED BY <4>1 DEF ToSet
      <3>6. ASSUME NEW x \in ToSet(known), made[JevError] - x[2] < MaxIds
            PROVE  x \in ToSet(known')
        <4>1. PICK i \in DOMAIN known : x = known[i]
          BY DEF ToSet
        <4>2. i # 1
          <5>1. all[Len(known) + 1][2] - all[i][2] >= Len(known) + 1 - i
            BY <1>1, <2>1, <2>3
          <5>2. all[i][2] = x[2] /\ all[Len(known) + 1][2] = c /\ x[2] \in Nat
            BY <1>1, <1>2, <1>3, <2>1, <4>1
          <5> QED BY <1>2, <3>1, <3>6, <5>1, <5>2
        <4>3. i - 1 \in DOMAIN known' /\ known'[i - 1] = x
          <5>1. i \in 1..MaxIds /\ i - 1 \in 1..MaxIds
            BY <1>1, <3>1, <4>1, <4>2
          <5>2. known'[i - 1] = all[(i - 1) + 1]
            BY <3>2, <5>1
          <5>3. (i - 1) + 1 = i
            BY <5>1
          <5> QED BY <1>1, <2>1, <3>2, <4>1, <5>1, <5>2, <5>3
        <4> QED BY <4>3 DEF ToSet
      <3>7. \A i \in DOMAIN known' : known'[i][2] <= c
        BY <2>2, <3>2
      <3> QED BY <3>3, <3>4, <3>5, <3>6, <3>7 DEF id
    <2> QED BY <2>4, <2>5
  <1> QED BY <1>4, <1>6, <1>7

-----------------------------------------------------------------------------
(* What the steps have in common.                                          *)

LEMMA LabelTypes ==
    ASSUME IInv
    PROVE  /\ \A n \in Names : labels[n] \in Nat /\ made[n] \in Nat /\ labels[n] <= made[n]
           /\ \A n \in Names : labels[n] # 0 => labels[n] = made[n] /\ made[n] >= 1
           /\ JevError \in Names
           /\ \A n \in Names : Id(n) \in LabelId
           /\ DOMAIN Listed \subseteq Names
           /\ \A n \in DOMAIN Listed : Listed[n] = labels[n] /\ labels[n] # 0
           /\ DOMAIN NoCache \cap Names = {}
  <1>1. \A n \in Names : labels[n] \in Number /\ made[n] \in Number
    BY DEF IInv, TypeOK
  <1>2. Number \subseteq Nat
    BY ConstantTypes DEF Number
  <1>3. \A n \in Names : labels[n] \in {0, made[n]}
    BY DEF IInv, LabelsAreNumbered
  <1>4. JevError \in Names
    BY DEF Names
  <1>5. \A n \in Names : Id(n) \in LabelId
    BY <1>1 DEF Id, LabelId
  <1>6. DOMAIN Listed \subseteq Names /\ \A n \in DOMAIN Listed : Listed[n] = labels[n] /\ labels[n] # 0
    BY DEF Listed
  <1>7. DOMAIN NoCache \cap Names = {}
    BY DEF NoCache, Names, JevError
  <1>8. ASSUME NEW n \in Names
        PROVE  labels[n] <= made[n] /\ (labels[n] # 0 => labels[n] = made[n] /\ made[n] >= 1)
    <2>1. labels[n] \in Nat /\ made[n] \in Nat
      BY <1>1, <1>2
    <2>2. labels[n] = 0 \/ labels[n] = made[n]
      BY <1>3
    <2> QED BY <2>1, <2>2
  <1> QED BY <1>1, <1>2, <1>4, <1>5, <1>6, <1>7, <1>8

\* A job under way, by its kind.
LEMMA JobTypes ==
    ASSUME IInv
    PROVE  /\ job.kind \in {"none", "apply", "mark"}
           /\ job.kind = "none" <=> job = NoJob
           /\ pc \in Settled <=> job # NoJob
           /\ pc \in Settled =>
                 /\ job.thread \in Threads /\ job.labels \subseteq Names
                 /\ job.move \in Moves /\ job.retried \in BOOLEAN
                 /\ JobNames \subseteq Names
           /\ job.kind = "apply" => JobNames \subseteq {"Work"} /\ job.scope \in BOOLEAN
           /\ job.kind = "mark" => JobNames = {JevError}
  <1>1. job \in Jobs /\ JobIsShaped
    BY DEF IInv, TypeOK
  <1>2. NoJob.kind = "none"
    BY DEF NoJob
  <1>3. CASE job = NoJob
    BY <1>1, <1>2, <1>3 DEF JobIsShaped
  <1>4. CASE job \in [kind : {"apply"}, thread : Threads, labels : SUBSET Names, move : Moves,
                      asked : Decisions, tried : SUBSET Names, retried : BOOLEAN,
                      scope : BOOLEAN]
    <2>1. job.kind = "apply" /\ job.thread \in Threads /\ job.labels \subseteq Names
          /\ job.move \in Moves /\ job.retried \in BOOLEAN /\ job.scope \in BOOLEAN
      BY <1>4
    <2>2. job # NoJob
      BY <1>2, <2>1
    <2>3. job.labels \subseteq {"Work"} /\ job.move \in {"stay", "archive", "Work"}
      BY <1>1, <2>1 DEF JobIsShaped
    <2>4. JobNames \subseteq {"Work"} /\ JobNames \subseteq Names
      BY <2>3 DEF JobNames, Names, JevError
    <2> QED BY <1>1, <2>1, <2>2, <2>4 DEF JobIsShaped
  <1>5. CASE job \in [kind : {"mark"}, thread : Threads, labels : SUBSET Names, move : Moves,
                      tried : SUBSET Names, retried : BOOLEAN]
    <2>1. job.kind = "mark" /\ job.thread \in Threads /\ job.labels \subseteq Names
          /\ job.move \in Moves /\ job.retried \in BOOLEAN
      BY <1>5
    <2>2. job # NoJob
      BY <1>2, <2>1
    <2>3. job.labels = {JevError} /\ job.move = "stay"
      BY <1>1, <2>1 DEF JobIsShaped
    <2>4. JobNames = {JevError} /\ JobNames \subseteq Names
      BY <2>3 DEF JobNames, Names, JevError
    <2> QED BY <1>1, <2>1, <2>2, <2>4 DEF JobIsShaped
  <1> QED BY <1>1, <1>3, <1>4, <1>5 DEF Jobs

\* No label is made or deleted, and no ID remembered.
LEMMA SameLabels ==
    ASSUME IInv, UNCHANGED <<labels, made, known, added, changes>>
    PROVE  LabelsAreNumbered' /\ KnownIsIncreasing' /\ AddedAreKnown'
  BY DEF IInv, LabelsAreNumbered, KnownIsIncreasing, AddedAreKnown

\* The cache stays, is dropped, or is the list Gmail has.
LEMMA SameCache ==
    ASSUME IInv, UNCHANGED <<labels, made, known>>,
           cache' = cache \/ cache' = NoCache \/ cache' = Listed,
           pc' \in Settled \cup {"run"} \/ cache' = NoCache
    PROVE  CacheIsNewest'
  <1>1. /\ \A n \in DOMAIN cache \cap Names : cache[n] \in 1..made[n]
        /\ JevError \in DOMAIN cache => \A i \in DOMAIN known : known[i][2] <= cache[JevError]
    BY DEF IInv, CacheIsNewest
  <1>2. \A i \in DOMAIN known : known[i][2] \in 1..made[JevError]
    BY DEF IInv, KnownIsIncreasing
  <1>3. \A n \in DOMAIN Listed : Listed[n] \in 1..made[n] /\ Listed[n] = made[n]
    BY LabelTypes
  <1>4. DOMAIN NoCache \cap Names = {} /\ JevError \in Names /\ made[JevError] \in Nat
    BY LabelTypes
  <1>5. CASE cache' = cache
    BY <1>1, <1>5 DEF CacheIsNewest
  <1>6. CASE cache' = NoCache
    BY <1>4, <1>6 DEF CacheIsNewest
  <1>7. CASE cache' = Listed
    <2>1. JevError \in DOMAIN Listed => \A i \in DOMAIN known : known[i][2] <= Listed[JevError]
      BY <1>2, <1>3, <1>4
    <2> QED BY <1>3, <1>7, <2>1 DEF CacheIsNewest
  <1> QED BY <1>5, <1>6, <1>7

\* The settlement is over, or there is none.
LEMMA NoSettlement ==
    ASSUME job' = NoJob, pc' \notin Settled
    PROVE  JobIsShaped' /\ RetryIsCurrent' /\ job' \in Jobs
  <1>1. NoJob.kind = "none"
    BY DEF NoJob
  <1> QED BY <1>1 DEF JobIsShaped, RetryIsCurrent, Settled, Jobs

\* A thread is about to be marked.
LEMMA MarkBegins ==
    ASSUME NEW t \in Threads, job' = Mark(t), pc' = "resolve"
    PROVE  JobIsShaped' /\ RetryIsCurrent' /\ job' \in Jobs
  <1>1. Mark(t) \in Jobs
    BY DEF Mark, Jobs, Names, Moves
  <1>2. /\ Mark(t).kind = "mark" /\ Mark(t).labels = {JevError} /\ Mark(t).move = "stay"
        /\ Mark(t) # NoJob
    <2>1. NoJob.kind = "none"
      BY DEF NoJob
    <2>2. Mark(t).kind = "mark" /\ Mark(t).labels = {JevError} /\ Mark(t).move = "stay"
      BY DEF Mark
    <2> QED BY <2>1, <2>2
  <1> QED BY <1>1, <1>2 DEF JobIsShaped, RetryIsCurrent, Settled

\* A saved queue holds threads and their strikes.
Queued(q) == DOMAIN q \subseteq Threads /\ \A t \in DOMAIN q : q[t] \in 0..MaxStoredStrikes

LEMMA QueueShrinks ==
    ASSUME Queued(queue), NEW t
    PROVE  Queued(Without(t)) /\ (t \notin DOMAIN Without(t))
  BY DEF Queued, Without

LEMMA StrikeStep ==
    ASSUME Queued(queue), NEW t \in Threads, StrikeOrError(t)
    PROVE  /\ Queued(queue') /\ DOMAIN queue' = DOMAIN queue
           /\ \/ pc' = "run" /\ job' = NoJob
              \/ pc' = "resolve" /\ job' = Mark(t) /\ queue' = queue
  <1>1. CASE queue[t] < MaxStoredStrikes
    <2>1. queue' = [queue EXCEPT ![t] = @ + 1] /\ pc' = "run" /\ job' = NoJob
      BY <1>1 DEF StrikeOrError, Done
    <2>2. ASSUME NEW u \in DOMAIN queue PROVE queue'[u] \in 0..MaxStoredStrikes
      BY <1>1, <2>1, ConstantTypes DEF Queued
    <2> QED BY <2>1, <2>2 DEF Queued
  <1>2. CASE ~(queue[t] < MaxStoredStrikes)
    BY <1>2 DEF StrikeOrError
  <1> QED BY <1>1, <1>2

-----------------------------------------------------------------------------
(* The owner's steps.                                                      *)

\* A label is made: every ID there is gets older.
LEMMA LabelIsMade ==
    ASSUME IInv, NEW name \in Names, labels[name] = 0,
           made' = [made EXCEPT ![name] = @ + 1],
           labels' = [labels EXCEPT ![name] = made'[name]],
           UNCHANGED <<known, added>>, changes' \in Nat, changes' >= changes
    PROVE  /\ labels' \in [Names -> Number] /\ made' \in [Names -> Number]
           /\ \A n \in Names : made[n] \in Nat /\ made'[n] \in Nat /\ made'[n] >= made[n]
           /\ labels'[name] = made'[name] /\ made'[name] >= 1
           /\ \A n \in Names \ {name} : labels'[n] = labels[n]
           /\ LabelsAreNumbered' /\ KnownIsIncreasing' /\ AddedAreKnown'
  <1>1. /\ labels \in [Names -> Number] /\ made \in [Names -> Number]
        /\ changes \in 0..MaxChanges /\ JevError \in Names
    BY LabelTypes DEF IInv, TypeOK
  <1>2. Number = 0..MaxChanges + 1 /\ MaxChanges \in Nat /\ changes \in Nat
    BY <1>1, ConstantTypes DEF Number
  <1>3. \A n \in Names : made[n] \in Nat /\ labels[n] \in Nat
    BY LabelTypes
  <1>4. \A n \in Names : /\ labels[n] \in {0, made[n]}
                         /\ made[n] <= changes + (IF labels[n] = 0 THEN 0 ELSE 1)
    BY DEF IInv, LabelsAreNumbered
  <1>5. made[name] <= changes
    BY <1>2, <1>3, <1>4
  <1>6. made[name] + 1 \in Number
    BY <1>1, <1>2, <1>3, <1>5
  <1>7. /\ made' \in [Names -> Number] /\ made'[name] = made[name] + 1
        /\ \A n \in Names \ {name} : made'[n] = made[n]
    BY <1>1, <1>6
  <1>8. /\ labels' \in [Names -> Number] /\ labels'[name] = made'[name]
        /\ \A n \in Names \ {name} : labels'[n] = labels[n]
    BY <1>1, <1>6, <1>7
  <1>9. \A n \in Names : made'[n] \in Nat /\ made'[n] >= made[n]
    BY <1>3, <1>7
  <1>10. LabelsAreNumbered'
    <2>1. ASSUME NEW n \in Names \ {name}
          PROVE  /\ labels'[n] \in {0, made'[n]}
                 /\ made'[n] <= changes' + (IF labels'[n] = 0 THEN 0 ELSE 1)
      <3>1. labels'[n] = labels[n] /\ made'[n] = made[n]
        BY <1>7, <1>8
      <3>2. /\ labels[n] \in {0, made[n]}
            /\ made[n] <= changes + (IF labels[n] = 0 THEN 0 ELSE 1)
        BY <1>4
      <3>3. made[n] <= changes' + (IF labels[n] = 0 THEN 0 ELSE 1)
        BY <1>2, <1>3, <3>2
      <3> QED BY <3>1, <3>2, <3>3
    <2>2. labels'[name] # 0 /\ made'[name] <= changes' + 1
      BY <1>2, <1>3, <1>5, <1>7, <1>8
    <2> QED BY <1>8, <2>1, <2>2 DEF LabelsAreNumbered
  <1>11. KnownIsIncreasing'
    <2>1. ASSUME NEW i \in DOMAIN known
          PROVE  known[i][1] = JevError /\ known[i][2] \in 1..made'[JevError]
      <3>1. known[i][1] = JevError /\ known[i][2] \in 1..made[JevError]
        BY DEF IInv, KnownIsIncreasing
      <3> QED BY <1>1, <1>3, <1>9, <3>1
    <2> QED BY <2>1 DEF IInv, KnownIsIncreasing
  <1>12. AddedAreKnown'
    <2>1. ASSUME NEW p \in added
          PROVE  /\ p[2][1] = JevError /\ p[2][2] \in Nat
                 /\ made'[JevError] - p[2][2] < MaxIds => p[2] \in ToSet(known)
      <3>1. /\ p[2][1] = JevError /\ p[2][2] \in Nat
            /\ made[JevError] - p[2][2] < MaxIds => p[2] \in ToSet(known)
        BY DEF IInv, AddedAreKnown
      <3>2. made[JevError] \in Nat /\ made'[JevError] \in Nat /\ made'[JevError] >= made[JevError]
            /\ MaxIds \in Nat
        BY <1>1, <1>3, <1>9, ConstantTypes
      <3>3. made'[JevError] - p[2][2] < MaxIds => made[JevError] - p[2][2] < MaxIds
        BY <3>1, <3>2
      <3> QED BY <3>1, <3>3
    <2> QED BY <2>1 DEF AddedAreKnown
  <1>13. made'[name] >= 1
    BY <1>3, <1>7
  <1> QED BY <1>3, <1>7, <1>8, <1>9, <1>10, <1>11, <1>12, <1>13

\* What no longer says anything once the cache may be stale.
LEMMA CacheGrowsOld ==
    ASSUME IInv, UNCHANGED <<pc, cache, job, known>>,
           \A n \in Names : made[n] \in Nat /\ made'[n] \in Nat /\ made'[n] >= made[n]
    PROVE  CacheIsNewest' /\ JobIsShaped'
  <1>1. ASSUME NEW n \in DOMAIN cache \cap Names PROVE cache[n] \in 1..made'[n]
    <2>1. cache[n] \in 1..made[n]
      BY DEF IInv, CacheIsNewest
    <2> QED BY <2>1
  <1>2. CacheIsNewest'
    BY <1>1 DEF IInv, CacheIsNewest
  <1>3. JobIsShaped'
    BY DEF IInv, JobIsShaped, JobNames
  <1> QED BY <1>2, <1>3

LEMMA DeleteLabelStep ==
    ASSUME IInv, NEW name \in Names, DeleteLabel(name)
    PROVE  IInv'
  <1>1. /\ labels[name] # 0 /\ labels' = [labels EXCEPT ![name] = 0]
        /\ carries' = [t \in Threads |-> carries[t] \ {Id(name)}]
        /\ removals' = removals \cup {<<t, Id(name)>> : t \in {u \in Threads :
                                       name = JevError /\ Id(name) \in carries[u]}}
        /\ steady' = FALSE /\ changes < MaxChanges /\ changes' = changes + 1
        /\ UNCHANGED <<made, archived, known, position, trigger, queue, pc, cache, job,
                       added, mail, setups, faults>>
    BY DEF DeleteLabel, properties, execution
  <1>2. /\ labels \in [Names -> Number] /\ carries \in [Threads -> SUBSET LabelId]
        /\ changes \in 0..MaxChanges /\ MaxChanges \in Nat
        /\ \A n \in Names : made[n] \in Nat /\ labels[n] \in Nat
        /\ Id(name) \in LabelId
    BY LabelTypes, ConstantTypes DEF IInv, TypeOK
  <1>3. 0 \in Number
    BY <1>2 DEF Number
  <1>4. labels' \in [Names -> Number] /\ labels'[name] = 0
        /\ \A n \in Names \ {name} : labels'[n] = labels[n]
    BY <1>1, <1>2, <1>3
  <1>5. TypeOK'
    <2>1. carries' \in [Threads -> SUBSET LabelId]
      BY <1>1, <1>2
    <2>2. removals' \subseteq Threads \X LabelId
      BY <1>1, <1>2 DEF IInv, TypeOK
    <2>3. changes' \in 0..MaxChanges
      BY <1>1, <1>2
    <2> QED BY <1>1, <1>4, <2>1, <2>2, <2>3 DEF IInv, TypeOK
  <1>6. LabelsAreNumbered'
    <2>1. ASSUME NEW n \in Names
          PROVE  /\ labels'[n] \in {0, made[n]}
                 /\ made[n] <= changes' + (IF labels'[n] = 0 THEN 0 ELSE 1)
      <3>1. /\ labels[n] \in {0, made[n]}
            /\ made[n] <= changes + (IF labels[n] = 0 THEN 0 ELSE 1)
        BY DEF IInv, LabelsAreNumbered
      <3>2. CASE n = name
        BY <1>1, <1>2, <1>4, <3>1, <3>2
      <3>3. CASE n # name
        BY <1>1, <1>2, <1>4, <3>1, <3>3
      <3> QED BY <3>2, <3>3
    <2> QED BY <1>1, <2>1 DEF LabelsAreNumbered
  <1>7. KnownIsIncreasing' /\ AddedAreKnown' /\ SetupIsOrdered' /\ RetryIsCurrent'
    BY <1>1 DEF IInv, KnownIsIncreasing, AddedAreKnown, SetupIsOrdered, RetryIsCurrent
  <1>8. CacheIsNewest' /\ JobIsShaped'
    BY <1>1, <1>2, CacheGrowsOld
  <1> QED BY <1>5, <1>6, <1>7, <1>8 DEF IInv

LEMMA CreateByUserStep ==
    ASSUME IInv, NEW name \in Names, CreateByUser(name)
    PROVE  IInv'
  <1>1. /\ labels[name] = 0 /\ made' = [made EXCEPT ![name] = @ + 1]
        /\ labels' = [labels EXCEPT ![name] = made'[name]]
        /\ steady' = FALSE /\ changes < MaxChanges /\ changes' = changes + 1
        /\ UNCHANGED <<carries, archived, removals, known, position, trigger, queue, pc,
                       cache, job, added, mail, setups, faults>>
    BY DEF CreateByUser, properties, execution
  <1>2. changes \in 0..MaxChanges /\ MaxChanges \in Nat
    BY ConstantTypes DEF IInv, TypeOK
  <1>3. changes' \in 0..MaxChanges /\ changes' \in Nat /\ changes' >= changes
    BY <1>1, <1>2
  <1>4. /\ labels' \in [Names -> Number] /\ made' \in [Names -> Number]
        /\ \A n \in Names : made[n] \in Nat /\ made'[n] \in Nat /\ made'[n] >= made[n]
        /\ LabelsAreNumbered' /\ KnownIsIncreasing' /\ AddedAreKnown'
    BY <1>1, <1>3, LabelIsMade
  <1>5. TypeOK'
    BY <1>1, <1>3, <1>4 DEF IInv, TypeOK
  <1>6. SetupIsOrdered' /\ RetryIsCurrent'
    BY <1>1 DEF IInv, SetupIsOrdered, RetryIsCurrent
  <1>7. CacheIsNewest' /\ JobIsShaped'
    BY <1>1, <1>4, CacheGrowsOld
  <1> QED BY <1>4, <1>5, <1>6, <1>7 DEF IInv

LEMMA RemoveFromThreadStep ==
    ASSUME IInv, NEW t \in Threads, RemoveFromThread(t)
    PROVE  IInv'
  <1>1. PICK id \in carries[t] :
          /\ carries' = [carries EXCEPT ![t] = @ \ {id}]
          /\ removals' = removals \cup {<<t, id>>}
    BY DEF RemoveFromThread
  <1>2. /\ changes < MaxChanges /\ changes' = changes + 1
        /\ UNCHANGED <<labels, made, archived, known, position, trigger, queue, pc, cache,
                       job, added, steady, mail, setups, faults>>
    BY DEF RemoveFromThread, properties, execution
  <1>3. /\ carries \in [Threads -> SUBSET LabelId]
        /\ changes \in 0..MaxChanges /\ MaxChanges \in Nat
        /\ \A n \in Names : made[n] \in Nat /\ labels[n] \in Nat
    BY LabelTypes, ConstantTypes DEF IInv, TypeOK
  <1>4. TypeOK'
    <2>1. carries' \in [Threads -> SUBSET LabelId] /\ id \in LabelId
      BY <1>1, <1>3
    <2>2. removals' \subseteq Threads \X LabelId
      BY <1>1, <2>1 DEF IInv, TypeOK
    <2>3. changes' \in 0..MaxChanges
      BY <1>2, <1>3
    <2> QED BY <1>2, <2>1, <2>2, <2>3 DEF IInv, TypeOK
  <1>5. LabelsAreNumbered'
    <2>1. ASSUME NEW n \in Names
          PROVE  /\ labels[n] \in {0, made[n]}
                 /\ made[n] <= changes' + (IF labels[n] = 0 THEN 0 ELSE 1)
      <3>1. /\ labels[n] \in {0, made[n]}
            /\ made[n] <= changes + (IF labels[n] = 0 THEN 0 ELSE 1)
        BY DEF IInv, LabelsAreNumbered
      <3> QED BY <1>2, <1>3, <3>1
    <2> QED BY <1>2, <2>1 DEF LabelsAreNumbered
  <1>6. KnownIsIncreasing' /\ AddedAreKnown' /\ SetupIsOrdered' /\ RetryIsCurrent'
    BY <1>2 DEF IInv, KnownIsIncreasing, AddedAreKnown, SetupIsOrdered, RetryIsCurrent,
                JobNames, Listed
  <1>7. CacheIsNewest' /\ JobIsShaped'
    BY <1>2, <1>3, CacheGrowsOld
  <1> QED BY <1>4, <1>5, <1>6, <1>7 DEF IInv

-----------------------------------------------------------------------------
(* The run's steps.                                                        *)

Stored ==
    /\ carries \in [Threads -> SUBSET LabelId] /\ archived \subseteq Threads
    /\ removals \subseteq Threads \X LabelId /\ added \subseteq Threads \X LabelId
    /\ Queued(queue)

Counted == mail \in 0..MaxMail /\ setups \in 0..MaxSetups /\ faults \in 0..MaxFaults

LEMMA StoredTypes ==
    ASSUME IInv
    PROVE  Stored /\ Counted /\ steady \in BOOLEAN /\ job \in Jobs /\ faults \in Nat
  <1>1. Stored /\ Counted /\ job \in Jobs
    BY DEF IInv, TypeOK, Stored, Counted, Queued
  <1>2. steady \in BOOLEAN
    BY DEF IInv, TypeOK
  <1>3. faults \in Nat
    BY ConstantTypes DEF IInv, TypeOK
  <1> QED BY <1>1, <1>2, <1>3

LEMMA FaultCounts ==
    ASSUME IInv, Fault, UNCHANGED <<mail, setups>>
    PROVE  Counted' /\ faults' > faults
  <1>1. faults \in 0..MaxFaults /\ MaxFaults \in Nat /\ Counted
    BY StoredTypes, ConstantTypes DEF Counted
  <1> QED BY <1>1 DEF Fault, Counted

\* A settlement ends, or there is none, or its thread is about to be marked.
LEMMA EndedStep ==
    ASSUME IInv, UNCHANGED <<labels, made, known, position, trigger, changes>>,
           AddedAreKnown', Stored', Counted', steady' \in BOOLEAN,
           \/ job' = NoJob /\ pc' \in {"run", "idle"}
           \/ \E t \in Threads : job' = Mark(t) /\ pc' = "resolve",
           cache' = cache \/ cache' = NoCache \/ cache' = Listed,
           pc' = "idle" => cache' = NoCache
    PROVE  IInv'
  <1>1. JobIsShaped' /\ RetryIsCurrent' /\ job' \in Jobs
    BY NoSettlement, MarkBegins DEF Settled
  <1>2. pc' \in {"run", "idle", "resolve"}
    OBVIOUS
  <1>3. CacheIsNewest'
    BY <1>2, SameCache DEF Settled
  <1>4. LabelsAreNumbered' /\ KnownIsIncreasing'
    BY DEF IInv, LabelsAreNumbered, KnownIsIncreasing
  <1>5. SetupIsOrdered'
    BY <1>2 DEF IInv, SetupIsOrdered
  <1>6. TypeOK'
    BY <1>1, <1>2 DEF IInv, TypeOK, Stored, Counted, Queued
  <1> QED BY <1>1, <1>3, <1>4, <1>5, <1>6 DEF IInv

LEMMA StartRunStep ==
    ASSUME IInv, StartRun
    PROVE  IInv'
  <1> DEFINE freed == {p[1] : p \in {r \in removals : r[2] \in ToSet(known)}}
  <1>1. PICK new \in SUBSET Threads :
          /\ mail + Cardinality(new) <= MaxMail /\ mail' = mail + Cardinality(new)
          /\ queue' = [t \in DOMAIN queue \cup new \cup freed |->
                         IF t \in freed \/ t \notin DOMAIN queue THEN 0 ELSE queue[t]]
    BY DEF StartRun
  <1>2. /\ pc = "idle" /\ pc' = "run" /\ removals' = {}
        /\ UNCHANGED <<labels, made, carries, archived, known, position, trigger, cache, job,
                       added, steady, changes, setups, faults>>
    BY DEF StartRun
  <1>3. job' = NoJob
    BY <1>2, JobTypes DEF Settled
  <1>4. Stored /\ Counted /\ steady \in BOOLEAN
    BY StoredTypes
  <1>5. freed \subseteq Threads
    BY <1>4 DEF Stored
  <1> HIDE DEF freed
  <1>6. Queued(queue')
    BY <1>1, <1>4, <1>5, ConstantTypes DEF Stored, Queued
  <1>7. Counted'
    <2>1. Cardinality(new) \in Nat
      BY ConstantTypes, FS_Subset, FS_CardinalityType
    <2> QED BY <1>1, <1>2, <1>4, <2>1, ConstantTypes DEF Counted
  <1>8. Stored'
    BY <1>2, <1>4, <1>6 DEF Stored
  <1>9. AddedAreKnown'
    BY <1>2, SameLabels
  <1> QED BY <1>2, <1>3, <1>4, <1>7, <1>8, <1>9, EndedStep

LEMMA EndRunStep ==
    ASSUME IInv, EndRun
    PROVE  IInv'
  <1>1. /\ pc = "run" /\ pc' = "idle" /\ cache' = NoCache
        /\ UNCHANGED <<labels, made, carries, archived, removals, known, position, trigger,
                       queue, job, added, steady, changes, mail, setups, faults>>
    BY DEF EndRun, mailbox, properties, counters
  <1>2. job' = NoJob
    BY <1>1, JobTypes DEF Settled
  <1>3. Stored' /\ Counted' /\ steady' \in BOOLEAN /\ AddedAreKnown'
    BY <1>1, StoredTypes, SameLabels DEF Stored, Counted
  <1> QED BY <1>1, <1>2, <1>3, EndedStep

LEMMA CrashStep ==
    ASSUME IInv, Crash
    PROVE  IInv'
  <1>1. /\ Fault /\ pc' = "idle" /\ cache' = NoCache /\ job' = NoJob
        /\ UNCHANGED <<labels, made, carries, archived, removals, known, position, trigger,
                       queue, added, steady, changes, mail, setups>>
    BY DEF Crash, Killed, mailbox, properties
  <1>2. Stored' /\ steady' \in BOOLEAN /\ AddedAreKnown'
    BY <1>1, StoredTypes, SameLabels DEF Stored
  <1> QED BY <1>1, <1>2, FaultCounts, EndedStep

LEMMA SkipJevErrorStep ==
    ASSUME IInv, NEW t \in Threads, SkipJevError(t)
    PROVE  IInv'
  <1>1. /\ pc = "run" /\ queue' = Without(t)
        /\ UNCHANGED <<labels, made, carries, archived, removals, known, position, trigger,
                       pc, cache, job, added, steady, changes, mail, setups, faults>>
    BY DEF SkipJevError, mailbox, execution, counters
  <1>2. job' = NoJob
    BY <1>1, JobTypes DEF Settled
  <1>3. Stored' /\ Counted' /\ steady' \in BOOLEAN /\ AddedAreKnown'
    BY <1>1, StoredTypes, SameLabels, QueueShrinks DEF Stored, Counted
  <1> QED BY <1>1, <1>2, <1>3, EndedStep

LEMMA DecisionTypes ==
    ASSUME NEW fired \in SUBSET DOMAIN Rules, NEW movesAllowed \in BOOLEAN
    PROVE  LET d == DecideOutcome(fired, movesAllowed)
           IN  /\ d \in Decisions
               /\ d.labels \subseteq {"Work"} /\ d.move \in {"stay", "archive", "Work"}
  <1> DEFINE d == DecideOutcome(fired, movesAllowed)
             moves == {i \in fired : Rules[i].action = "move" /\ movesAllowed}
             tagged == {Rules[i].label : i \in {j \in fired : Rules[j].action = "label"}}
  <1>1. DOMAIN Rules = 1..3
    BY DEF Rules
  <1>2. /\ Rules[1].action = "label" /\ Rules[1].label = "Work"
        /\ Rules[2].action = "move" /\ Rules[2].label = "archive"
        /\ Rules[3].action = "move" /\ Rules[3].label = "Work"
    BY DEF Rules
  <1>3. \A i \in DOMAIN Rules : /\ Rules[i].action = "label" => Rules[i].label = "Work"
                                /\ Rules[i].label \in {"archive", "Work"}
    <2>1. ASSUME NEW i \in DOMAIN Rules PROVE i = 1 \/ i = 2 \/ i = 3
      BY <1>1
    <2> QED BY <1>2, <2>1
  <1>4. d.labels = tagged
    BY DEF DecideOutcome
  <1>5. tagged \subseteq {"Work"}
    BY <1>3
  <1>6. d.move \in {"stay", "archive", "Work"}
    <2>1. d.move = IF moves = {} THEN "stay"
                   ELSE Rules[CHOOSE i \in moves : \A j \in moves : i <= j].label
      BY DEF DecideOutcome
    <2>2. ASSUME moves # {}
          PROVE  (CHOOSE i \in moves : \A j \in moves : i <= j) \in moves
      <3>1. \E i \in moves : \A j \in moves : i <= j
        <4>1. moves \subseteq 1..3
          BY <1>1
        <4>2. CASE 1 \in moves
          BY <4>1, <4>2
        <4>3. CASE 1 \notin moves /\ 2 \in moves
          BY <4>1, <4>3
        <4>4. CASE 1 \notin moves /\ 2 \notin moves
          BY <2>2, <4>1, <4>4
        <4> QED BY <4>2, <4>3, <4>4
      <3> QED BY <3>1
    <2>3. \A i \in moves : Rules[i].label \in {"archive", "Work"}
      BY <1>3
    <2> QED BY <2>1, <2>2, <2>3
  <1>7. d \in Decisions
    <2>1. d = [labels |-> d.labels, move |-> d.move]
      BY DEF DecideOutcome
    <2>2. d.labels \in SUBSET Names /\ d.move \in Moves
      BY <1>4, <1>5, <1>6 DEF Names, Moves
    <2> QED BY <2>1, <2>2 DEF Decisions
  <1> QED BY <1>4, <1>5, <1>6, <1>7

LEMMA StartSettlementStep ==
    ASSUME IInv, NEW t \in Threads, StartSettlement(t)
    PROVE  IInv'
  <1>1. /\ pc = "run" /\ steady' = TRUE
        /\ UNCHANGED <<labels, made, carries, archived, removals, known, position, trigger,
                       cache, added, changes, mail, setups, faults>>
    BY DEF StartSettlement, mailbox, counters
  <1>2. Queued(queue) /\ AddedAreKnown' /\ Counted'
    BY <1>1, StoredTypes, SameLabels DEF Stored, Counted
  <1>3. ASSUME Queued(queue'),
               \/ job' = NoJob /\ pc' \in {"run", "idle"}
               \/ \E u \in Threads : job' = Mark(u) /\ pc' = "resolve",
               pc' # "idle"
        PROVE  IInv'
    <2>1. Stored'
      BY <1>1, <1>3, StoredTypes DEF Stored
    <2> QED BY <1>1, <1>2, <1>3, <2>1, EndedStep
  <1>4. CASE StrikeOrError(t)
    BY <1>2, <1>3, <1>4, StrikeStep
  <1>5. CASE pc' = "resolve" /\ job' = Mark(t) /\ queue' = queue
    BY <1>2, <1>3, <1>5
  <1>6. CASE Done(Without(t))
    BY <1>2, <1>3, <1>6, QueueShrinks DEF Done
  <1>7. ASSUME NEW fired \in SUBSET DOMAIN Rules, NEW movesAllowed \in BOOLEAN,
               pc' = "resolve", job' = Apply(t, DecideOutcome(fired, movesAllowed)),
               queue' = queue
        PROVE  IInv'
    <2>1. PICK d \in Decisions : /\ job' = Apply(t, d) /\ d.labels \subseteq {"Work"}
                                 /\ d.move \in {"stay", "archive", "Work"}
      BY <1>7, DecisionTypes
    <2>2. d.labels \subseteq Names /\ d.move \in Moves
      BY DEF Decisions
    <2>3. /\ job'.kind = "apply" /\ job'.labels = d.labels /\ job'.move = d.move
          /\ job'.asked = d /\ job'.retried = FALSE
      BY <2>1 DEF Apply
    <2>4. job' \in Jobs
      BY <2>1, <2>2 DEF Apply, Jobs
    <2>5. job' # NoJob
      BY <2>3 DEF NoJob
    <2>6. JobIsShaped' /\ RetryIsCurrent'
      BY <1>7, <2>1, <2>3, <2>5 DEF JobIsShaped, RetryIsCurrent, Settled
    <2>7. CacheIsNewest'
      BY <1>1, <1>7, SameCache DEF Settled
    <2>8. LabelsAreNumbered' /\ KnownIsIncreasing' /\ SetupIsOrdered'
      BY <1>1, <1>7 DEF IInv, LabelsAreNumbered, KnownIsIncreasing, SetupIsOrdered
    <2>9. TypeOK'
      BY <1>1, <1>7, <2>4 DEF IInv, TypeOK
    <2> QED BY <1>2, <2>6, <2>7, <2>8, <2>9 DEF IInv
  <1> QED BY <1>4, <1>5, <1>6, <1>7 DEF StartSettlement

\* A settlement goes on, with another pc, cache or job.
LEMMA GoesOnStep ==
    ASSUME IInv,
           UNCHANGED <<labels, made, carries, archived, removals, known, position, trigger,
                       queue, added, changes>>,
           Counted', steady' \in BOOLEAN, job' \in Jobs, JobIsShaped', RetryIsCurrent',
           pc' \in Settled, cache' = cache \/ cache' = Listed
    PROVE  IInv'
  <1>1. CacheIsNewest'
    BY SameCache
  <1>2. LabelsAreNumbered' /\ KnownIsIncreasing' /\ AddedAreKnown'
    BY SameLabels
  <1>3. SetupIsOrdered'
    BY DEF IInv, SetupIsOrdered, Settled
  <1>4. TypeOK'
    BY DEF IInv, TypeOK, Counted, Settled
  <1> QED BY <1>1, <1>2, <1>3, <1>4 DEF IInv

\* The same job with a list from Gmail, to be resolved.
LEMMA ListedStep ==
    ASSUME IInv, pc \in Settled, cache' = Listed, pc' = "resolve",
           UNCHANGED <<mailbox, properties, job, added, steady, counters>>
    PROVE  IInv'
  <1>1. UNCHANGED <<labels, made, carries, archived, removals, known, position, trigger,
                    queue, job, added, steady, changes, mail, setups, faults>>
    BY DEF mailbox, properties, counters
  <1>2. Counted' /\ steady' \in BOOLEAN /\ job' \in Jobs
    BY <1>1, StoredTypes DEF Counted
  <1>3. JobIsShaped'
    BY <1>1 DEF IInv, JobIsShaped, JobNames, Settled
  <1>4. \A n \in DOMAIN Listed : Listed[n] = labels[n]
    BY LabelTypes
  <1>5. RetryIsCurrent'
    BY <1>1, <1>4 DEF RetryIsCurrent
  <1> QED BY <1>1, <1>2, <1>3, <1>5, GoesOnStep DEF Settled

LEMMA LoadCacheStep ==
    ASSUME IInv, LoadCache
    PROVE  IInv'
  BY ListedStep DEF LoadCache, Settled

LEMMA RefreshStep ==
    ASSUME IInv, Refresh
    PROVE  IInv'
  BY ListedStep DEF Refresh, Settled

\* A failed call: what is left is the end of the settlement, or Jev/Error.
LEMMA FailureStep ==
    ASSUME IInv, FailedByException, pc \in Settled
    PROVE  /\ Queued(queue')
           /\ \/ job' = NoJob /\ pc' = "run"
              \/ \E t \in Threads : job' = Mark(t) /\ pc' = "resolve"
  <1>1. Queued(queue) /\ job.thread \in Threads
    BY StoredTypes, JobTypes DEF Stored
  <1>2. CASE job.kind = "apply"
    <2>1. StrikeOrError(job.thread)
      BY <1>2 DEF FailedByException
    <2> QED BY <1>1, <2>1, StrikeStep
  <1>3. CASE job.kind # "apply"
    BY <1>1, <1>3 DEF FailedByException, Done
  <1> QED BY <1>2, <1>3

LEMMA ReloadStep ==
    ASSUME IInv, Reload
    PROVE  IInv'
  <1>1. /\ pc = "reload" /\ cache' = Listed
        /\ UNCHANGED <<labels, made, carries, archived, removals, known, position, trigger,
                       added, steady, changes, mail, setups, faults>>
    BY DEF Reload, mailbox, counters
  <1>2. CASE JobNames \subseteq DOMAIN Listed
    <2>1. pc' = "resolve" /\ UNCHANGED <<queue, job>>
      BY <1>2 DEF Reload
    <2> QED BY <1>1, <2>1, ListedStep DEF Settled, mailbox, properties, counters
  <1>3. CASE ~(JobNames \subseteq DOMAIN Listed)
    <2>1. FailedByException
      BY <1>3 DEF Reload
    <2>2. /\ Queued(queue')
          /\ \/ job' = NoJob /\ pc' = "run"
             \/ \E t \in Threads : job' = Mark(t) /\ pc' = "resolve"
      BY <1>1, <2>1, FailureStep DEF Settled
    <2>3. Stored' /\ Counted' /\ steady' \in BOOLEAN /\ AddedAreKnown'
      BY <1>1, <2>2, StoredTypes, SameLabels DEF Stored, Counted
    <2>4. pc' # "idle"
      BY <2>2
    <2> QED BY <1>1, <2>2, <2>3, <2>4, EndedStep
  <1> QED BY <1>2, <1>3

LEMMA ResolveMissingStep ==
    ASSUME IInv, ResolveMissing
    PROVE  IInv'
  <1>1. PICK name \in ToCreate : CreateLabel(name)
    BY DEF ResolveMissing
  <1>2. /\ pc = "resolve"
        /\ UNCHANGED <<carries, archived, removals, known, position, trigger, queue, added,
                       steady, changes, mail, setups, faults>>
    BY DEF ResolveMissing, properties, counters
  <1>3. JobNames \subseteq Names /\ job # NoJob
    BY <1>2, JobTypes DEF Settled
  <1>4. name \in Names
    <2>1. \A n \in Names : Parent(n) \subseteq Names
      BY DEF Parent, Names, JevError
    <2> QED BY <1>1, <1>3, <2>1 DEF ToCreate, Missing
  <1>5. changes \in Nat /\ changes' >= changes
    BY <1>2, ConstantTypes DEF IInv, TypeOK
  <1>6. CASE labels[name] = 0
    <2>1. /\ made' = [made EXCEPT ![name] = @ + 1]
          /\ labels' = [labels EXCEPT ![name] = made'[name]]
          /\ cache' = [n \in DOMAIN cache \cup {name} |->
                         IF n = name THEN made'[name] ELSE cache[n]]
          /\ UNCHANGED <<pc, job>>
      BY <1>1, <1>6 DEF CreateLabel
    <2>2. /\ labels' \in [Names -> Number] /\ made' \in [Names -> Number]
          /\ \A n \in Names : made[n] \in Nat /\ made'[n] \in Nat /\ made'[n] >= made[n]
          /\ labels'[name] = made'[name] /\ made'[name] >= 1
          /\ \A n \in Names \ {name} : labels'[n] = labels[n]
          /\ LabelsAreNumbered' /\ KnownIsIncreasing' /\ AddedAreKnown'
      BY <1>2, <1>4, <1>5, <1>6, <2>1, LabelIsMade
    <2>3. /\ DOMAIN cache' = DOMAIN cache \cup {name} /\ cache'[name] = made'[name]
          /\ \A n \in DOMAIN cache \ {name} : cache'[n] = cache[n]
      BY <2>1
    <2>4. CacheIsNewest'
      <3>1. ASSUME NEW n \in DOMAIN cache' \cap Names PROVE cache'[n] \in 1..made'[n]
        <4>1. CASE n = name
          BY <1>4, <2>2, <2>3, <4>1
        <4>2. CASE n # name
          <5>1. cache[n] \in 1..made[n] /\ cache'[n] = cache[n]
            BY <2>3, <4>2 DEF IInv, CacheIsNewest
          <5> QED BY <2>2, <5>1
        <4> QED BY <4>1, <4>2
      <3>2. ASSUME JevError \in DOMAIN cache', NEW i \in DOMAIN known
            PROVE  known[i][2] <= cache'[JevError]
        <4>1. known[i][2] \in 1..made[JevError]
          BY DEF IInv, KnownIsIncreasing
        <4>2. CASE JevError = name
          BY <1>4, <2>2, <2>3, <4>1, <4>2
        <4>3. CASE JevError # name
          BY <2>3, <3>2, <4>3 DEF IInv, CacheIsNewest
        <4> QED BY <4>2, <4>3
      <3> QED BY <1>2, <2>1, <3>1, <3>2 DEF CacheIsNewest, Settled
    <2>5. JobIsShaped'
      BY <1>2, <2>1 DEF IInv, JobIsShaped, JobNames, Settled
    <2>6. RetryIsCurrent'
      <3>1. ASSUME steady, job.kind = "apply", job.retried
            PROVE  \A n \in DOMAIN cache' \cap Names : cache'[n] = labels'[n]
        <4>1. \A n \in DOMAIN cache \cap Names : cache[n] = labels[n]
          BY <1>2, <3>1 DEF IInv, RetryIsCurrent
        <4> QED BY <2>2, <2>3, <4>1
      <3> QED BY <1>2, <2>1, <3>1 DEF RetryIsCurrent
    <2>7. TypeOK'
      BY <1>2, <2>1, <2>2 DEF IInv, TypeOK
    <2>8. SetupIsOrdered'
      BY <1>2, <2>1 DEF IInv, SetupIsOrdered
    <2> QED BY <2>2, <2>4, <2>5, <2>6, <2>7, <2>8 DEF IInv
  <1>7. CASE labels[name] # 0
    <2>1. /\ UNCHANGED <<labels, made, cache>>
          /\ \/ name \in JobNames /\ pc' = "reload" /\ job' = job
             \/ name \notin JobNames /\ pc' = pc
                /\ job' = [job EXCEPT !.tried = @ \cup {name}]
      BY <1>1, <1>7 DEF CreateLabel
    <2>2. Counted' /\ steady' \in BOOLEAN
      BY <1>2, StoredTypes DEF Counted
    <2>3. CASE name \in JobNames /\ pc' = "reload" /\ job' = job
      <3>1. job' \in Jobs /\ JobIsShaped'
        BY <1>2, <2>1, <2>3, StoredTypes DEF IInv, JobIsShaped, JobNames, Settled
      <3>2. ASSUME job.kind = "apply" PROVE JobNames \subseteq DOMAIN Listed
        <4>1. JobNames \subseteq {name}
          BY <2>3, <3>2, JobTypes
        <4> QED BY <1>4, <1>7, <4>1 DEF Listed
      <3>3. RetryIsCurrent'
        BY <1>2, <2>1, <2>3, <3>2 DEF IInv, RetryIsCurrent, JobNames, Listed
      <3> QED BY <1>2, <2>1, <2>2, <2>3, <3>1, <3>3, GoesOnStep DEF Settled
    <2>4. CASE pc' = pc /\ job' = [job EXCEPT !.tried = @ \cup {name}]
      <3>1. job' \in Jobs
        <4>1. job \in Jobs
          BY StoredTypes
        <4> QED BY <1>3, <1>4, <2>4, <4>1 DEF Jobs
      <3>2. /\ job'.kind = job.kind /\ job'.labels = job.labels /\ job'.move = job.move
            /\ job'.retried = job.retried
            /\ job.kind = "apply" => job'.asked = job.asked /\ job'.scope = job.scope
        <4>1. job \in Jobs
          BY StoredTypes
        <4> QED BY <1>3, <2>4, <4>1 DEF Jobs
      <3>3. job' # NoJob
        <4>1. job.kind # "none"
          BY <1>3, JobTypes
        <4> QED BY <3>2, <4>1 DEF NoJob
      <3>4. JobIsShaped'
        BY <1>2, <2>1, <2>4, <3>2, <3>3 DEF IInv, JobIsShaped, Settled
      <3>5. RetryIsCurrent'
        BY <1>2, <2>1, <2>4, <3>2 DEF IInv, RetryIsCurrent
      <3> QED BY <1>2, <2>1, <2>2, <2>4, <3>1, <3>4, <3>5, GoesOnStep DEF Settled
    <2> QED BY <2>1, <2>3, <2>4
  <1> QED BY <1>6, <1>7

\* Remembering the newest ID keeps every ID that is not given up.
LEMMA RememberedStep ==
    ASSUME IInv, NEW c \in 1..made[JevError], \A i \in DOMAIN known : known[i][2] <= c,
           made' = made, known' = AddJevErrorLabelId(known, <<JevError, c>>)
    PROVE  /\ known' \in LabelIds /\ KnownIsIncreasing' /\ <<JevError, c>> \in ToSet(known')
           /\ \A i \in DOMAIN known' : known'[i][2] <= c
           /\ \A p \in added : /\ p[2][1] = JevError /\ p[2][2] \in Nat
                               /\ made[JevError] - p[2][2] < MaxIds => p[2] \in ToSet(known')
  <1>1. known \in LabelIds /\ KnownIsIncreasing /\ made \in [Names -> Number] /\ JevError \in Names
    BY LabelTypes DEF IInv, TypeOK
  <1>2. made[JevError] \in Nat /\ made[JevError] \in Number /\ c \in Number
    BY <1>1, ConstantTypes DEF Number
  <1>3. /\ known' \in LabelIds /\ KnownIsIncreasing' /\ <<JevError, c>> \in ToSet(known')
        /\ \A i \in DOMAIN known' : known'[i][2] <= c
        /\ \A x \in ToSet(known) : made[JevError] - x[2] < MaxIds => x \in ToSet(known')
    BY <1>1, <1>2, RememberedIds
  <1>4. \A p \in added : /\ p[2][1] = JevError /\ p[2][2] \in Nat
                         /\ made[JevError] - p[2][2] < MaxIds => p[2] \in ToSet(known)
    BY DEF IInv, AddedAreKnown
  <1> QED BY <1>3, <1>4

LEMMA ResolvedStep ==
    ASSUME IInv, Resolved
    PROVE  IInv'
  <1>1. /\ pc = "resolve" /\ pc' = "modify" /\ Missing = {}
        /\ UNCHANGED <<labels, made, carries, archived, removals, position, trigger, queue,
                       cache, job, added, steady, changes, mail, setups, faults>>
    BY DEF Resolved, mailbox, counters
  <1>2. JobNames \subseteq DOMAIN cache /\ JobNames' = JobNames
    BY <1>1 DEF Missing, JobNames
  <1>3. job.kind \in {"apply", "mark"} /\ job # NoJob
    BY <1>1, JobTypes DEF Settled
  <1>4. KnownIsIncreasing' /\ AddedAreKnown' /\ known' \in LabelIds /\ CacheIsNewest'
        /\ (job.kind = "mark" => <<JevError, cache[JevError]>> \in ToSet(known'))
    <2>1. CASE job.kind = "apply"
      <3>1. known' = known
        BY <1>1, <2>1 DEF Resolved
      <3> QED BY <1>1, <2>1, <3>1, SameLabels, SameCache DEF IInv, TypeOK, Settled
    <2>2. CASE job.kind = "mark"
      <3>1. known' = AddJevErrorLabelId(known, <<JevError, cache[JevError]>>)
        BY <2>2 DEF Resolved
      <3>2. JevError \in DOMAIN cache \cap Names
        BY <1>2, <2>2, JobTypes, LabelTypes
      <3>3. /\ cache[JevError] \in 1..made[JevError]
            /\ \A i \in DOMAIN known : known[i][2] <= cache[JevError]
        BY <3>2 DEF IInv, CacheIsNewest
      <3>4. /\ known' \in LabelIds /\ KnownIsIncreasing'
            /\ <<JevError, cache[JevError]>> \in ToSet(known')
            /\ \A i \in DOMAIN known' : known'[i][2] <= cache[JevError]
            /\ \A p \in added : /\ p[2][1] = JevError /\ p[2][2] \in Nat
                                /\ made[JevError] - p[2][2] < MaxIds => p[2] \in ToSet(known')
        BY <1>1, <3>1, <3>3, RememberedStep
      <3>5. AddedAreKnown'
        BY <1>1, <3>4 DEF AddedAreKnown
      <3>6. \A n \in DOMAIN cache \cap Names : cache[n] \in 1..made[n]
        BY DEF IInv, CacheIsNewest
      <3>7. CacheIsNewest'
        BY <1>1, <3>4, <3>6 DEF CacheIsNewest, Settled
      <3> QED BY <3>4, <3>5, <3>7
    <2> QED BY <1>3, <2>1, <2>2
  <1>5. JobIsShaped'
    BY <1>1, <1>2, <1>3, <1>4 DEF IInv, JobIsShaped, Settled
  <1>6. RetryIsCurrent'
    BY <1>1 DEF IInv, RetryIsCurrent
  <1>7. LabelsAreNumbered' /\ SetupIsOrdered'
    BY <1>1 DEF IInv, LabelsAreNumbered, SetupIsOrdered
  <1>8. TypeOK'
    BY <1>1, <1>4 DEF IInv, TypeOK
  <1> QED BY <1>4, <1>5, <1>6, <1>7, <1>8 DEF IInv

\* What threads.modify does when Gmail takes it.
LEMMA ModifyEffect ==
    ASSUME IInv, Modify
    PROVE  /\ pc = "modify" /\ Accepted /\ job.thread \in Threads
           /\ carries' = [carries EXCEPT ![job.thread] = @ \cup {Id(n) : n \in JobNames}]
           /\ carries'[job.thread] = carries[job.thread] \cup {Id(n) : n \in JobNames}
           /\ archived' = IF job.move = "stay" THEN archived ELSE archived \cup {job.thread}
           /\ added' = IF job.kind = "mark" THEN added \cup {<<job.thread, Id(JevError)>>}
                       ELSE added
           /\ job' = NoJob
           /\ \/ /\ pc' = "run" /\ queue' = Without(job.thread) /\ UNCHANGED <<cache, faults>>
              \/ Fault /\ pc' = "idle" /\ cache' = NoCache /\ UNCHANGED queue
           /\ UNCHANGED <<labels, made, removals, known, position, trigger, steady, changes,
                          mail, setups>>
  <1>1. pc = "modify" /\ job.thread \in Threads
    BY JobTypes DEF Modify, Settled
  <1>2. carries \in [Threads -> SUBSET LabelId]
    BY DEF IInv, TypeOK
  <1>3. carries' = [carries EXCEPT ![job.thread] = @ \cup {Id(n) : n \in JobNames}]
    BY DEF Modify
  <1>4. carries'[job.thread] = carries[job.thread] \cup {Id(n) : n \in JobNames}
    BY <1>1, <1>2, <1>3
  <1>5. /\ archived' = IF job.move = "stay" THEN archived ELSE archived \cup {job.thread}
        /\ added' = IF job.kind = "mark" THEN added \cup {<<job.thread, Id(JevError)>>} ELSE added
        /\ UNCHANGED <<labels, made, removals, known, position, trigger, steady, changes,
                       mail, setups>>
        /\ Accepted
    BY DEF Modify
  <1>6. /\ job' = NoJob
        /\ \/ /\ pc' = "run" /\ queue' = Without(job.thread) /\ UNCHANGED <<cache, faults>>
           \/ Fault /\ pc' = "idle" /\ cache' = NoCache /\ UNCHANGED queue
    BY DEF Modify, Leaves, Done, Killed
  <1> QED BY <1>1, <1>3, <1>4, <1>5, <1>6

LEMMA ModifyStep ==
    ASSUME IInv, Modify
    PROVE  IInv'
  <1>1. /\ pc = "modify" /\ job.thread \in Threads /\ job' = NoJob
        /\ UNCHANGED <<labels, made, removals, known, position, trigger, steady, changes,
                       mail, setups>>
    BY ModifyEffect
  <1>2. JobNames \subseteq Names /\ JobNames \subseteq DOMAIN cache
    BY <1>1, JobTypes DEF IInv, JobIsShaped, Settled
  <1>3. Stored'
    <2>1. Stored
      BY StoredTypes
    <2>2. {Id(n) : n \in JobNames} \subseteq LabelId
      BY <1>2, LabelTypes
    <2>3. carries' \in [Threads -> SUBSET LabelId]
      BY <1>1, <2>1, <2>2, ModifyEffect DEF Stored
    <2>4. archived' \subseteq Threads
      BY <1>1, <2>1, ModifyEffect DEF Stored
    <2>5. added' \subseteq Threads \X LabelId
      <3>1. <<job.thread, Id(JevError)>> \in Threads \X LabelId
        BY <1>1, LabelTypes
      <3> QED BY <2>1, <3>1, ModifyEffect DEF Stored
    <2>6. Queued(queue')
      BY <2>1, QueueShrinks, ModifyEffect DEF Stored
    <2> QED BY <1>1, <2>1, <2>3, <2>4, <2>5, <2>6 DEF Stored
  <1>4. Counted'
    BY <1>1, StoredTypes, FaultCounts, ModifyEffect DEF Counted
  <1>5. AddedAreKnown'
    <2>1. ASSUME job.kind = "mark"
          PROVE  Id(JevError)[1] = JevError /\ Id(JevError)[2] \in Nat
                 /\ Id(JevError) \in ToSet(known)
      <3>1. <<JevError, cache[JevError]>> \in ToSet(known)
        BY <1>1, <2>1 DEF IInv, JobIsShaped
      <3>2. cache[JevError] = labels[JevError]
        BY <2>1, JobTypes, ModifyEffect DEF Accepted
      <3>3. Id(JevError) = <<JevError, labels[JevError]>> /\ labels[JevError] \in Nat
        BY LabelTypes DEF Id
      <3> QED BY <3>1, <3>2, <3>3
    <2>2. ASSUME NEW p \in added', p \notin added
          PROVE  job.kind = "mark" /\ p[2] = Id(JevError)
      BY <2>2, ModifyEffect
    <2>3. ASSUME NEW p \in added'
          PROVE  /\ p[2][1] = JevError /\ p[2][2] \in Nat
                 /\ made[JevError] - p[2][2] < MaxIds => p[2] \in ToSet(known)
      <3>1. CASE p \in added
        BY <3>1 DEF IInv, AddedAreKnown
      <3>2. CASE p \notin added
        BY <2>1, <2>2, <3>2
      <3> QED BY <3>1, <3>2
    <2> QED BY <1>1, <2>3 DEF AddedAreKnown
  <1>6. steady' \in BOOLEAN
    BY <1>1, StoredTypes
  <1>7. /\ pc' \in {"run", "idle"}
        /\ cache' = cache \/ cache' = NoCache \/ cache' = Listed
        /\ pc' = "idle" => cache' = NoCache
    BY ModifyEffect
  <1> QED BY <1>1, <1>3, <1>4, <1>5, <1>6, <1>7, EndedStep

LEMMA RefusedLabelStep ==
    ASSUME IInv, RefusedLabel
    PROVE  IInv'
  <1>1. /\ pc = "modify"
        /\ UNCHANGED <<labels, made, carries, archived, removals, known, position, trigger,
                       cache, added, changes, mail, setups, faults>>
    BY DEF RefusedLabel, mailbox, counters
  <1>2. Counted' /\ AddedAreKnown'
    BY <1>1, StoredTypes, SameLabels DEF Counted
  <1>3. CASE job.retried
    <2>1. FailedByException /\ steady' = steady
      BY <1>3 DEF RefusedLabel, RefusedAgain
    <2>2. /\ Queued(queue')
          /\ \/ job' = NoJob /\ pc' = "run"
             \/ \E t \in Threads : job' = Mark(t) /\ pc' = "resolve"
      BY <1>1, <2>1, FailureStep DEF Settled
    <2>3. Stored' /\ steady' \in BOOLEAN /\ pc' # "idle"
      BY <1>1, <2>1, <2>2, StoredTypes DEF Stored
    <2> QED BY <1>1, <1>2, <2>2, <2>3, EndedStep
  <1>4. CASE ~job.retried
    <2>1. /\ pc' = "refresh" /\ job' = [job EXCEPT !.retried = TRUE, !.tried = {}]
          /\ steady' = TRUE /\ queue' = queue
      BY <1>4 DEF RefusedLabel
    <2>2. job # NoJob /\ job \in Jobs
      BY <1>1, JobTypes, StoredTypes DEF Settled
    <2>3. job' \in Jobs /\ job'.kind = job.kind /\ job'.labels = job.labels
          /\ job'.move = job.move
          /\ (job.kind = "apply" => job'.asked = job.asked /\ job'.scope = job.scope)
      BY <2>1, <2>2 DEF Jobs
    <2>4. job' # NoJob
      BY <2>2, <2>3, JobTypes DEF NoJob
    <2>5. JobIsShaped' /\ RetryIsCurrent'
      BY <1>1, <2>1, <2>3, <2>4 DEF IInv, JobIsShaped, RetryIsCurrent, Settled
    <2> QED BY <1>1, <1>2, <2>1, <2>3, <2>5, GoesOnStep DEF Settled
  <1> QED BY <1>3, <1>4

LEMMA ModifyFailsStep ==
    ASSUME IInv, ModifyFails
    PROVE  IInv'
  <1>1. /\ pc = "modify" /\ Fault
        /\ UNCHANGED <<labels, made, carries, archived, removals, known, position, trigger,
                       cache, added, steady, changes, mail, setups>>
    BY DEF ModifyFails, mailbox
  <1>2. /\ Queued(queue')
        /\ \/ job' = NoJob /\ pc' = "run"
           \/ \E t \in Threads : job' = Mark(t) /\ pc' = "resolve"
    <2>1. CASE Leaves(job.thread)
      BY <2>1, StoredTypes, QueueShrinks DEF Leaves, Done, Stored
    <2>2. CASE FailedByException
      BY <1>1, <2>2, FailureStep DEF Settled
    <2> QED BY <2>1, <2>2 DEF ModifyFails
  <1>3. Stored' /\ steady' \in BOOLEAN /\ AddedAreKnown' /\ pc' # "idle"
    BY <1>1, <1>2, StoredTypes, SameLabels DEF Stored
  <1> QED BY <1>1, <1>2, <1>3, FaultCounts, EndedStep

LEMMA CallRefusedStep ==
    ASSUME IInv, CallRefused
    PROVE  IInv'
  <1>1. /\ pc \in Settled /\ Fault
        /\ cache' = IF pc' = "idle" THEN NoCache ELSE cache
        /\ UNCHANGED <<labels, made, carries, archived, removals, known, position, trigger,
                       added, steady, changes, mail, setups>>
    BY DEF CallRefused, Settled, mailbox
  <1>2. AddedAreKnown' /\ Counted' /\ steady' \in BOOLEAN /\ Queued(queue)
    BY <1>1, SameLabels, FaultCounts, StoredTypes DEF Stored
  <1>3. ASSUME Queued(queue'),
               \/ job' = NoJob /\ pc' \in {"run", "idle"}
               \/ \E t \in Threads : job' = Mark(t) /\ pc' = "resolve"
        PROVE  IInv'
    <2>1. Stored'
      BY <1>1, <1>3, StoredTypes DEF Stored
    <2> QED BY <1>1, <1>2, <1>3, <2>1, EndedStep
  <1>4. CASE RateLimited
    BY <1>2, <1>3, <1>4 DEF RateLimited
  <1>5. CASE FailedByException
    BY <1>1, <1>3, <1>5, FailureStep
  <1>6. CASE ScopeMissing
    <2>1. CASE job.kind = "apply" /\ job.move # "stay" /\ job.labels # {}
      <3>1. /\ pc' = "resolve" /\ queue' = queue
            /\ job' = [job EXCEPT !.move = "stay", !.retried = FALSE, !.tried = {},
                                  !.scope = TRUE]
        BY <1>6, <2>1 DEF ScopeMissing
      <3>2. job \in Jobs /\ job # NoJob
        BY <1>1, StoredTypes, JobTypes
      <3>3. job' \in Jobs /\ job'.kind = "apply" /\ job'.labels = job.labels
            /\ job'.move = "stay" /\ job'.asked = job.asked /\ job'.scope = TRUE
            /\ job'.retried = FALSE
        BY <2>1, <3>1, <3>2 DEF Jobs, Moves
      <3>4. job' # NoJob
        BY <3>3 DEF NoJob
      <3>5. JobIsShaped' /\ RetryIsCurrent'
        BY <2>1, <3>1, <3>3, <3>4 DEF IInv, JobIsShaped, RetryIsCurrent, Settled
      <3> QED BY <1>1, <1>2, <3>1, <3>3, <3>5, GoesOnStep DEF Settled
    <2>2. CASE job.kind = "apply" /\ ~(job.move # "stay" /\ job.labels # {})
      BY <1>2, <1>3, <1>6, <2>2, QueueShrinks DEF ScopeMissing, Done
    <2>3. CASE job.kind # "apply"
      BY <1>2, <1>3, <1>6, <2>3 DEF ScopeMissing, Done
    <2> QED BY <2>1, <2>2, <2>3
  <1> QED BY <1>4, <1>5, <1>6 DEF CallRefused

-----------------------------------------------------------------------------
(* The steps of install and uninstall.                                     *)

Setups == {"idle", "position", "lookup", "oldTrigger", "newTrigger", "keys"}

\* No settlement is under way before or after.
LEMMA SetupStep ==
    ASSUME IInv, pc \in Setups, pc' \in Setups,
           UNCHANGED <<labels, made, carries, archived, cache, job, steady, changes>>,
           Stored', Counted', position' \in BOOLEAN, trigger' \in BOOLEAN,
           known' \in LabelIds, KnownIsIncreasing', AddedAreKnown', SetupIsOrdered'
    PROVE  IInv'
  <1>1. job' = NoJob
    BY JobTypes DEF Settled, Setups
  <1>2. cache' = NoCache
    BY DEF IInv, CacheIsNewest, Settled, Setups
  <1>3. JobIsShaped' /\ RetryIsCurrent' /\ job' \in Jobs
    BY <1>1, NoSettlement DEF Settled, Setups
  <1>4. CacheIsNewest'
    BY <1>2, LabelTypes DEF CacheIsNewest
  <1>5. LabelsAreNumbered'
    BY DEF IInv, LabelsAreNumbered
  <1>6. TypeOK'
    BY <1>3, StoredTypes DEF IInv, TypeOK, Stored, Counted, Queued, Setups
  <1> QED BY <1>3, <1>4, <1>5, <1>6 DEF IInv

\* The IDs and the mailbox stay too.
LEMMA SetupKeepsIds ==
    ASSUME IInv, pc \in Setups, pc' \in Setups,
           UNCHANGED <<labels, made, carries, archived, cache, job, steady, changes,
                       known, queue, added, mail, faults>>,
           removals' = removals \/ removals' = {}, setups' \in 0..MaxSetups,
           position' \in BOOLEAN, trigger' \in BOOLEAN, SetupIsOrdered'
    PROVE  IInv'
  <1>1. Stored' /\ Counted'
    BY StoredTypes DEF Stored, Counted
  <1>2. KnownIsIncreasing' /\ AddedAreKnown' /\ known' \in LabelIds
    BY SameLabels DEF IInv, TypeOK
  <1> QED BY <1>1, <1>2, SetupStep

LEMMA BeginSteps ==
    ASSUME IInv, BeginInstall \/ BeginUninstall
    PROVE  IInv'
  <1>1. /\ pc = "idle" /\ setups' = setups + 1 /\ setups < MaxSetups
        /\ \/ pc' = "position" /\ trigger' = trigger
           \/ pc' = "keys" /\ trigger' = FALSE
        /\ UNCHANGED <<labels, made, carries, archived, removals, known, position, queue,
                       cache, job, added, steady, changes, mail, faults>>
    BY DEF BeginInstall, BeginUninstall, mailbox, properties
  <1>2. setups' \in 0..MaxSetups
    BY <1>1, StoredTypes, ConstantTypes DEF Counted
  <1>3. position' \in BOOLEAN /\ trigger' \in BOOLEAN
    BY <1>1 DEF IInv, TypeOK
  <1>4. SetupIsOrdered'
    BY <1>1 DEF IInv, SetupIsOrdered
  <1> QED BY <1>1, <1>2, <1>3, <1>4, SetupKeepsIds DEF Setups

LEMMA WriteSteps ==
    ASSUME IInv, SetPosition \/ DeleteOldTrigger \/ CreateTrigger \/ FinishUninstall
    PROVE  IInv'
  <1>1. /\ UNCHANGED <<labels, made, carries, archived, known, queue, cache, job, added,
                       steady, changes, mail, setups, faults>>
        /\ removals' = removals \/ removals' = {}
        /\ \/ pc = "position" /\ pc' = "lookup" /\ position' = TRUE /\ trigger' = trigger
           \/ pc = "oldTrigger" /\ pc' = "newTrigger" /\ trigger' = FALSE /\ position' = position
           \/ pc = "newTrigger" /\ pc' = "idle" /\ trigger' = TRUE /\ position' = position
           \/ /\ pc = "keys" /\ pc' = "idle" /\ trigger' = trigger /\ position' = position
    BY DEF SetPosition, DeleteOldTrigger, CreateTrigger, FinishUninstall, mailbox, properties,
           counters
  <1>2. setups' \in 0..MaxSetups
    BY <1>1, StoredTypes DEF Counted
  <1>3. position' \in BOOLEAN /\ trigger' \in BOOLEAN
    BY <1>1 DEF IInv, TypeOK
  <1>4. SetupIsOrdered'
    BY <1>1 DEF IInv, SetupIsOrdered
  <1> QED BY <1>1, <1>2, <1>3, <1>4, SetupKeepsIds DEF Setups

LEMMA LookUpStep ==
    ASSUME IInv, LookUpJevError
    PROVE  IInv'
  <1>1. /\ pc = "lookup" /\ pc' = "oldTrigger"
        /\ UNCHANGED <<labels, made, carries, archived, removals, position, trigger, queue,
                       cache, job, steady, changes, mail, setups>>
    BY DEF LookUpJevError, mailbox
  <1>2. position' \in BOOLEAN /\ trigger' \in BOOLEAN /\ SetupIsOrdered'
    BY <1>1 DEF IInv, TypeOK, SetupIsOrdered
  <1>3. Counted'
    <2>1. faults' = faults \/ Fault
      BY DEF LookUpJevError
    <2> QED BY <1>1, <2>1, StoredTypes, FaultCounts DEF Counted
  <1>4. CASE UNCHANGED <<known, added>>
    <2>1. Stored' /\ KnownIsIncreasing' /\ AddedAreKnown' /\ known' \in LabelIds
      BY <1>1, <1>4, StoredTypes, SameLabels DEF Stored, IInv, TypeOK
    <2> QED BY <1>1, <1>2, <1>3, <2>1, SetupStep DEF Setups
  <1>5. CASE /\ labels[JevError] # 0
             /\ known' = AddJevErrorLabelId(known, Id(JevError))
             /\ added' = added \cup {<<t, Id(JevError)>> : t \in {u \in Threads :
                                              Id(JevError) \in carries[u]}}
    <2>1. /\ made[JevError] \in Nat /\ labels[JevError] \in 1..made[JevError]
          /\ labels[JevError] = made[JevError] /\ Id(JevError) = <<JevError, labels[JevError]>>
          /\ Id(JevError) \in LabelId
      BY <1>5, LabelTypes DEF Id
    <2>2. \A i \in DOMAIN known : known[i][2] <= labels[JevError]
      BY <2>1 DEF IInv, KnownIsIncreasing
    <2>3. /\ known' \in LabelIds /\ KnownIsIncreasing' /\ Id(JevError) \in ToSet(known')
          /\ \A p \in added : /\ p[2][1] = JevError /\ p[2][2] \in Nat
                              /\ made[JevError] - p[2][2] < MaxIds => p[2] \in ToSet(known')
      BY <1>1, <1>5, <2>1, <2>2, RememberedStep
    <2>4. Id(JevError)[1] = JevError /\ Id(JevError)[2] \in Nat
      BY <2>1
    <2>5. \A p \in added' : p \in added \/ p[2] = Id(JevError)
      BY <1>5
    <2>6. AddedAreKnown'
      BY <1>1, <2>3, <2>4, <2>5 DEF AddedAreKnown
    <2>7. Stored'
      BY <1>1, <1>5, <2>1, StoredTypes DEF Stored
    <2> QED BY <1>1, <1>2, <1>3, <2>3, <2>6, <2>7, SetupStep DEF Setups
  <1> QED BY <1>4, <1>5 DEF LookUpJevError

LEMMA DeleteKeyStep ==
    ASSUME IInv, DeleteKey
    PROVE  IInv'
  <1>1. /\ pc = "keys" /\ pc' = "keys"
        /\ UNCHANGED <<labels, made, carries, archived, removals, trigger, cache, job, steady,
                       changes, mail, setups, faults>>
    BY DEF DeleteKey, mailbox, execution, counters
  <1>2. /\ position' \in {position, FALSE}
        /\ \/ known' = <<>> /\ added' = {}
           \/ UNCHANGED <<known, added>>
        /\ queue' = queue \/ queue' = [t \in {} |-> 0]
    BY DEF DeleteKey
  <1>3. position' \in BOOLEAN /\ trigger' \in BOOLEAN
    BY <1>1, <1>2 DEF IInv, TypeOK
  <1>4. SetupIsOrdered'
    BY <1>1, <1>2 DEF IInv, SetupIsOrdered
  <1>5. Queued(queue')
    BY <1>2, StoredTypes DEF Stored, Queued
  <1>6. Stored' /\ Counted'
    BY <1>1, <1>2, <1>5, StoredTypes DEF Stored, Counted
  <1>7. known' \in LabelIds /\ KnownIsIncreasing' /\ AddedAreKnown'
    <2>1. CASE known' = <<>> /\ added' = {}
      BY <1>1, <2>1, ConstantTypes DEF LabelIds, KnownIsIncreasing, AddedAreKnown
    <2>2. CASE UNCHANGED <<known, added>>
      BY <1>1, <2>2, SameLabels DEF IInv, TypeOK
    <2> QED BY <1>2, <2>1, <2>2
  <1> QED BY <1>1, <1>3, <1>4, <1>6, <1>7, SetupStep DEF Setups

-----------------------------------------------------------------------------
(* The theorems.                                                           *)

LEMMA InitIsGood ==
    ASSUME Init
    PROVE  IInv
  <1>1. TypeOK
    <2>1. 0 \in Number /\ 0 \in 0..MaxChanges /\ 0 \in 0..MaxMail /\ 0 \in 0..MaxSetups
          /\ 0 \in 0..MaxFaults
      BY ConstantTypes DEF Number
    <2>2. known \in LabelIds
      BY ConstantTypes DEF Init, LabelIds
    <2> QED BY <2>1, <2>2 DEF Init, TypeOK, Jobs
  <1>2. LabelsAreNumbered
    BY ConstantTypes DEF Init, LabelsAreNumbered
  <1>3. KnownIsIncreasing /\ AddedAreKnown /\ SetupIsOrdered
    BY DEF Init, KnownIsIncreasing, AddedAreKnown, SetupIsOrdered
  <1>4. CacheIsNewest
    BY DEF Init, CacheIsNewest, NoCache, Names, JevError
  <1>5. JobIsShaped /\ RetryIsCurrent
    BY DEF Init, JobIsShaped, RetryIsCurrent, NoJob, Settled
  <1> QED BY <1>1, <1>2, <1>3, <1>4, <1>5 DEF IInv

LEMMA UnchangedStep ==
    ASSUME IInv, UNCHANGED vars
    PROVE  IInv'
  BY DEF IInv, vars, mailbox, properties, execution, counters, TypeOK, LabelsAreNumbered,
         KnownIsIncreasing, CacheIsNewest, JobIsShaped, AddedAreKnown, SetupIsOrdered,
         RetryIsCurrent, JobNames, Listed

LEMMA NextStep ==
    ASSUME IInv, Next
    PROVE  IInv'
  <1>1. CASE User
    BY <1>1, DeleteLabelStep, CreateByUserStep, RemoveFromThreadStep DEF User
  <1>2. CASE Run
    BY <1>2, StartRunStep, EndRunStep, SkipJevErrorStep, StartSettlementStep, LoadCacheStep,
       ResolveMissingStep, ReloadStep, ResolvedStep, ModifyStep, RefusedLabelStep, RefreshStep,
       CallRefusedStep, ModifyFailsStep DEF Run
  <1>3. CASE Setup
    BY <1>3, BeginSteps, WriteSteps, LookUpStep, DeleteKeyStep DEF Setup
  <1>4. CASE Crash
    BY <1>4, CrashStep
  <1>5. CASE Quiet
    BY <1>5, UnchangedStep DEF Quiet
  <1> QED BY <1>1, <1>2, <1>3, <1>4, <1>5 DEF Next

\* The invariant holds through every run, install, uninstall, crash and change of
\* the labels.
THEOREM Invariant == Spec => []IInv
  <1>1. Init => IInv
    BY InitIsGood
  <1>2. IInv /\ [Next]_vars => IInv'
    BY NextStep, UnchangedStep
  <1> QED BY <1>1, <1>2, PTL DEF Spec

\* Every variable keeps its type: no queue item has more strikes than are stored,
\* and no more IDs are kept than jevErrorLabelCodec accepts.
THEOREM TypeCorrectness == Spec => []TypeOK
  <1>1. IInv => TypeOK
    BY DEF IInv
  <1> QED BY <1>1, Invariant, PTL

\* A Jev/Error that a thread carries, or lost since the last run, has a known ID
\* unless MaxIds newer ones were made: addJevErrorLabelId drops none but the
\* oldest ID, although it may remember an old one again.
THEOREM JevErrorStaysKnown == Spec => []JevErrorIsRecognised
  <1>1. IInv => JevErrorIsRecognised
    BY DEF IInv, AddedAreKnown, JevErrorIsRecognised
  <1> QED BY <1>1, Invariant, PTL

\* Wherever install or uninstall is cut off, there is a trigger only with a
\* position.
THEOREM TriggersHavePositions == Spec => []TriggerHasPosition
  <1>1. IInv => TriggerHasPosition
    BY DEF IInv, SetupIsOrdered, TriggerHasPosition
  <1> QED BY <1>1, Invariant, PTL

-----------------------------------------------------------------------------
(* What a step may do to a thread whose answer is being applied.           *)

\* While no label has changed since Gmail refused one, it takes what the cache has.
LEMMA SteadyIsAccepted ==
    ASSUME IInv, job.kind = "apply", pc = "modify", job.retried, steady
    PROVE  Accepted
  <1>1. JobNames \subseteq DOMAIN cache
    BY DEF IInv, JobIsShaped
  <1>2. \A n \in DOMAIN cache \cap Names : cache[n] = labels[n]
    BY DEF IInv, RetryIsCurrent
  <1>3. JobNames \subseteq Names
    BY JobTypes DEF Settled
  <1> QED BY <1>1, <1>2, <1>3 DEF Accepted

\* Of an answer, a step keeps the item, strikes it after an unlucky change, meets a
\* fault, or applies it.
LEMMA AnswerStep ==
    ASSUME IInv, [Next]_vars, Settling, job.kind = "apply"
    PROVE  \/ faults' > faults
           \/ queue' = queue /\ job'.kind # "mark"
           \/ DOMAIN queue' = DOMAIN queue /\ ~steady
           \/ Modify
  <1>1. /\ pc \in Settled /\ pc \notin {"idle", "run"} \cup Setups
        /\ job \in Jobs /\ job # NoJob /\ job.thread \in Threads /\ NoJob.kind = "none"
        /\ Queued(queue)
    BY StoredTypes, JobTypes DEF Settling, Settled, Setups, NoJob, Stored
  <1>2. CASE User \/ LoadCache \/ Refresh \/ Resolved \/ UNCHANGED vars
    <2>1. UNCHANGED <<queue, job>>
      BY <1>2 DEF User, DeleteLabel, CreateByUser, RemoveFromThread, LoadCache, Refresh,
                  Resolved, vars, properties, execution
    <2> QED BY <2>1
  <1>3. CASE \/ StartRun \/ EndRun \/ \E t \in Threads : SkipJevError(t) \/ StartSettlement(t)
             \/ Setup \/ Quiet
    BY <1>1, <1>3 DEF StartRun, EndRun, SkipJevError, StartSettlement, Setup, Quiet,
       BeginInstall, SetPosition, LookUpJevError, DeleteOldTrigger, CreateTrigger,
       BeginUninstall, DeleteKey, FinishUninstall, Setups
  <1>4. CASE ResolveMissing
    <2>1. PICK name \in ToCreate : CreateLabel(name)
      BY <1>4 DEF ResolveMissing
    <2>2. job' = job \/ job' = [job EXCEPT !.tried = @ \cup {name}]
      BY <2>1 DEF CreateLabel
    <2>3. job'.kind = "apply"
      BY <1>1, <2>2 DEF Jobs
    <2>4. queue' = queue
      BY <1>4 DEF ResolveMissing, properties
    <2> QED BY <2>3, <2>4
  <1>5. ASSUME FailedByException
        PROVE  DOMAIN queue' = DOMAIN queue
    <2>1. StrikeOrError(job.thread)
      BY <1>5 DEF FailedByException
    <2> QED BY <1>1, <2>1, StrikeStep
  <1>6. CASE Reload
    <2>1. CASE JobNames \subseteq DOMAIN Listed
      <3>1. UNCHANGED <<queue, job>>
        BY <1>6, <2>1 DEF Reload
      <3> QED BY <3>1
    <2>2. CASE ~(JobNames \subseteq DOMAIN Listed)
      <3>1. FailedByException /\ pc = "reload"
        BY <1>6, <2>2 DEF Reload
      <3>2. ~steady
        BY <2>2, <3>1 DEF IInv, RetryIsCurrent
      <3> QED BY <1>5, <3>1, <3>2
    <2> QED BY <2>1, <2>2
  <1>7. CASE RefusedLabel
    <2>1. pc = "modify" /\ ~Accepted
      BY <1>7 DEF RefusedLabel
    <2>2. CASE job.retried
      <3>1. FailedByException
        BY <1>7, <2>2 DEF RefusedLabel, RefusedAgain
      <3>2. ~steady
        BY <2>1, <2>2, SteadyIsAccepted
      <3> QED BY <1>5, <3>1, <3>2
    <2>3. CASE ~job.retried
      <3>1. queue' = queue /\ job' = [job EXCEPT !.retried = TRUE, !.tried = {}]
        BY <1>7, <2>3 DEF RefusedLabel
      <3>2. job'.kind = "apply"
        BY <1>1, <3>1 DEF Jobs
      <3> QED BY <3>1, <3>2
    <2> QED BY <2>2, <2>3
  <1>8. CASE CallRefused \/ ModifyFails \/ Crash
    <2>1. Fault
      BY <1>8 DEF CallRefused, ModifyFails, Crash
    <2> QED BY <2>1, StoredTypes DEF Fault
  <1> QED BY <1>2, <1>3, <1>4, <1>6, <1>7, <1>8 DEF Next, Run

\* A label the cache has wrong costs a thread no strike: threads.modify refuses it,
\* the label cache is refreshed, and the second attempt is accepted unless a label
\* changed in between.
THEOREM StaleLabelsAreFree == Spec => ChangedLabelsCostNoStrike
  <1>1. ASSUME IInv, [Next]_vars, Settling, job.kind = "apply",
               \/ job'.kind = "mark"
               \/ /\ job.thread \in DOMAIN queue'
                  /\ queue'[job.thread] > queue[job.thread]
        PROVE  faults' > faults \/ ~steady
    <2>1. CASE queue' = queue /\ job'.kind # "mark"
      <3>1. queue[job.thread] \in Nat
        BY <1>1, <2>1, StoredTypes, ConstantTypes DEF Stored, Queued
      <3> QED BY <1>1, <2>1, <3>1
    <2>2. CASE Modify
      <3>1. job'.kind # "mark"
        BY <1>1, <2>2, ModifyEffect DEF NoJob
      <3>2. queue' = queue \/ job.thread \notin DOMAIN queue'
        BY <1>1, <2>2, StoredTypes, ModifyEffect, QueueShrinks DEF Stored
      <3>3. queue' # queue
        <4>1. ASSUME queue' = queue PROVE queue[job.thread] \in Nat
          BY <1>1, <3>1, <4>1, StoredTypes, ConstantTypes DEF Stored, Queued
        <4> QED BY <1>1, <3>1, <4>1
      <3> QED BY <1>1, <3>1, <3>2, <3>3
    <2> QED BY <1>1, <2>1, <2>2, AnswerStep
  <1>2. IInv /\ [Next]_vars =>
          [/\ Settling /\ job.kind = "apply"
           /\ \/ job'.kind = "mark"
              \/ /\ job.thread \in DOMAIN queue'
                 /\ queue'[job.thread] > queue[job.thread]
           => faults' > faults \/ ~steady]_vars
    BY <1>1
  <1> QED BY <1>2, Invariant, PTL DEF Spec, ChangedLabelsCostNoStrike

\* A thread whose answer is being applied leaves the queue with all its labels and
\* its move, unless a scope is missing, Gmail failed or the thread is gone.
THEOREM AnswersReachTheThread == Spec => AnswersAreApplied
  <1>1. ASSUME IInv, [Next]_vars, Settling, job.kind = "apply",
               job.thread \in DOMAIN queue \ DOMAIN queue'
        PROVE  \/ faults' > faults
               \/ /\ \A n \in job.asked.labels : Id(n) \in carries'[job.thread]
                  /\ job.asked.move = "stay" \/ job.scope \/ job.thread \in archived'
    <2>1. Modify \/ faults' > faults
      BY <1>1, AnswerStep
    <2>2. CASE Modify
      <3>1. job.labels = job.asked.labels /\ (job.move = job.asked.move \/ job.scope)
        BY <1>1 DEF IInv, JobIsShaped
      <3>2. \A n \in job.labels : Id(n) \in carries'[job.thread]
        BY <1>1, <2>2, ModifyEffect DEF JobNames
      <3>3. job.move # "stay" => job.thread \in archived'
        BY <1>1, <2>2, ModifyEffect
      <3> QED BY <3>1, <3>2, <3>3
    <2> QED BY <2>1, <2>2
  <1>2. IInv /\ [Next]_vars =>
          [/\ Settling /\ job.kind = "apply"
           /\ job.thread \in DOMAIN queue \ DOMAIN queue'
           => \/ faults' > faults
              \/ /\ \A n \in job.asked.labels : Id(n) \in carries'[job.thread]
                 /\ job.asked.move = "stay" \/ job.scope \/ job.thread \in archived']_vars
    BY <1>1
  <1> QED BY <1>2, Invariant, PTL DEF Spec, AnswersAreApplied

=============================================================================
