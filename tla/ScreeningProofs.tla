--------------------------- MODULE ScreeningProofs ---------------------------
(***************************************************************************)
(* Proofs about Screening, for any number of threads, messages, dates,     *)
(* pages and faults: the type invariant, that no thread is sent of which   *)
(* the metadata read had a message matching excludeQuery, and that each    *)
(* request fits, with no more cut than must be.                            *)
(*                                                                         *)
(* The second speaks of the end of a chunk only.  The invariant says       *)
(* what each earlier step leaves of it: a thread that must be excluded,    *)
(* has not been deleted meanwhile and has not slipped past the pages of    *)
(* its last search, is a target of the search of the chunk, then among     *)
(* those dropped or still to be searched for, then among those dropped     *)
(* (SearchesCover).  That a search's last page completes it (SearchFinds)  *)
(* rests on the messages of the metadata read being there still, whenever  *)
(* that page is asked for (ReadsStand).                                    *)
(*                                                                         *)
(* The third is about the operators of JevState.  A smallest cut, made     *)
(* first, changes nothing of what the stages of truncateState leave in the *)
(* end; so neither do all of them, up to a state that fits or is bare.     *)
(***************************************************************************)
EXTENDS Screening, SequenceTheorems, FiniteSetTheorems, WellFoundedInduction, TLAPS

HasMatch(t) == \E i \in DOMAIN metadata[t] : metadata[t][i].matches

\* To be excluded, and not deleted since it was read.
Excludable(t) == mail[t] # <<>> /\ HasMatch(t)

SameMail(m, n) == m.matches = n.matches /\ m.usable = n.usable /\ m.indexed = n.indexed

\* Messages are added, and their labels change, but they stay where they are.
ReadsStand ==
    \A t \in DOMAIN metadata :
        mail[t] # <<>> =>
            \A i \in DOMAIN metadata[t] :
                i \in DOMAIN mail[t] /\ SameMail(mail[t][i], metadata[t][i])

SearchesCover ==
    /\ pc = "chunkSearch" => target = DOMAIN metadata
    /\ pc \in {"own", "ownSearch"} =>
        \A t \in DOMAIN metadata : Excludable(t) => t \in dropped \cup todo \cup slipped
    /\ pc = "ownSearch" => target \subseteq todo
    /\ pc = "full" =>
        /\ \A t \in DOMAIN metadata : Excludable(t) => t \in dropped \cup slipped
        /\ todo \cap dropped = {}

SentIsScreened == \A t \in DOMAIN full \ slipped : ~HasMatch(t)

Phases ==
    /\ pc \notin {"full", "sent"} => DOMAIN full = {}
    /\ pc = "idle" => DOMAIN metadata = {} /\ dropped = {} /\ todo = {}

Rest == ReadsStand /\ SearchesCover /\ SentIsScreened /\ Phases

IInv == TypeOK /\ Rest

-----------------------------------------------------------------------------
(* The search.                                                             *)

\* The window of the messages read covers each of them, by the date Gmail has
\* indexed it with: buildExclusionQuery leaves none of them outside.
LEMMA WindowCovers ==
    ASSUME NEW messages, NEW n \in messages, NEW m \in Messages, SameMail(m, n)
    PROVE  InWindow(m, messages)
<1>1. Indexable(m) BY ScreeningAssumption
<1>2. AfterEarliest(m.indexed, messages)
  BY <1>1 DEF Indexable, AfterEarliest, SameMail
<1>3. BeforeLatest(m.indexed, messages)
  <2>1. PICK u \in m.usable \cup {Now} : m.indexed <= u + WindowMargin
    BY <1>1 DEF Indexable
  <2>2. u \in {Now} \cup UNION {k.usable : k \in messages}
    BY <2>1 DEF SameMail
  <2> QED BY <2>1, <2>2 DEF BeforeLatest
<1> QED BY <1>2, <1>3 DEF InWindow

\* Whenever a search asks for a page, every thread of its target that must be
\* excluded matches.
LEMMA SearchFinds ==
    ASSUME TypeOK, ReadsStand, NEW threads \in SUBSET DOMAIN metadata,
           NEW t \in threads, Excludable(t)
    PROVE  t \in Matching(threads)
<1>1. PICK i \in DOMAIN metadata[t] : metadata[t][i].matches
  BY DEF Excludable, HasMatch
<1>2. i \in DOMAIN mail[t] /\ SameMail(mail[t][i], metadata[t][i])
  BY <1>1 DEF ReadsStand, Excludable
<1>3. t \in Threads BY DEF TypeOK
<1>4. mail[t] \in Seq(Messages) BY <1>3 DEF TypeOK
<1>5. mail[t][i] \in Messages BY <1>2, <1>4
<1>6. mail[t][i] \in ToSet(mail[t]) BY <1>2 DEF ToSet
<1>7. metadata[t][i] \in ReadMail(threads) BY <1>1 DEF ReadMail, ToSet
<1>8. InWindow(mail[t][i], ReadMail(threads)) BY <1>2, <1>5, <1>7, WindowCovers
<1>9. mail[t][i].matches BY <1>1, <1>2 DEF SameMail
<1> QED BY <1>6, <1>8, <1>9 DEF Matching

-----------------------------------------------------------------------------
(* Each step keeps the type invariant.                                     *)

LEMMA InitType == Init => TypeOK
<1> SUFFICES ASSUME Init PROVE TypeOK OBVIOUS
<1>1. mail \in [Threads -> Seq(Messages)] BY ScreeningAssumption DEF Init
<1>2. metadata \in [DOMAIN metadata -> Seq(Messages)] /\ full \in [DOMAIN full -> Seq(Messages)]
  BY DEF Init
<1>3. 0 \in 0..MaxPages - 1 BY ScreeningAssumption
<1> QED BY <1>1, <1>2, <1>3 DEF Init, TypeOK

\* Reading a thread adds it to a function of the threads read.
LEMMA Recorded ==
    ASSUME NEW f, f \in [DOMAIN f -> Seq(Messages)], NEW t, NEW messages \in Seq(Messages)
    PROVE  /\ With(f, t, messages) \in [DOMAIN f \cup {t} -> Seq(Messages)]
           /\ DOMAIN With(f, t, messages) = DOMAIN f \cup {t}
           /\ With(f, t, messages)[t] = messages
           /\ \A s \in DOMAIN f : s # t => With(f, t, messages)[s] = f[s]
BY DEF With

LEMMA ScreenKeepsType == TypeOK /\ Screen => TypeOK'
<1> SUFFICES ASSUME TypeOK, Screen PROVE TypeOK' OBVIOUS
<1> USE DEF TypeOK, searchVars
<1>1. CASE Start BY <1>1 DEF Start
<1>2. ASSUME NEW t \in Threads, ReadMetadata(t) PROVE TypeOK'
  <2>1. mail[t] \in Seq(Messages) OBVIOUS
  <2>2. t \in queue BY <1>2 DEF ReadMetadata, IsNext
  <2>3. CASE IsSkipped(mail[t]) BY <1>2, <2>2, <2>3 DEF ReadMetadata
  <2>4. CASE ~IsSkipped(mail[t])
    <3>1. metadata' = With(metadata, t, mail[t]) BY <1>2, <2>4 DEF ReadMetadata
    <3>2. /\ metadata' \in [DOMAIN metadata' -> Seq(Messages)]
          /\ DOMAIN metadata' = DOMAIN metadata \cup {t}
      <4>1. metadata \in [DOMAIN metadata -> Seq(Messages)] OBVIOUS
      <4>2. /\ With(metadata, t, mail[t]) \in [DOMAIN metadata \cup {t} -> Seq(Messages)]
            /\ DOMAIN With(metadata, t, mail[t]) = DOMAIN metadata \cup {t}
        BY <4>1, <2>1, Recorded
      <4> QED BY <4>2, <3>1
    <3>3. /\ UNCHANGED <<mail, queue, pc, dropped, searchVars, full>>
          /\ todo' \subseteq todo /\ pc = "metadata"
      BY <1>2, <2>4 DEF ReadMetadata
    <3>4. DOMAIN metadata' \subseteq queue' /\ DOMAIN full' \subseteq DOMAIN metadata'
      BY <3>2, <3>3, <2>2
    <3>5. target' \subseteq DOMAIN metadata' BY <3>2, <3>3
    <3> QED BY <3>2, <3>3, <3>4, <3>5
  <2> QED BY <2>3, <2>4
<1>3. CASE SearchChunk
  <2>1. 0 \in 0..MaxPages - 1 BY ScreeningAssumption
  <2> QED BY <1>3, <2>1 DEF SearchChunk, BeginSearch
<1>4. CASE ReadPage
  <2>1. page' \in 0..MaxPages - 1 BY <1>4, ScreeningAssumption DEF ReadPage
  <2>2. found' \subseteq target BY <1>4 DEF ReadPage, Ahead, Matching
  <2> QED BY <1>4, <2>1, <2>2 DEF ReadPage
<1>5. CASE EndChunkSearch
  <2>1. 0 \in 0..MaxPages - 1 BY ScreeningAssumption
  <2>2. dropped' \subseteq queue /\ todo' \subseteq queue
    BY <1>5 DEF EndChunkSearch, Ahead, Matching
  <2> QED BY <1>5, <2>1, <2>2 DEF EndChunkSearch, NoSearch
<1>6. ASSUME NEW t \in Threads, SearchOwn(t) PROVE TypeOK'
  <2>1. 0 \in 0..MaxPages - 1 BY ScreeningAssumption
  <2>2. t \in DOMAIN metadata BY <1>6 DEF SearchOwn, IsNext
  <2> QED BY <1>6, <2>1, <2>2 DEF SearchOwn, BeginSearch, IsNext
<1>7. CASE EndOwnSearch
  <2>1. 0 \in 0..MaxPages - 1 BY ScreeningAssumption
  <2>2. dropped' \subseteq queue /\ todo' \subseteq queue
    BY <1>7 DEF EndOwnSearch, Ahead, Matching
  <2> QED BY <1>7, <2>1, <2>2 DEF EndOwnSearch, NoSearch
<1>8. CASE Screened BY <1>8 DEF Screened
<1> QED BY <1>1, <1>2, <1>3, <1>4, <1>5, <1>6, <1>7, <1>8 DEF Screen

LEMMA ProcessKeepsType == TypeOK /\ Process => TypeOK'
<1> SUFFICES ASSUME TypeOK, Process PROVE TypeOK' OBVIOUS
<1> USE DEF TypeOK, searchVars
<1>1. ASSUME NEW t \in Threads, ReadFull(t) PROVE TypeOK'
  <2>1. t \in DOMAIN metadata /\ t \in queue BY <1>1 DEF ReadFull, IsNext
  <2>2. /\ UNCHANGED <<mail, queue, pc, metadata, searchVars>>
        /\ todo' = todo \ {t} /\ pc = "full"
    BY <1>1 DEF ReadFull
  <2>3. CASE dropped' = dropped \cup {t} /\ UNCHANGED full BY <2>1, <2>2, <2>3
  <2>4. CASE full' = With(full, t, mail[t]) /\ UNCHANGED dropped
    <3>1. full \in [DOMAIN full -> Seq(Messages)] /\ mail[t] \in Seq(Messages) OBVIOUS
    <3>2. /\ With(full, t, mail[t]) \in [DOMAIN full \cup {t} -> Seq(Messages)]
          /\ DOMAIN With(full, t, mail[t]) = DOMAIN full \cup {t}
      BY <3>1, Recorded
    <3>3. full' \in [DOMAIN full' -> Seq(Messages)] /\ DOMAIN full' \subseteq DOMAIN metadata'
      BY <3>2, <2>1, <2>2, <2>4
    <3> QED BY <2>2, <2>4, <3>3
  <2> QED BY <1>1, <2>3, <2>4 DEF ReadFull
<1>2. CASE Send BY <1>2 DEF Send, chunkVars
<1>3. ASSUME queue' \subseteq queue, UNCHANGED mail, pc' = "idle", ForgetChunk PROVE TypeOK'
  <2>1. 0 \in 0..MaxPages - 1 BY ScreeningAssumption
  <2>2. /\ metadata' \in [DOMAIN metadata' -> Seq(Messages)]
        /\ full' \in [DOMAIN full' -> Seq(Messages)]
    BY <1>3 DEF ForgetChunk
  <2>3. DOMAIN metadata' \subseteq queue' /\ DOMAIN full' \subseteq DOMAIN metadata'
    BY <1>3 DEF ForgetChunk
  <2> QED BY <1>3, <2>1, <2>2, <2>3 DEF ForgetChunk, ForgetSearch, NoSearch
<1>4. CASE Settle BY <1>3, <1>4 DEF Settle
<1>5. CASE Fail BY <1>3, <1>5 DEF Fail
<1>6. CASE StopReading BY <1>3, <1>6 DEF StopReading
<1>7. ASSUME NEW t \in Threads, ReadThrows(t) PROVE TypeOK' BY <1>7 DEF ReadThrows
<1> QED BY <1>1, <1>2, <1>4, <1>5, <1>6, <1>7 DEF Process

LEMMA UserKeepsType == TypeOK /\ User => TypeOK'
<1> SUFFICES ASSUME TypeOK, User PROVE TypeOK' OBVIOUS
<1> USE DEF TypeOK, searchVars, chunkVars
<1>1. ASSUME NEW t \in Threads, NEW m \in Arrivals, Arrive(t, m) PROVE TypeOK'
  <2>1. m \in Messages BY ScreeningAssumption
  <2>2. Append(mail[t], m) \in Seq(Messages) BY <2>1
  <2>3. mail' \in [Threads -> Seq(Messages)] BY <1>1, <2>2 DEF Arrive
  <2>4. slipped' \subseteq DOMAIN metadata BY <1>1 DEF Arrive, IsAhead
  <2>5. UNCHANGED <<queue, pc, todo, metadata, dropped, target, found, page, full>>
    BY <1>1 DEF Arrive
  <2> QED BY <2>3, <2>4, <2>5
<1>2. ASSUME NEW t \in Threads, Trash(t) PROVE TypeOK'
  <2> DEFINE trashed == [i \in DOMAIN mail[t] |-> [mail[t][i] EXCEPT !.out = TRUE]]
  <2>1. mail[t] \in Seq(Messages) OBVIOUS
  <2>2. \A i \in DOMAIN mail[t] : [mail[t][i] EXCEPT !.out = TRUE] \in Messages
    <3>1. \A i \in DOMAIN mail[t] : mail[t][i] \in Messages BY <2>1
    <3> QED BY <3>1, ScreeningAssumption
  <2>3. trashed \in Seq(Messages)
    <3>1. DOMAIN mail[t] = 1..Len(mail[t]) /\ Len(mail[t]) \in Nat BY <2>1
    <3>2. trashed \in [1..Len(mail[t]) -> Messages] BY <2>2, <3>1
    <3> HIDE DEF trashed
    <3> QED BY <3>1, <3>2, IsASeq
  <2>4. mail' \in [Threads -> Seq(Messages)] BY <1>2, <2>3 DEF Trash
  <2> QED BY <1>2, <2>4 DEF Trash
<1>3. ASSUME NEW t \in Threads, Delete(t) PROVE TypeOK'
  <2>1. mail' \in [Threads -> Seq(Messages)] BY <1>3 DEF Delete
  <2> QED BY <1>3, <2>1 DEF Delete
<1>4. ASSUME NEW t \in Threads, Enqueue(t) PROVE TypeOK' BY <1>4 DEF Enqueue
<1> QED BY <1>1, <1>2, <1>3, <1>4 DEF User

LEMMA NextKeepsType == TypeOK /\ [Next]_vars => TypeOK'
<1>1. TypeOK /\ UNCHANGED vars => TypeOK' BY DEF TypeOK, vars, chunkVars, searchVars
<1> QED BY <1>1, ScreenKeepsType, ProcessKeepsType, UserKeepsType DEF Next

\* Every variable of a chunk keeps to its type and to the order of its phases: what
\* is searched for has been read, what is read in full has been screened.
THEOREM ScreeningTypeCorrect == Spec => []TypeOK
BY InitType, NextKeepsType, PTL DEF Spec

-----------------------------------------------------------------------------
(* Each step keeps the rest of the invariant.                              *)

LEMMA InitRest == Init => Rest
<1> SUFFICES ASSUME Init PROVE Rest OBVIOUS
<1>1. DOMAIN metadata = {} /\ DOMAIN full = {} BY DEF Init
<1> QED BY <1>1 DEF Init, Rest, ReadsStand, SearchesCover, SentIsScreened, Phases

\* A chunk forgotten leaves nothing to hold.
LEMMA ForgottenRest ==
    ASSUME pc' = "idle", ForgetChunk
    PROVE  Rest'
<1>1. DOMAIN metadata' = {} /\ DOMAIN full' = {} /\ dropped' = {} /\ todo' = {}
  BY DEF ForgetChunk
<1> QED BY <1>1 DEF Rest, ReadsStand, SearchesCover, SentIsScreened, Phases

\* While mail and metadata stay, so do the reads and what is to be excluded.
LEMMA SameReads ==
    ASSUME UNCHANGED <<mail, metadata>>
    PROVE  /\ ReadsStand => ReadsStand'
           /\ \A t : Excludable(t)' = Excludable(t) /\ HasMatch(t)' = HasMatch(t)
<1>1. ReadsStand => ReadsStand' BY DEF ReadsStand, SameMail
<1>2. ASSUME NEW t PROVE Excludable(t)' = Excludable(t) /\ HasMatch(t)' = HasMatch(t)
  BY DEF Excludable, HasMatch
<1> QED BY <1>1, <1>2

LEMMA ReadMetadataRest ==
    ASSUME TypeOK, Rest, NEW t \in Threads, ReadMetadata(t)
    PROVE  Rest'
<1> USE DEF searchVars
<1>1. /\ pc = "metadata" /\ UNCHANGED <<mail, pc, full>>
  BY DEF ReadMetadata
<1>2. DOMAIN full' = {} BY <1>1 DEF Rest, Phases
<1>3. ReadsStand'
  <2>1. CASE UNCHANGED metadata BY <2>1, <1>1 DEF Rest, ReadsStand, SameMail
  <2>2. CASE metadata' = With(metadata, t, mail[t])
    <3>1. metadata \in [DOMAIN metadata -> Seq(Messages)] /\ mail[t] \in Seq(Messages)
      BY DEF TypeOK
    <3>2. /\ DOMAIN metadata' = DOMAIN metadata \cup {t} /\ metadata'[t] = mail[t]
          /\ \A s \in DOMAIN metadata : s # t => metadata'[s] = metadata[s]
      <4> DEFINE reads == With(metadata, t, mail[t])
      <4>1. /\ DOMAIN reads = DOMAIN metadata \cup {t} /\ reads[t] = mail[t]
            /\ \A s \in DOMAIN metadata : s # t => reads[s] = metadata[s]
        BY DEF With
      <4> QED BY <4>1, <2>2
    <3>3. ASSUME NEW s \in DOMAIN metadata', mail'[s] # <<>>,
                 NEW i \in DOMAIN metadata'[s]
          PROVE  i \in DOMAIN mail'[s] /\ SameMail(mail'[s][i], metadata'[s][i])
      <4>1. CASE s = t BY <4>1, <3>2, <3>3, <1>1 DEF SameMail
      <4>2. CASE s # t
        <5>1. s \in DOMAIN metadata /\ metadata'[s] = metadata[s] BY <4>2, <3>2, <3>3
        <5> QED BY <5>1, <3>3, <1>1 DEF Rest, ReadsStand
      <4> QED BY <4>1, <4>2
    <3> QED BY <3>3 DEF ReadsStand, SameMail
  <2> QED BY <2>1, <2>2 DEF ReadMetadata
<1>4. SearchesCover' BY <1>1 DEF SearchesCover
<1>5. SentIsScreened' BY <1>2 DEF SentIsScreened
<1>6. Phases' BY <1>1, <1>2 DEF Phases
<1> QED BY <1>3, <1>4, <1>5, <1>6 DEF Rest

\* A search that begins is for threads still to be searched for, or for all.
LEMMA BeginSearchRest ==
    ASSUME TypeOK, Rest, SearchChunk \/ \E t \in Threads : SearchOwn(t)
    PROVE  Rest'
<1>1. /\ UNCHANGED <<mail, metadata, dropped, todo, full>>
      /\ slipped' = slipped \ target'
  BY DEF SearchChunk, SearchOwn, BeginSearch
<1>2. \/ pc = "metadata" /\ pc' = "chunkSearch" /\ target' = DOMAIN metadata
      \/ pc = "own" /\ pc' = "ownSearch" /\ target' \subseteq todo
  BY DEF SearchChunk, SearchOwn, BeginSearch, IsNext
<1>3. ReadsStand' BY <1>1, SameReads DEF Rest
<1>4. DOMAIN full = {} BY <1>2 DEF Rest, Phases
<1>5. SearchesCover'
  <2>1. pc' = "chunkSearch" => target' = DOMAIN metadata' BY <1>1, <1>2
  <2>2. pc' = "ownSearch" =>
           /\ target' \subseteq todo'
           /\ \A t \in DOMAIN metadata' :
                 Excludable(t)' => t \in dropped' \cup todo' \cup slipped'
    BY <1>1, <1>2, SameReads DEF Rest, SearchesCover
  <2> QED BY <1>2, <2>1, <2>2 DEF SearchesCover
<1>6. SentIsScreened' BY <1>1, <1>4 DEF SentIsScreened
<1>7. Phases' BY <1>1, <1>2, <1>4 DEF Phases
<1> QED BY <1>3, <1>5, <1>6, <1>7 DEF Rest

\* The end of a search drops what it found, and of a capped one leaves the rest to
\* be searched for, or drops it, too.  What is left of an uncapped one has slipped.
LEMMA EndSearchRest ==
    ASSUME TypeOK, Rest, EndChunkSearch \/ EndOwnSearch
    PROVE  Rest'
<1>1. UNCHANGED <<mail, metadata, slipped, full>> /\ pc' = "own"
  BY DEF EndChunkSearch, EndOwnSearch
<1>2. pc \in {"chunkSearch", "ownSearch"} BY DEF EndChunkSearch, EndOwnSearch
<1>3. ASSUME NEW t \in target, Excludable(t) PROVE t \in found \cup slipped \cup Ahead
  BY <1>3, SearchFinds DEF Ahead, Rest, TypeOK
<1>4. ASSUME NEW t \in DOMAIN metadata, Excludable(t)
      PROVE  t \in dropped' \cup todo' \cup slipped'
  <2>1. CASE EndChunkSearch
    <3>1. t \in target BY <2>1, <1>4 DEF EndChunkSearch, Rest, SearchesCover
    <3>2. t \in found \cup slipped \cup Ahead BY <3>1, <1>3, <1>4
    <3> QED BY <2>1, <1>1, <3>1, <3>2 DEF EndChunkSearch, PageFinds, EndsAt
  <2>2. CASE EndOwnSearch
    <3>1. t \in dropped \cup todo \cup slipped
      BY <2>2, <1>4 DEF EndOwnSearch, Rest, SearchesCover
    <3>2. dropped \subseteq dropped' /\ todo' = todo \ target BY <2>2 DEF EndOwnSearch
    <3>3. CASE t \in target
      <4>1. t \in found \cup slipped \cup Ahead BY <3>3, <1>3, <1>4
      <4> QED BY <2>2, <1>1, <3>3, <4>1 DEF EndOwnSearch, PageFinds, EndsAt
    <3> QED BY <1>1, <3>1, <3>2, <3>3
  <2> QED BY <2>1, <2>2
<1>5. ReadsStand' BY <1>1, SameReads DEF Rest
<1>6. SearchesCover' BY <1>1, <1>4, SameReads DEF SearchesCover
<1>7. DOMAIN full' = {} BY <1>1, <1>2 DEF Rest, Phases
<1> QED BY <1>1, <1>5, <1>6, <1>7 DEF Rest, SentIsScreened, Phases

LEMMA ScreenKeepsRest == TypeOK /\ Rest /\ Screen => Rest'
<1> SUFFICES ASSUME TypeOK, Rest, Screen PROVE Rest' OBVIOUS
<1> USE DEF searchVars
<1>1. CASE Start
  <2>1. UNCHANGED <<mail, metadata, dropped, full>> /\ pc = "idle" /\ pc' = "metadata"
    BY <1>1 DEF Start
  <2>2. DOMAIN metadata' = {} /\ DOMAIN full' = {} BY <2>1 DEF Rest, Phases
  <2> QED BY <2>1, <2>2 DEF Rest, ReadsStand, SearchesCover, SentIsScreened, Phases
<1>2. CASE \E t \in Threads : ReadMetadata(t) BY <1>2, ReadMetadataRest
<1>3. CASE SearchChunk \/ \E t \in Threads : SearchOwn(t) BY <1>3, BeginSearchRest
<1>4. CASE ReadPage
  <2>1. UNCHANGED <<mail, pc, todo, metadata, dropped, target, slipped, full>>
    BY <1>4 DEF ReadPage
  <2>2. ReadsStand' BY <2>1, SameReads DEF Rest
  <2>3. SearchesCover' BY <2>1, SameReads DEF Rest, SearchesCover
  <2>4. SentIsScreened' BY <2>1, SameReads DEF Rest, SentIsScreened
  <2>5. Phases' BY <2>1 DEF Rest, Phases
  <2> QED BY <2>2, <2>3, <2>4, <2>5 DEF Rest
<1>5. CASE EndChunkSearch \/ EndOwnSearch BY <1>5, EndSearchRest
<1>6. CASE Screened
  <2>1. /\ UNCHANGED <<mail, metadata, dropped, slipped, full>>
        /\ pc' = "full" /\ todo' = DOMAIN metadata \ dropped
    BY <1>6 DEF Screened
  <2>2. \A t \in DOMAIN metadata : Excludable(t) => t \in dropped \cup slipped
    BY <1>6 DEF Screened, Rest, SearchesCover
  <2>3. SearchesCover' BY <2>1, <2>2, SameReads DEF SearchesCover
  <2>4. ReadsStand' BY <2>1, SameReads DEF Rest
  <2>5. SentIsScreened' BY <2>1, SameReads DEF Rest, SentIsScreened
  <2> QED BY <2>1, <2>3, <2>4, <2>5 DEF Rest, Phases
<1> QED BY <1>1, <1>2, <1>3, <1>4, <1>5, <1>6 DEF Screen

\* What is read in full was not dropped, and so has no match or has slipped.
LEMMA ReadFullRest ==
    ASSUME TypeOK, Rest, NEW t \in Threads, ReadFull(t)
    PROVE  Rest'
<1>1. /\ UNCHANGED <<mail, pc, metadata, slipped>> /\ pc = "full"
      /\ t \in todo /\ todo' = todo \ {t}
  BY DEF ReadFull, IsNext, searchVars
<1>2. dropped \subseteq dropped' /\ dropped' \subseteq dropped \cup {t} BY DEF ReadFull
<1>3. SearchesCover' BY <1>1, <1>2, SameReads DEF Rest, SearchesCover
<1>4. SentIsScreened'
  <2>1. CASE UNCHANGED full BY <2>1, <1>1, SameReads DEF Rest, SentIsScreened
  <2>2. CASE mail[t] # <<>> /\ full' = With(full, t, mail[t])
    <3>1. t \in DOMAIN metadata /\ t \notin dropped
      BY <1>1 DEF TypeOK, Rest, SearchesCover
    <3>2. t \in slipped \/ ~HasMatch(t) BY <1>1, <2>2, <3>1 DEF Rest, SearchesCover, Excludable
    <3>3. DOMAIN full' = DOMAIN full \cup {t} BY <2>2 DEF With
    <3> QED BY <1>1, <3>2, <3>3, SameReads DEF Rest, SentIsScreened
  <2> QED BY <2>1, <2>2 DEF ReadFull
<1>5. ReadsStand' BY <1>1, SameReads DEF Rest
<1>6. Phases' BY <1>1 DEF Phases
<1> QED BY <1>3, <1>4, <1>5, <1>6 DEF Rest

LEMMA ProcessKeepsRest == TypeOK /\ Rest /\ Process => Rest'
<1> SUFFICES ASSUME TypeOK, Rest, Process PROVE Rest' OBVIOUS
<1> USE DEF searchVars
<1>1. CASE \E t \in Threads : ReadFull(t) BY <1>1, ReadFullRest
<1>2. CASE Send \/ \E t \in Threads : ReadThrows(t)
  <2>1. /\ UNCHANGED <<mail, metadata, dropped, slipped, full>> /\ todo' \subseteq todo
        /\ pc = "full" /\ pc' \in {"full", "sent"}
    BY <1>2 DEF Send, ReadThrows, chunkVars
  <2>2. ReadsStand' BY <2>1, SameReads DEF Rest
  <2>3. SearchesCover' BY <2>1, SameReads DEF Rest, SearchesCover
  <2>4. SentIsScreened' BY <2>1, SameReads DEF Rest, SentIsScreened
  <2> QED BY <2>1, <2>2, <2>3, <2>4 DEF Rest, Phases
<1>3. CASE Settle \/ Fail \/ StopReading
  BY <1>3, ForgottenRest DEF Settle, Fail, StopReading
<1> QED BY <1>1, <1>2, <1>3 DEF Process

\* Whatever happens to the threads, what was read of one not deleted stands, and
\* none slips that was not a target.
LEMMA UserKeepsRest == TypeOK /\ Rest /\ User => Rest'
<1> SUFFICES ASSUME TypeOK, Rest, User PROVE Rest' OBVIOUS
<1> USE DEF chunkVars, searchVars
<1>1. /\ UNCHANGED <<pc, todo, metadata, dropped, target, full>>
      /\ slipped \subseteq slipped'
      /\ pc \notin {"chunkSearch", "ownSearch"} => slipped' = slipped
  BY DEF User, Arrive, IsAhead, Trash, Delete, Enqueue
<1>2. ASSUME NEW t \in Threads, mail'[t] # <<>>
      PROVE  /\ mail[t] # <<>>
             /\ \A i \in DOMAIN mail[t] : i \in DOMAIN mail'[t] /\ SameMail(mail'[t][i], mail[t][i])
  <2>1. mail[t] \in Seq(Messages) /\ mail \in [Threads -> Seq(Messages)] BY DEF TypeOK
  <2>2. CASE mail'[t] = mail[t] BY <2>2, <1>2 DEF SameMail
  <2>3. ASSUME NEW m \in Arrivals, Arrive(t, m)
        PROVE  /\ mail[t] # <<>>
               /\ \A i \in DOMAIN mail[t] :
                    i \in DOMAIN mail'[t] /\ SameMail(mail'[t][i], mail[t][i])
    <3>1. mail[t] # <<>> /\ mail'[t] = Append(mail[t], m) BY <2>1, <2>3 DEF Arrive
    <3>2. m \in Messages BY ScreeningAssumption
    <3>3. \A i \in DOMAIN mail[t] : i \in DOMAIN mail'[t] /\ mail'[t][i] = mail[t][i]
      BY <3>1, <3>2, <2>1
    <3> QED BY <3>1, <3>3 DEF SameMail
  <2>4. ASSUME Trash(t)
        PROVE  /\ mail[t] # <<>>
               /\ \A i \in DOMAIN mail[t] :
                    i \in DOMAIN mail'[t] /\ SameMail(mail'[t][i], mail[t][i])
    <3>1. /\ mail[t] # <<>>
          /\ mail'[t] = [i \in DOMAIN mail[t] |-> [mail[t][i] EXCEPT !.out = TRUE]]
      BY <2>1, <2>4 DEF Trash
    <3>2. \A i \in DOMAIN mail[t] : SameMail([mail[t][i] EXCEPT !.out = TRUE], mail[t][i])
      <4>1. \A i \in DOMAIN mail[t] : mail[t][i] \in Messages BY <2>1
      <4> QED BY <4>1, ScreeningAssumption DEF SameMail
    <3> QED BY <3>1, <3>2
  <2>5. \/ mail'[t] = mail[t]
        \/ \E m \in Arrivals : Arrive(t, m)
        \/ Trash(t)
    BY <1>2, <2>1 DEF User, Arrive, Trash, Delete, Enqueue
  <2> QED BY <2>2, <2>3, <2>4, <2>5
<1>3. DOMAIN metadata \subseteq Threads /\ target \subseteq DOMAIN metadata BY DEF TypeOK
<1>4. \A t \in DOMAIN metadata : /\ Excludable(t)' => Excludable(t)
                                 /\ HasMatch(t)' = HasMatch(t)
  BY <1>1, <1>2, <1>3 DEF Excludable, HasMatch
<1>5. ReadsStand' BY <1>1, <1>2, <1>3 DEF Rest, ReadsStand, SameMail
<1>6. SearchesCover' BY <1>1, <1>3, <1>4 DEF Rest, SearchesCover
<1>7. SentIsScreened'
  <2>1. DOMAIN full \subseteq DOMAIN metadata BY DEF TypeOK
  <2> QED BY <2>1, <1>1, <1>4 DEF Rest, SentIsScreened
<1>8. Phases' BY <1>1 DEF Rest, Phases
<1> QED BY <1>5, <1>6, <1>7, <1>8 DEF Rest

LEMMA NextKeepsIInv == IInv /\ [Next]_vars => IInv'
<1>1. ASSUME TypeOK, Rest, UNCHANGED vars PROVE Rest'
  <2>1. UNCHANGED <<mail, pc, todo, metadata, dropped, target, slipped, full>>
    BY <1>1 DEF vars, chunkVars, searchVars
  <2>2. ReadsStand' BY <1>1, <2>1, SameReads DEF Rest
  <2>3. SearchesCover' BY <1>1, <2>1, SameReads DEF Rest, SearchesCover
  <2>4. SentIsScreened' BY <1>1, <2>1, SameReads DEF Rest, SentIsScreened
  <2>5. Phases' BY <1>1, <2>1 DEF Rest, Phases
  <2> QED BY <2>2, <2>3, <2>4, <2>5 DEF Rest
<1> QED BY <1>1, NextKeepsType, ScreenKeepsRest, ProcessKeepsRest, UserKeepsRest DEF IInv, Next

\* No thread is sent of which the metadata read had a message matching excludeQuery,
\* unless new mail moved it past the pages of the last search that it was in.
THEOREM ScreeningExcludes == Spec => []ExcludedMailIsNotSent
<1>1. Init => IInv BY InitType, InitRest DEF IInv
<1>2. IInv => ExcludedMailIsNotSent
  BY DEF IInv, Rest, SentIsScreened, HasMatch, ExcludedMailIsNotSent
<1> QED BY <1>1, <1>2, NextKeepsIInv, PTL DEF Spec

-----------------------------------------------------------------------------
(* Numbers.                                                                *)

\* A set of numbers has a least one.
LEMMA LeastExists ==
    ASSUME NEW S \in SUBSET Nat, S # {}
    PROVE  \E n \in S : \A k \in S : n <= k
<1>1. \E n \in S : \A k \in S : ~ (<<k, n>> \in OpToRel(<, Nat))
  BY NatLessThanWellFounded, WFMin
<1>2. \A n, k \in S : ~ (<<k, n>> \in OpToRel(<, Nat)) => n <= k
  <2>1. ASSUME NEW n \in Nat, NEW k \in Nat, ~ (n <= k) PROVE <<k, n>> \in OpToRel(<, Nat)
    <3>1. k < n /\ <<k, n>> \in Nat \X Nat
      BY <2>1
    <3> QED BY <3>1 DEF OpToRel
  <2> QED BY <2>1
<1> QED BY <1>1, <1>2

\* The least of a set, as Min chooses it.
LEMMA MinFacts ==
    ASSUME NEW S \in SUBSET Nat, S # {}
    PROVE  Min(S) \in S /\ \A k \in S : Min(S) <= k
BY LeastExists DEF Min

\* What holds of 0, and of n + 1 where it holds of n, holds up to N: S is the set of
\* the numbers it holds of.
LEMMA Induction ==
    ASSUME NEW N \in Nat, NEW S, 0 \in S,
           \A n \in 0..N : n < N /\ n \in S => n + 1 \in S
    PROVE  \A n \in 0..N : n \in S
<1> DEFINE without == {n \in 0..N : n \notin S}
<1> SUFFICES ASSUME without # {} PROVE FALSE
  OBVIOUS
<1>1. PICK n \in without : \A k \in without : n <= k
  <2>1. without \in SUBSET Nat
    OBVIOUS
  <2> HIDE DEF without
  <2> QED BY <2>1, LeastExists
<1>2. n - 1 \in 0..N /\ n - 1 < N /\ n - 1 \notin without
  BY <1>1
<1>3. n - 1 + 1 = n
  BY <1>1
<1> QED BY <1>1, <1>2, <1>3

\* The greatest of a set that has a bound.
LEMMA MaxFacts ==
    ASSUME NEW S \in SUBSET Nat, S # {}, NEW N \in Nat, \A k \in S : k <= N
    PROVE  Max(S) \in S /\ \A k \in S : k <= Max(S)
<1> DEFINE below == {n \in Nat : \A k \in S : k <= n}
<1>1. PICK n \in below : \A k \in below : n <= k
  <2>1. N \in below
    OBVIOUS
  <2> QED BY <2>1, LeastExists
<1>2. n \in S
  <2> SUFFICES ASSUME n \notin S PROVE FALSE
    OBVIOUS
  <2>1. PICK k \in S : TRUE
    OBVIOUS
  <2>2. n - 1 \in below
    BY <1>1, <2>1
  <2> QED BY <1>1, <2>2
<1> QED BY <1>1, <1>2 DEF Max

\* The greater and the smaller of two numbers.
LEMMA MaxOfTwo ==
    ASSUME NEW a \in Int, NEW b \in Int
    PROVE  /\ Max({a, b}) \in {a, b} /\ a <= Max({a, b}) /\ b <= Max({a, b})
           /\ Min({a, b}) \in {a, b} /\ Min({a, b}) <= a /\ Min({a, b}) <= b
<1>1. \E x \in {a, b} : \A y \in {a, b} : x >= y
  OBVIOUS
<1>2. \E x \in {a, b} : \A y \in {a, b} : x =< y
  OBVIOUS
<1> HIDE <1>1, <1>2
<1>3. Max({a, b}) \in {a, b} /\ \A y \in {a, b} : Max({a, b}) >= y
  BY <1>1 DEF Max
<1>4. Min({a, b}) \in {a, b} /\ \A y \in {a, b} : Min({a, b}) =< y
  BY <1>2 DEF Min
<1> QED BY <1>3, <1>4

\* The numbers of a sequence have a bound.
LEMMA Bounded ==
    ASSUME NEW N \in Nat, NEW f \in [1..N -> Nat]
    PROVE  \E b \in Nat : \A k \in 1..N : f[k] <= b
<1> DEFINE S == {n \in 0..N : \E b \in Nat : \A k \in 1..n : f[k] <= b}
<1>1. 0 \in S
  OBVIOUS
<1>2. ASSUME NEW n \in 0..N, n < N, n \in S PROVE n + 1 \in S
  <2>1. PICK b \in Nat : \A k \in 1..n : f[k] <= b
    BY <1>2
  <2>2. f[n + 1] \in Nat
    BY <1>2
  <2>3. \A k \in 1..n + 1 : f[k] <= b + f[n + 1]
    BY <2>1, <2>2
  <2>4. n + 1 \in 0..N /\ b + f[n + 1] \in Nat
    BY <1>2, <2>2
  <2> QED BY <2>3, <2>4
<1> HIDE DEF S
<1>3. \A n \in 0..N : n \in S
  BY <1>1, <1>2, Induction
<1>4. N \in S
  BY <1>3
<1> QED BY <1>4 DEF S

\* A recursive definition over the numbers up to N defines a function.
Chains(N, X, x, g) ==
    {f \in [0..N -> X] : f[0] = x /\ \A n \in 1..N : f[n] = g[n][f[n - 1]]}

\* Applying N functions in turn: what a recursive function of JevState does exists.
LEMMA Recursion ==
    ASSUME NEW N \in Nat, NEW X, NEW x \in X, NEW g \in [1..N -> [X -> X]]
    PROVE  Chains(N, X, x, g) # {}
<1> DEFINE Def(f, m) == f[0] = x /\ \A n \in 1..m : f[n] = g[n][f[n - 1]]
           S == {m \in 0..N : \E f \in [0..m -> X] : Def(f, m)}
<1>1. 0 \in S
  <2>1. [n \in 0..0 |-> x] \in [0..0 -> X] /\ Def([n \in 0..0 |-> x], 0)
    OBVIOUS
  <2> HIDE DEF Def
  <2>2. \E f \in [0..0 -> X] : Def(f, 0)
    BY <2>1
  <2> QED BY <2>2
<1>2. ASSUME NEW m \in 0..N, m < N, m \in S PROVE m + 1 \in S
  <2>1. PICK f \in [0..m -> X] : Def(f, m)
    BY <1>2
  <2> DEFINE h == [n \in 0..m + 1 |-> IF n <= m THEN f[n] ELSE g[m + 1][f[m]]]
  <2>2. g[m + 1][f[m]] \in X
    <3>1. m + 1 \in 1..N /\ f[m] \in X
      BY <1>2
    <3>2. g[m + 1] \in [X -> X]
      BY <3>1
    <3> QED BY <3>1, <3>2
  <2>3. h \in [0..m + 1 -> X]
    BY <2>1, <2>2
  <2>4. h[0] = x
    BY <2>1
  <2>5. ASSUME NEW n \in 1..m + 1 PROVE h[n] = g[n][h[n - 1]]
    <3>1. n - 1 \in 0..m /\ h[n - 1] = f[n - 1]
      BY <2>5
    <3>2. CASE n <= m
      BY <2>1, <3>1, <3>2
    <3>3. CASE n = m + 1
      <4>1. h[n] = g[m + 1][f[m]]
        BY <3>3
      <4> QED BY <3>1, <3>3, <4>1
    <3> QED BY <2>5, <3>2, <3>3
  <2> HIDE DEF h
  <2>6. m + 1 \in 0..N /\ Def(h, m + 1)
    BY <1>2, <2>4, <2>5
  <2> HIDE DEF Def
  <2> QED BY <2>3, <2>6
<1> HIDE DEF S
<1>3. \A m \in 0..N : m \in S
  BY <1>1, <1>2, Induction
<1>4. N \in S
  BY <1>3
<1> QED BY <1>4 DEF S, Chains

-----------------------------------------------------------------------------
(* Sums.                                                                   *)

\* A function on 1..N is a sequence of that length.
LEMMA IsSequence ==
    ASSUME NEW N \in Nat, NEW T, NEW s \in [1..N -> T]
    PROVE  s \in Seq(T) /\ Len(s) = N /\ DOMAIN s = 1..N
<1>1. s \in Seq(T)
  OBVIOUS
<1>2. Len(s) \in Nat /\ DOMAIN s = 1..Len(s) /\ DOMAIN s = 1..N
  BY <1>1
<1>3. Len(s) = N
  BY <1>2
<1> QED BY <1>1, <1>2, <1>3

\* Total adds the numbers up one by one.
LEMMA TotalFacts ==
    ASSUME NEW N \in Nat, NEW a \in [1..N -> Nat]
    PROVE  \E s \in [0..N -> Nat] :
             s[0] = 0 /\ (\A n \in 1..N : s[n] = s[n - 1] + a[n]) /\ Total(a) = s[N]
<1> DEFINE g == [n \in 1..N |-> [x \in Nat |-> x + a[n]]]
           R(f) == f = [n \in 0..N |-> IF n = 0 THEN 0 ELSE f[n - 1] + a[n]]
           sum == CHOOSE f : R(f)
<1>1. \E f \in [0..N -> Nat] : R(f)
  <2>1. g \in [1..N -> [Nat -> Nat]]
    OBVIOUS
  <2> HIDE DEF g
  <2>2. PICK f \in [0..N -> Nat] : f[0] = 0 /\ \A n \in 1..N : f[n] = g[n][f[n - 1]]
    <3>1. 0 \in Nat
      OBVIOUS
    <3>2. Chains(N, Nat, 0, g) # {}
      BY <2>1, <3>1, Recursion
    <3> QED BY <3>2 DEF Chains
  <2>3. ASSUME NEW n \in 1..N PROVE g[n][f[n - 1]] = f[n - 1] + a[n]
    <3>1. f[n - 1] \in Nat
      OBVIOUS
    <3> QED BY <3>1 DEF g
  <2>4. \A n \in 0..N : f[n] = IF n = 0 THEN 0 ELSE f[n - 1] + a[n]
    BY <2>2, <2>3
  <2>5. R(f)
    BY <2>4
  <2> QED BY <2>5
<1>2. R(sum)
  <2> HIDE DEF R
  <2> QED BY <1>1 DEF sum
<1>3. Len(a) = N
  BY IsSequence
<1>4. Total(a) = sum[N]
  BY <1>3 DEF Total
<1> HIDE DEF sum
<1>5. /\ DOMAIN sum = 0..N /\ sum[0] = 0
      /\ \A n \in 1..N : sum[n] = sum[n - 1] + a[n]
  BY <1>2
<1>6. sum \in [0..N -> Nat]
  <2> DEFINE S == {n \in 0..N : sum[n] \in Nat}
  <2>1. 0 \in S
    BY <1>5
  <2>2. ASSUME NEW n \in 0..N, n < N, n \in S PROVE n + 1 \in S
    <3>1. n + 1 \in 1..N /\ sum[n + 1] = sum[n + 1 - 1] + a[n + 1] /\ a[n + 1] \in Nat
      BY <1>5, <2>2
    <3>2. sum[n + 1 - 1] = sum[n] /\ sum[n] \in Nat
      BY <2>2
    <3> QED BY <3>1, <3>2
  <2> HIDE DEF S
  <2>3. \A n \in 0..N : n \in S
    BY <2>1, <2>2, Induction
  <2>4. \A n \in 0..N : sum[n] \in Nat
    BY <2>3 DEF S
  <2> QED BY <1>2, <2>4
<1> QED BY <1>4, <1>5, <1>6

\* A sum of no larger numbers is no larger; it is smaller if one of them is.
LEMMA TotalMonotone ==
    ASSUME NEW N \in Nat, NEW a \in [1..N -> Nat], NEW b \in [1..N -> Nat],
           \A n \in 1..N : b[n] <= a[n]
    PROVE  /\ Total(a) \in Nat /\ Total(b) \in Nat /\ Total(b) <= Total(a)
           /\ (\E n \in 1..N : b[n] < a[n]) => Total(b) < Total(a)
<1>1. PICK s \in [0..N -> Nat] :
        s[0] = 0 /\ (\A n \in 1..N : s[n] = s[n - 1] + a[n]) /\ Total(a) = s[N]
  BY TotalFacts
<1>2. PICK t \in [0..N -> Nat] :
        t[0] = 0 /\ (\A n \in 1..N : t[n] = t[n - 1] + b[n]) /\ Total(b) = t[N]
  BY TotalFacts
<1> DEFINE S == {n \in 0..N : /\ t[n] <= s[n]
                              /\ (\E k \in 1..n : b[k] < a[k]) => t[n] < s[n]}
<1>3. 0 \in S
  BY <1>1, <1>2
<1>4. ASSUME NEW n \in 0..N, n < N, n \in S PROVE n + 1 \in S
  <2>1. n + 1 \in 1..N /\ n + 1 \in 0..N /\ n + 1 - 1 = n
    BY <1>4
  <2>2. /\ s[n + 1] = s[n] + a[n + 1] /\ t[n + 1] = t[n] + b[n + 1]
        /\ b[n + 1] <= a[n + 1]
        /\ {s[n], t[n], a[n + 1], b[n + 1]} \subseteq Nat
    BY <1>1, <1>2, <1>4, <2>1
  <2>3. t[n + 1] <= s[n + 1]
    BY <1>4, <2>2
  <2>4. ASSUME NEW k \in 1..n + 1, b[k] < a[k] PROVE t[n + 1] < s[n + 1]
    <3>1. CASE k = n + 1
      BY <1>4, <2>2, <2>4, <3>1
    <3>2. CASE k # n + 1
      <4>1. k \in 1..n
        BY <3>2
      <4>2. t[n] < s[n]
        BY <1>4, <2>4, <4>1
      <4> QED BY <2>2, <4>2
    <3> QED BY <3>1, <3>2
  <2> QED BY <2>1, <2>3, <2>4
<1> HIDE DEF S
<1>5. \A n \in 0..N : n \in S
  BY <1>3, <1>4, Induction
<1>6. N \in S
  BY <1>5
<1> QED BY <1>1, <1>2, <1>6 DEF S

\* A sum of natural numbers is one.
LEMMA TotalType ==
    ASSUME NEW N \in Nat, NEW a \in [1..N -> Nat]
    PROVE  Total(a) \in Nat
BY TotalMonotone

\* The sum of all but the last.
LEMMA TotalOfFront ==
    ASSUME NEW N \in Nat, NEW a \in [1..N + 1 -> Nat], NEW b \in [1..N -> Nat],
           \A n \in 1..N : b[n] = a[n]
    PROVE  Total(b) \in Nat /\ Total(a) = Total(b) + a[N + 1]
<1>1. PICK s \in [0..N + 1 -> Nat] :
        s[0] = 0 /\ (\A n \in 1..N + 1 : s[n] = s[n - 1] + a[n]) /\ Total(a) = s[N + 1]
  <2>1. N + 1 \in Nat
    OBVIOUS
  <2> QED BY <2>1, TotalFacts
<1>2. PICK t \in [0..N -> Nat] :
        t[0] = 0 /\ (\A n \in 1..N : t[n] = t[n - 1] + b[n]) /\ Total(b) = t[N]
  BY TotalFacts
<1> DEFINE S == {n \in 0..N : t[n] = s[n]}
<1>3. 0 \in S
  BY <1>1, <1>2
<1>4. ASSUME NEW n \in 0..N, n < N, n \in S PROVE n + 1 \in S
  <2>1. n + 1 \in 1..N /\ n + 1 \in 1..N + 1 /\ n + 1 - 1 = n
    BY <1>4
  <2>2. s[n + 1] = s[n] + a[n + 1] /\ t[n + 1] = t[n] + b[n + 1]
    BY <1>1, <1>2, <2>1
  <2> QED BY <1>4, <2>1, <2>2
<1> HIDE DEF S
<1>5. \A n \in 0..N : n \in S
  BY <1>3, <1>4, Induction
<1>6. t[N] = s[N]
  <2>1. N \in S
    BY <1>5
  <2> QED BY <2>1 DEF S
<1>7. s[N + 1] = s[N + 1 - 1] + a[N + 1] /\ N + 1 - 1 = N
  BY <1>1
<1> QED BY <1>1, <1>2, <1>6, <1>7

\* The sum of one number.
LEMMA TotalOfOne ==
    ASSUME NEW a \in [1..1 -> Nat]
    PROVE  Total(a) = a[1]
<1>1. PICK s \in [0..1 -> Nat] :
        s[0] = 0 /\ (\A n \in 1..1 : s[n] = s[n - 1] + a[n]) /\ Total(a) = s[1]
  <2>1. 1 \in Nat
    OBVIOUS
  <2> QED BY <2>1, TotalFacts
<1>2. s[1] = s[1 - 1] + a[1] /\ 1 - 1 = 0 /\ a[1] \in Nat
  BY <1>1
<1> QED BY <1>1, <1>2

-----------------------------------------------------------------------------
(* Cuts of a text and of a message.                                        *)

\* A cut is no longer than asked for, nor than the text, and splits no pair.
LEMMA CutFacts ==
    ASSUME NEW t \in Text, NEW n \in Nat
    PROVE  /\ SafeCut(t, n) \in Text /\ SafeCut(t, n).pairs = t.pairs
           /\ SafeCut(t, n).length <= n /\ SafeCut(t, n).length <= t.length
           /\ n < t.length => SafeCut(t, n).length < t.length
           /\ n >= t.length => SafeCut(t, n) = t
<1>1. t.length \in Nat /\ t.pairs \in BOOLEAN /\ (t.pairs => t.length % 2 = 0)
  BY DEF Text
<1> DEFINE cut == Min({n, t.length})
<1>2. cut \in Nat /\ cut <= n /\ cut <= t.length /\ cut \in {n, t.length}
  <2>1. {n, t.length} \in SUBSET Nat
    BY <1>1
  <2> QED BY <2>1, MinFacts
<1>3. /\ SafeCut(t, n).length = IF t.pairs THEN cut - (cut % 2) ELSE cut
      /\ SafeCut(t, n).pairs = t.pairs
  BY DEF SafeCut
<1>4. SafeCut(t, n) = [length |-> IF t.pairs THEN cut - (cut % 2) ELSE cut, pairs |-> t.pairs]
  BY DEF SafeCut
<1>5. n >= t.length => cut = t.length
  BY <1>1, <1>2
<1> HIDE DEF cut
<1>6. /\ cut - (cut % 2) \in Nat /\ cut - (cut % 2) <= cut
      /\ (cut - (cut % 2)) % 2 = 0
  BY <1>2
<1>7. SafeCut(t, n) \in Text
  BY <1>1, <1>2, <1>3, <1>4, <1>6 DEF Text
<1>8. SafeCut(t, n).length <= cut
  BY <1>1, <1>2, <1>3, <1>6
<1>9. ASSUME n >= t.length PROVE SafeCut(t, n) = t
  <2>1. SafeCut(t, n).length = t.length
    BY <1>1, <1>3, <1>5, <1>9
  <2>2. t = [length |-> t.length, pairs |-> t.pairs]
    BY DEF Text
  <2> QED BY <1>3, <1>4, <2>1, <2>2
<1>10. SafeCut(t, n).length \in Nat
  BY <1>7 DEF Text
<1> QED BY <1>1, <1>2, <1>3, <1>7, <1>8, <1>9, <1>10

\* Of two cuts the shorter one counts.
LEMMA CutTwice ==
    ASSUME NEW t \in Text, NEW n \in Nat, NEW m \in Nat, n <= m
    PROVE  /\ SafeCut(SafeCut(t, m), n) = SafeCut(t, n)
           /\ SafeCut(t, n).length <= SafeCut(t, m).length
<1>1. t.length \in Nat /\ t.pairs \in BOOLEAN /\ (t.pairs => t.length % 2 = 0)
  BY DEF Text
<1> DEFINE s == SafeCut(t, m)
           a == Min({m, t.length})
           b == Min({n, t.length})
           c == Min({n, s.length})
<1>2. /\ a \in Nat /\ a \in {m, t.length} /\ a <= m /\ a <= t.length
      /\ b \in Nat /\ b \in {n, t.length} /\ b <= n /\ b <= t.length
  <2>1. {m, t.length} \in SUBSET Nat /\ {n, t.length} \in SUBSET Nat
    BY <1>1
  <2> QED BY <2>1, MinFacts
<1>3. /\ s.length = IF t.pairs THEN a - (a % 2) ELSE a
      /\ s.pairs = t.pairs
  BY DEF SafeCut
<1>4. /\ SafeCut(t, n) = [length |-> IF t.pairs THEN b - (b % 2) ELSE b, pairs |-> t.pairs]
      /\ SafeCut(s, n) = [length |-> IF s.pairs THEN c - (c % 2) ELSE c, pairs |-> s.pairs]
      /\ SafeCut(t, n).length = IF t.pairs THEN b - (b % 2) ELSE b
  BY DEF SafeCut
<1>5. s.length \in Nat
  BY CutFacts DEF Text
<1>6. c \in {n, s.length} /\ c <= n /\ c <= s.length
  <2>1. {n, s.length} \in SUBSET Nat
    BY <1>5
  <2> QED BY <2>1, MinFacts
<1> HIDE DEF a, b, c, s
<1>7. b <= a
  BY <1>1, <1>2
<1>8. CASE t.pairs
  <2>1. s.length = a - (a % 2) /\ SafeCut(t, n).length = b - (b % 2)
    BY <1>3, <1>4, <1>8
  <2>2. c - (c % 2) = b - (b % 2)
    BY <1>1, <1>2, <1>6, <1>8, <2>1
  <2>3. SafeCut(s, n) = SafeCut(t, n)
    BY <1>3, <1>4, <1>8, <2>2
  <2>4. b - (b % 2) <= a - (a % 2)
    BY <1>2, <1>7
  <2> QED BY <2>1, <2>3, <2>4 DEF s
<1>9. CASE ~t.pairs
  <2>1. s.length = a /\ SafeCut(t, n).length = b
    BY <1>3, <1>4, <1>9
  <2>2. c = b
    BY <1>1, <1>2, <1>6, <2>1
  <2>3. SafeCut(s, n) = SafeCut(t, n)
    BY <1>3, <1>4, <1>9, <2>2
  <2> QED BY <1>7, <2>1, <2>3 DEF s
<1> QED BY <1>8, <1>9

\* A cut past what an earlier one has left changes nothing.
LEMMA CutPast ==
    ASSUME NEW t \in Text, NEW m \in Nat, NEW n \in Nat, n <= m, SafeCut(t, m).length <= n
    PROVE  SafeCut(t, n) = SafeCut(t, m)
<1>1. SafeCut(t, m) \in Text
  BY CutFacts
<1>2. SafeCut(SafeCut(t, m), n) = SafeCut(t, m)
  BY <1>1, CutFacts
<1> QED BY <1>2, CutTwice

\* t is s, or a cut of it.
Within(t, s) == t.pairs = s.pairs /\ t.length <= s.length

\* A value that is cut counts no more.
LEMMA ValueFacts ==
    ASSUME NEW t \in Text, NEW s \in Text
    PROVE  ValueTokens(t) \in Nat /\ (Within(t, s) => ValueTokens(t) <= ValueTokens(s))
<1>1. {t.length, s.length, KeyTokens} \subseteq Nat /\ t.pairs \in BOOLEAN
  BY StateAssumption DEF Text
<1> QED BY <1>1 DEF Within, ValueTokens, TextTokens

StateMessage == [headers : Seq(Text), body : Text]

\* What a message is made of.
LEMMA MessageFacts ==
    ASSUME NEW m \in StateMessage
    PROVE  /\ m = [headers |-> m.headers, body |-> m.body]
           /\ m.body \in Text /\ m.body.length \in Nat
           /\ m.headers \in Seq(Text) /\ Len(m.headers) \in Nat
           /\ DOMAIN m.headers = 1..Len(m.headers)
           /\ m.headers \in [1..Len(m.headers) -> Text]
           /\ \A k \in 1..Len(m.headers) : m.headers[k] \in Text /\ m.headers[k].length \in Nat
BY DEF StateMessage, Text

\* A message of which values are cut counts no more.
LEMMA TokensMonotone ==
    ASSUME NEW m \in StateMessage, NEW c \in StateMessage,
           DOMAIN c.headers = DOMAIN m.headers,
           \A k \in DOMAIN m.headers : Within(c.headers[k], m.headers[k]),
           Within(c.body, m.body)
    PROVE  /\ MessageTokens(m) \in Nat /\ MessageTokens(c) \in Nat
           /\ MessageTokens(c) <= MessageTokens(m)
<1> DEFINE N == Len(m.headers)
           a == [k \in DOMAIN m.headers |-> ValueTokens(m.headers[k])]
           b == [k \in DOMAIN c.headers |-> ValueTokens(c.headers[k])]
<1>1. /\ N \in Nat /\ DOMAIN m.headers = 1..N /\ DOMAIN c.headers = 1..N
      /\ \A k \in 1..N : m.headers[k] \in Text /\ c.headers[k] \in Text
      /\ m.body \in Text /\ c.body \in Text
  BY MessageFacts
<1>2. a \in [1..N -> Nat] /\ b \in [1..N -> Nat] /\ \A k \in 1..N : b[k] <= a[k]
  BY <1>1, ValueFacts
<1> HIDE DEF N
<1>3. /\ MessageTokens(m) = IF ValueTokens(m.body) + Total(a) = 0 THEN 2
                            ELSE ValueTokens(m.body) + Total(a) + 1
      /\ MessageTokens(c) = IF ValueTokens(c.body) + Total(b) = 0 THEN 2
                            ELSE ValueTokens(c.body) + Total(b) + 1
  BY DEF MessageTokens
<1> HIDE DEF a, b
<1>4. Total(a) \in Nat /\ Total(b) \in Nat /\ Total(b) <= Total(a)
  BY <1>1, <1>2, TotalMonotone
<1>5. /\ ValueTokens(m.body) \in Nat /\ ValueTokens(c.body) \in Nat
      /\ ValueTokens(c.body) <= ValueTokens(m.body)
  BY <1>1, ValueFacts
<1>6. Total(a) + ValueTokens(m.body) = 0 => Total(b) + ValueTokens(c.body) = 0
  BY <1>4, <1>5
<1> QED BY <1>3, <1>4, <1>5, <1>6

\* The estimate of a message is a number.
LEMMA TokensType ==
    ASSUME NEW m \in StateMessage
    PROVE  MessageTokens(m) \in Nat
<1>1. \A k \in DOMAIN m.headers : Within(m.headers[k], m.headers[k])
  BY MessageFacts DEF Within
<1>2. Within(m.body, m.body)
  BY MessageFacts DEF Within
<1> QED BY <1>1, <1>2, TokensMonotone

-----------------------------------------------------------------------------
(* The binary search.                                                      *)

\* The largest of the numbers between low and high that fits; low when none does.
Highest(fitting, low, high) == Max({low} \cup {n \in fitting : low < n /\ n < high})

IsHighest(r, fitting, low, high) ==
    /\ r \in Nat /\ low <= r
    /\ r = low \/ (r \in fitting /\ r < high)
    /\ \A n \in fitting : n < high => n <= r

\* The largest that fits within a range, or its start.
LEMMA HighestFacts ==
    ASSUME NEW fitting \in SUBSET Nat, NEW low \in Nat, NEW high \in Nat
    PROVE  IsHighest(Highest(fitting, low, high), fitting, low, high)
<1> DEFINE S == {low} \cup {n \in fitting : low < n /\ n < high}
<1>1. S \in SUBSET Nat /\ S # {} /\ low + high \in Nat /\ \A k \in S : k <= low + high
  <2>1. \A n \in fitting : n \in Nat
    OBVIOUS
  <2>2. \A k \in S : k \in Nat /\ k <= low + high
    BY <2>1
  <2>3. low \in S /\ low + high \in Nat
    OBVIOUS
  <2> HIDE DEF S
  <2> QED BY <2>2, <2>3
<1>2. low \in S /\ \A n \in fitting : n < high => n <= low \/ n \in S
  OBVIOUS
<1>3. \A n \in S : n = low \/ (n \in fitting /\ n < high)
  OBVIOUS
<1> HIDE DEF S
<1>4. Max(S) \in S /\ \A k \in S : k <= Max(S)
  BY <1>1, MaxFacts
<1>5. Highest(fitting, low, high) = Max(S)
  BY DEF S, Highest
<1>6. Max(S) \in Nat /\ low <= Max(S)
  BY <1>1, <1>2, <1>4
<1>7. \A n \in fitting : n < high => n <= Max(S)
  BY <1>2, <1>4, <1>6
<1> QED BY <1>3, <1>4, <1>5, <1>6, <1>7 DEF IsHighest

\* There is one such number only.
LEMMA HighestIsUnique ==
    ASSUME NEW fitting \in SUBSET Nat, NEW low \in Nat, NEW high \in Nat,
           NEW r, IsHighest(r, fitting, low, high),
           NEW q, IsHighest(q, fitting, low, high)
    PROVE  r = q
BY DEF IsHighest

\* Halving the range keeps the largest that fits within it.
LEMMA HighestInHalf ==
    ASSUME NEW fitting \in SUBSET Nat, \A n \in fitting : \A k \in 0..n : k \in fitting,
           NEW low \in Nat, NEW high \in Nat, NEW mid \in Nat, low < mid, mid < high
    PROVE  Highest(fitting, low, high) =
             IF mid \in fitting THEN Highest(fitting, mid, high)
             ELSE Highest(fitting, low, mid)
<1> DEFINE r == Highest(fitting, low, high)
           q == IF mid \in fitting THEN Highest(fitting, mid, high)
                ELSE Highest(fitting, low, mid)
<1>1. IsHighest(r, fitting, low, high)
  BY HighestFacts
<1>2. CASE mid \in fitting
  <2>1. IsHighest(q, fitting, mid, high)
    BY <1>2, HighestFacts
  <2> HIDE DEF q
  <2>2. IsHighest(q, fitting, low, high)
    BY <1>2, <2>1 DEF IsHighest
  <2> HIDE DEF r
  <2>3. r = q
    BY <1>1, <2>2, HighestIsUnique
  <2> QED BY <2>3 DEF r, q
<1>3. CASE mid \notin fitting
  <2>1. IsHighest(q, fitting, low, mid)
    BY <1>3, HighestFacts
  <2>2. \A n \in fitting : n < mid
    <3>1. \A n \in fitting : ~(mid <= n)
      BY <1>3
    <3> QED BY <3>1
  <2> HIDE DEF q
  <2>3. IsHighest(q, fitting, low, high)
    BY <2>1, <2>2 DEF IsHighest
  <2> HIDE DEF r
  <2>4. r = q
    BY <1>1, <2>3, HighestIsUnique
  <2> QED BY <2>4 DEF r, q
<1> QED BY <1>2, <1>3

\* The binary search finds it, of a set that holds all below each of its numbers.
LEMMA SearchFindsHighest ==
    ASSUME NEW hi \in Nat, NEW fitting \in SUBSET Nat,
           \A n \in fitting : \A k \in 0..n : k \in fitting
    PROVE  LargestFitting(0, hi, fitting) = Highest(fitting, 0, hi)
<1> DEFINE D == (0..hi) \X (0..hi)
           Half(range) == range[1] + (range[2] - range[1]) \div 2
           Step(f, range) == IF range[2] - range[1] <= 1 THEN range[1]
                             ELSE IF Half(range) \in fitting THEN f[<<Half(range), range[2]>>]
                             ELSE f[<<range[1], Half(range)>>]
           R(f) == f = [range \in D |-> Step(f, range)]
           w == [range \in D |-> Highest(fitting, range[1], range[2])]
           search == CHOOSE f : R(f)
<1>1. LargestFitting(0, hi, fitting) = search[<<0, hi>>]
  BY DEF LargestFitting
<1>2. ASSUME NEW range \in D
      PROVE  /\ range[1] \in 0..hi /\ range[2] \in 0..hi
             /\ range[2] - range[1] > 1 =>
                  /\ Half(range) \in 0..hi
                  /\ range[1] < Half(range) /\ Half(range) < range[2]
                  /\ <<Half(range), range[2]>> \in D /\ <<range[1], Half(range)>> \in D
  OBVIOUS
<1> HIDE DEF Half
<1>3. ASSUME NEW range \in D PROVE w[range] = Step(w, range)
  <2>1. w[range] = Highest(fitting, range[1], range[2])
    OBVIOUS
  <2>2. CASE range[2] - range[1] <= 1
    <3>1. IsHighest(w[range], fitting, range[1], range[2])
      BY <1>2, <2>1, HighestFacts
    <3>2. w[range] = range[1]
      BY <1>2, <2>2, <3>1 DEF IsHighest
    <3> QED BY <2>2, <3>2
  <2>3. CASE range[2] - range[1] > 1
    <3>1. /\ Half(range) \in Nat /\ range[1] \in Nat /\ range[2] \in Nat
          /\ range[1] < Half(range) /\ Half(range) < range[2]
          /\ <<Half(range), range[2]>> \in D /\ <<range[1], Half(range)>> \in D
      BY <1>2, <2>3
    <3>2. w[range] = IF Half(range) \in fitting THEN Highest(fitting, Half(range), range[2])
                     ELSE Highest(fitting, range[1], Half(range))
      BY <2>1, <3>1, HighestInHalf
    <3>3. /\ w[<<Half(range), range[2]>>] = Highest(fitting, Half(range), range[2])
          /\ w[<<range[1], Half(range)>>] = Highest(fitting, range[1], Half(range))
      BY <3>1
    <3>4. ~(range[2] - range[1] <= 1)
      BY <1>2, <2>3
    <3> QED BY <3>2, <3>3, <3>4
  <2> QED BY <1>2, <2>2, <2>3
<1>4. R(w)
  BY <1>3
<1>5. R(search)
  <2> HIDE DEF R, w
  <2> QED BY <1>4 DEF search
<1> HIDE DEF search
<1> DEFINE S == {d \in 0..hi : \A range \in D : range[2] - range[1] <= d => search[range] = w[range]}
<1>6. 0 \in S
  <2>1. ASSUME NEW range \in D, range[2] - range[1] <= 0 PROVE search[range] = w[range]
    <3>1. range[2] - range[1] <= 1
      BY <1>2, <2>1
    <3>2. search[range] = range[1]
      BY <1>5, <3>1
    <3>3. w[range] = range[1]
      BY <1>3, <3>1
    <3> QED BY <3>2, <3>3
  <2> HIDE DEF w
  <2> QED BY <2>1
<1>7. ASSUME NEW d \in 0..hi, d < hi, d \in S PROVE d + 1 \in S
  <2>1. ASSUME NEW range \in D, range[2] - range[1] <= d + 1 PROVE search[range] = w[range]
    <3>1. search[range] = Step(search, range) /\ w[range] = Step(w, range)
      BY <1>3, <1>5
    <3>2. CASE range[2] - range[1] <= 1
      BY <3>1, <3>2
    <3>3. CASE range[2] - range[1] > 1
      <4>1. /\ Half(range) \in 0..hi /\ range[1] \in 0..hi /\ range[2] \in 0..hi
            /\ range[1] < Half(range) /\ Half(range) < range[2]
            /\ <<Half(range), range[2]>> \in D /\ <<range[1], Half(range)>> \in D
        BY <1>2, <3>3
      <4>2. range[2] - Half(range) <= d /\ Half(range) - range[1] <= d
        BY <1>7, <2>1, <4>1
      <4> HIDE DEF w
      <4>3. ASSUME NEW x \in 0..hi, NEW y \in 0..hi, y - x <= d, <<x, y>> \in D
            PROVE  search[<<x, y>>] = w[<<x, y>>]
        <5>1. \A r \in D : r[2] - r[1] <= d => search[r] = w[r]
          BY <1>7
        <5>2. <<x, y>>[1] = x /\ <<x, y>>[2] = y
          OBVIOUS
        <5>3. <<x, y>>[2] - <<x, y>>[1] <= d
          BY <4>3, <5>2
        <5> HIDE DEF D
        <5> QED BY <4>3, <5>1, <5>3
      <4>4. /\ search[<<Half(range), range[2]>>] = w[<<Half(range), range[2]>>]
            /\ search[<<range[1], Half(range)>>] = w[<<range[1], Half(range)>>]
        BY <4>1, <4>2, <4>3
      <4> QED BY <3>1, <4>4
    <3> QED BY <1>2, <3>2, <3>3
  <2>2. d + 1 \in 0..hi
    BY <1>7
  <2> HIDE DEF w, D
  <2> QED BY <2>1, <2>2
<1> HIDE DEF S
<1>8. \A d \in 0..hi : d \in S
  BY <1>6, <1>7, Induction
<1>9. search[<<0, hi>>] = w[<<0, hi>>]
  <2>1. hi \in S
    BY <1>8
  <2>2. <<0, hi>> \in D /\ <<0, hi>>[2] - <<0, hi>>[1] <= hi
    OBVIOUS
  <2> HIDE DEF w, D
  <2> QED BY <2>1, <2>2 DEF S
<1>10. w[<<0, hi>>] = Highest(fitting, 0, hi)
  <2>1. <<0, hi>> \in D /\ <<0, hi>>[1] = 0 /\ <<0, hi>>[2] = hi
    OBVIOUS
  <2> HIDE DEF D
  <2> QED BY <2>1
<1> QED BY <1>1, <1>9, <1>10

-----------------------------------------------------------------------------
(* Step 3: the newest body.                                                *)

\* A message of which the body is cut.
LEMMA BodyCutFacts ==
    ASSUME NEW m \in StateMessage, NEW n \in Nat
    PROVE  /\ WithBodyCut(m, n) \in StateMessage
           /\ WithBodyCut(m, n).headers = m.headers
           /\ WithBodyCut(m, n).body = SafeCut(m.body, n)
           /\ n >= m.body.length => WithBodyCut(m, n) = m
<1>1. m.body \in Text /\ m.headers \in Seq(Text) /\ m = [headers |-> m.headers, body |-> m.body]
  BY MessageFacts
<1>2. SafeCut(m.body, n) \in Text
  BY <1>1, CutFacts
<1>3. n >= m.body.length => SafeCut(m.body, n) = m.body
  BY <1>1, CutFacts
<1> QED BY <1>1, <1>2, <1>3 DEF WithBodyCut, StateMessage

\* Of two cuts of a body the shorter one counts.
LEMMA BodyCutTwice ==
    ASSUME NEW m \in StateMessage, NEW n \in Nat, NEW x \in Nat, n <= x
    PROVE  /\ WithBodyCut(WithBodyCut(m, x), n) = WithBodyCut(m, n)
           /\ MessageTokens(WithBodyCut(m, n)) <= MessageTokens(WithBodyCut(m, x))
           /\ SafeCut(m.body, x).length <= n => WithBodyCut(m, n) = WithBodyCut(m, x)
<1>1. m.body \in Text
  BY MessageFacts
<1>2. /\ SafeCut(SafeCut(m.body, x), n) = SafeCut(m.body, n)
      /\ SafeCut(m.body, n).length <= SafeCut(m.body, x).length
  BY <1>1, CutTwice
<1>3. SafeCut(m.body, n).pairs = m.body.pairs /\ SafeCut(m.body, x).pairs = m.body.pairs
  BY <1>1, CutFacts
<1>4. /\ WithBodyCut(m, n) \in StateMessage /\ WithBodyCut(m, x) \in StateMessage
      /\ WithBodyCut(m, n).headers = m.headers /\ WithBodyCut(m, x).headers = m.headers
      /\ WithBodyCut(m, n).body = SafeCut(m.body, n)
      /\ WithBodyCut(m, x).body = SafeCut(m.body, x)
  BY BodyCutFacts
<1>5. Within(WithBodyCut(m, n).body, WithBodyCut(m, x).body)
  BY <1>2, <1>3, <1>4 DEF Within
<1>6. \A k \in DOMAIN m.headers : Within(m.headers[k], m.headers[k])
  BY MessageFacts DEF Within
<1>7. MessageTokens(WithBodyCut(m, n)) <= MessageTokens(WithBodyCut(m, x))
  BY <1>4, <1>5, <1>6, TokensMonotone
<1>8. WithBodyCut(WithBodyCut(m, x), n) = WithBodyCut(m, n)
  BY <1>2, <1>4 DEF WithBodyCut
<1>9. SafeCut(m.body, x).length <= n => SafeCut(m.body, n) = SafeCut(m.body, x)
  BY <1>1, CutPast
<1> QED BY <1>7, <1>8, <1>9 DEF WithBodyCut

FittingBodies(m, left) ==
    {n \in 0..m.body.length : MessageTokens(WithBodyCut(m, n)) <= left}

\* The body is cut to the longest length that fits.
LEMMA CutBodyFacts ==
    ASSUME NEW m \in StateMessage, NEW left \in Int
    PROVE  /\ (m.body.length = 0 \/ MessageTokens(WithoutBody(m)) > left)
                => CutBody(m, left) = WithoutBody(m)
           /\ m.body.length # 0 /\ ~(MessageTokens(WithoutBody(m)) > left)
                => \E r \in Nat : /\ IsHighest(r, FittingBodies(m, left), 0, m.body.length)
                                  /\ CutBody(m, left) = WithBodyCut(m, r)
<1> DEFINE hi == m.body.length
           fitting == FittingBodies(m, left)
           r == LargestFitting(0, hi, fitting)
<1>1. hi \in Nat
  BY MessageFacts
<1>2. fitting \in SUBSET Nat
  BY <1>1 DEF FittingBodies
<1>3. ASSUME NEW n \in fitting, NEW k \in 0..n PROVE k \in fitting
  <2>1. n \in 0..hi /\ k \in 0..hi /\ k \in Nat /\ n \in Nat /\ k <= n
    BY <1>1, <1>3 DEF FittingBodies
  <2>2. MessageTokens(WithBodyCut(m, k)) <= MessageTokens(WithBodyCut(m, n))
    BY <2>1, BodyCutTwice
  <2>3. MessageTokens(WithBodyCut(m, k)) \in Nat /\ MessageTokens(WithBodyCut(m, n)) \in Nat
    BY <2>1, BodyCutFacts, TokensType
  <2>4. MessageTokens(WithBodyCut(m, n)) <= left
    BY DEF FittingBodies
  <2>5. MessageTokens(WithBodyCut(m, k)) <= left
    BY <2>2, <2>3, <2>4
  <2> QED BY <2>1, <2>5 DEF FittingBodies
<1>4. CutBody(m, left) = IF hi = 0 \/ MessageTokens(WithoutBody(m)) > left
                         THEN WithoutBody(m) ELSE WithBodyCut(m, r)
  BY DEF CutBody, FittingBodies
<1> HIDE DEF hi, fitting
<1>5. IsHighest(r, fitting, 0, hi)
  <2>1. r = Highest(fitting, 0, hi)
    BY <1>1, <1>2, <1>3, SearchFindsHighest
  <2> QED BY <1>1, <1>2, <2>1, HighestFacts
<1>6. r \in Nat
  BY <1>5 DEF IsHighest
<1> HIDE DEF r
<1> QED BY <1>4, <1>5, <1>6 DEF hi, fitting

\* Cutting one unit first changes nothing, unless nothing more need be cut.
LEMMA BodyStep ==
    ASSUME NEW m \in StateMessage, NEW left \in Int, m.body.length > 0,
           MessageTokens(m) > left,
           NEW d, d = WithBodyCut(m, m.body.length - 1)
    PROVE  /\ d \in StateMessage /\ d.body.length < m.body.length
           /\ MessageTokens(d) <= left => CutBody(m, left) = d
           /\ MessageTokens(d) > left => CutBody(d, left) = CutBody(m, left)
<1> DEFINE hi == m.body.length
           F == FittingBodies(m, left)
           G == FittingBodies(d, left)
<1>1. hi \in Nat /\ hi - 1 \in Nat /\ m.body \in Text
  BY MessageFacts
<1>2. /\ d \in StateMessage /\ d.headers = m.headers /\ d.body = SafeCut(m.body, hi - 1)
  BY <1>1, BodyCutFacts
<1>3. d.body.length \in Nat /\ d.body.length <= hi - 1 /\ d.body.length < hi
  <2>1. SafeCut(m.body, hi - 1).length <= hi - 1
    BY <1>1, CutFacts
  <2>2. d.body.length \in Nat
    BY <1>2, MessageFacts
  <2> QED BY <1>1, <1>2, <2>1, <2>2
<1>4. \A n \in 0..hi - 1 : WithBodyCut(d, n) = WithBodyCut(m, n)
  BY <1>1, BodyCutTwice
<1>5. WithoutBody(d) = WithoutBody(m)
  BY <1>1, <1>4 DEF WithoutBody
<1>6. MessageTokens(WithoutBody(m)) <= MessageTokens(d)
  BY <1>1, BodyCutTwice DEF WithoutBody
<1>7. /\ MessageTokens(d) \in Nat /\ MessageTokens(m) \in Nat
      /\ MessageTokens(WithoutBody(m)) \in Nat
  BY <1>2, BodyCutFacts, TokensType DEF WithoutBody
<1>8. \A n \in F : n \in Nat /\ n <= hi /\ MessageTokens(WithBodyCut(m, n)) <= left
  BY <1>1 DEF FittingBodies
<1>9. ASSUME MessageTokens(d) <= left PROVE CutBody(m, left) = d
  <2>1. hi # 0 /\ ~(MessageTokens(WithoutBody(m)) > left)
    BY <1>1, <1>6, <1>7, <1>9
  <2>2. PICK r \in Nat : IsHighest(r, F, 0, hi) /\ CutBody(m, left) = WithBodyCut(m, r)
    BY <2>1, CutBodyFacts
  <2>3. hi - 1 \in F /\ hi - 1 < hi
    BY <1>1, <1>9 DEF FittingBodies
  <2>4. hi - 1 <= r
    BY <2>2, <2>3 DEF IsHighest
  <2>5. r = 0 \/ r < hi
    BY <2>2 DEF IsHighest
  <2>6. r = hi - 1
    BY <1>1, <2>4, <2>5
  <2> QED BY <2>2, <2>6
<1>10. ASSUME MessageTokens(d) > left PROVE CutBody(d, left) = CutBody(m, left)
  <2>1. \A n \in Nat : n <= hi - 1 /\ d.body.length <= n => WithBodyCut(m, n) = d
    BY <1>1, <1>2, BodyCutTwice
  <2>2. ASSUME NEW n \in F, n < hi PROVE n \in G /\ n < d.body.length
    <3>1. n \in 0..hi - 1 /\ MessageTokens(WithBodyCut(m, n)) <= left /\ n \in Nat
      BY <1>1, <1>8, <2>2
    <3>2. n < d.body.length
      <4> SUFFICES ASSUME ~(n < d.body.length) PROVE FALSE
        OBVIOUS
      <4>1. WithBodyCut(m, n) = d
        BY <1>1, <1>3, <2>1, <3>1
      <4>2. MessageTokens(d) <= left
        BY <3>1, <4>1
      <4> QED BY <1>7, <1>10, <4>2
    <3>3. MessageTokens(WithBodyCut(d, n)) <= left
      BY <1>4, <3>1
    <3> QED BY <1>3, <3>1, <3>2, <3>3 DEF FittingBodies
  <2>3. ASSUME NEW n \in G, n < d.body.length PROVE n \in F /\ n < hi
    <3>1. n \in 0..hi - 1 /\ n \in 0..hi
      BY <1>1, <1>3, <2>3 DEF FittingBodies
    <3>2. MessageTokens(WithBodyCut(m, n)) <= left
      BY <1>4, <3>1, <2>3 DEF FittingBodies
    <3> QED BY <1>1, <3>1, <3>2 DEF FittingBodies
  <2>4. CASE MessageTokens(WithoutBody(m)) > left
    BY <1>2, <1>5, <2>4, CutBodyFacts
  <2>5. CASE ~(MessageTokens(WithoutBody(m)) > left)
    <3>1. d.body.length # 0
      <4> SUFFICES ASSUME d.body.length = 0 PROVE FALSE
        OBVIOUS
      <4>1. WithoutBody(m) = d
        BY <1>1, <2>1 DEF WithoutBody
      <4> QED BY <1>10, <2>5, <4>1
    <3>2. PICK r \in Nat : IsHighest(r, F, 0, hi) /\ CutBody(m, left) = WithBodyCut(m, r)
      BY <1>1, <2>5, CutBodyFacts
    <3>3. /\ d \in StateMessage /\ d.body.length # 0
          /\ ~(MessageTokens(WithoutBody(d)) > left)
      BY <1>2, <1>5, <2>5, <3>1
    <3>4. PICK q \in Nat : /\ IsHighest(q, G, 0, d.body.length)
                           /\ CutBody(d, left) = WithBodyCut(d, q)
      BY <3>3, CutBodyFacts
    <3> HIDE DEF F, G, hi
    <3>5. IsHighest(q, F, 0, hi)
      BY <2>2, <2>3, <3>4 DEF IsHighest
    <3>6. q = r
      BY <3>2, <3>5 DEF IsHighest
    <3>7. r \in 0..hi - 1
      BY <1>1, <3>2 DEF IsHighest, hi
    <3> QED BY <1>4, <3>2, <3>4, <3>6, <3>7
  <2> QED BY <2>4, <2>5
<1> QED BY <1>2, <1>3, <1>9, <1>10

-----------------------------------------------------------------------------
(* Step 4: the newest headers.                                             *)

CapOf(cap, lowered, k) == IF k <= lowered THEN cap ELSE cap + 1

\* A message of which the headers are capped.
LEMMA CapFacts ==
    ASSUME NEW m \in StateMessage, NEW cap \in Nat, NEW lowered \in Nat
    PROVE  LET c == CapHeaders(m, cap, lowered)
               N == Len(m.headers)
           IN  /\ c \in StateMessage /\ c.body = m.body
               /\ c.headers = [k \in 1..N |-> SafeCut(m.headers[k], CapOf(cap, lowered, k))]
               /\ c.headers \in [1..N -> Text]
               /\ DOMAIN c.headers = 1..N /\ Len(c.headers) = N
               /\ \A k \in 1..N : /\ CapOf(cap, lowered, k) \in Nat
                                  /\ c.headers[k] = SafeCut(m.headers[k], CapOf(cap, lowered, k))
<1> DEFINE c == CapHeaders(m, cap, lowered)
           N == Len(m.headers)
           h == [k \in 1..N |-> SafeCut(m.headers[k], CapOf(cap, lowered, k))]
<1>1. N \in Nat /\ DOMAIN m.headers = 1..N /\ m.body \in Text /\ \A k \in 1..N : m.headers[k] \in Text
  BY MessageFacts
<1>2. c = [headers |-> h, body |-> m.body]
  BY <1>1 DEF CapHeaders, CapOf
<1>3. \A k \in 1..N : CapOf(cap, lowered, k) \in Nat
  BY <1>1 DEF CapOf
<1>4. h \in [1..N -> Text]
  BY <1>1, <1>3, CutFacts
<1>5. \A k \in 1..N : h[k] = SafeCut(m.headers[k], CapOf(cap, lowered, k))
  OBVIOUS
<1>6. h = [k \in 1..N |-> SafeCut(m.headers[k], CapOf(cap, lowered, k))]
  OBVIOUS
<1> HIDE DEF h
<1>7. h \in Seq(Text) /\ Len(h) = N /\ DOMAIN h = 1..N
  BY <1>1, <1>4, IsSequence
<1>8. c.headers = h /\ c.body = m.body
  BY <1>2
<1>9. c \in StateMessage
  BY <1>1, <1>2, <1>7 DEF StateMessage
<1> HIDE DEF c
<1>10. /\ c \in StateMessage /\ c.body = m.body
       /\ c.headers = [k \in 1..N |-> SafeCut(m.headers[k], CapOf(cap, lowered, k))]
       /\ c.headers \in [1..N -> Text]
       /\ DOMAIN c.headers = 1..N /\ Len(c.headers) = N
       /\ \A k \in 1..N : /\ CapOf(cap, lowered, k) \in Nat
                          /\ c.headers[k] = SafeCut(m.headers[k], CapOf(cap, lowered, k))
  BY <1>3, <1>4, <1>5, <1>6, <1>7, <1>8, <1>9
<1> QED BY <1>10 DEF c

\* Messages of which each header is cut to the same are the same when capped.
LEMMA CapIsSame ==
    ASSUME NEW m \in StateMessage, NEW cap \in Nat, NEW lowered \in Nat,
           NEW d \in StateMessage, NEW cap2 \in Nat, NEW lowered2 \in Nat,
           Len(d.headers) = Len(m.headers), d.body = m.body,
           \A k \in 1..Len(m.headers) :
                SafeCut(d.headers[k], CapOf(cap2, lowered2, k))
                    = SafeCut(m.headers[k], CapOf(cap, lowered, k))
    PROVE  CapHeaders(d, cap2, lowered2) = CapHeaders(m, cap, lowered)
<1>1. DOMAIN m.headers = 1..Len(m.headers) /\ DOMAIN d.headers = 1..Len(m.headers)
  BY MessageFacts
<1>2. CapHeaders(m, cap, lowered) =
        [headers |-> [k \in 1..Len(m.headers) |-> SafeCut(m.headers[k], CapOf(cap, lowered, k))],
         body |-> m.body]
  BY <1>1 DEF CapHeaders, CapOf
<1>3. CapHeaders(d, cap2, lowered2) =
        [headers |-> [k \in 1..Len(m.headers) |-> SafeCut(d.headers[k], CapOf(cap2, lowered2, k))],
         body |-> m.body]
  BY <1>1 DEF CapHeaders, CapOf
<1>4. [k \in 1..Len(m.headers) |-> SafeCut(d.headers[k], CapOf(cap2, lowered2, k))]
        = [k \in 1..Len(m.headers) |-> SafeCut(m.headers[k], CapOf(cap, lowered, k))]
  OBVIOUS
<1> QED BY <1>2, <1>3, <1>4

\* Caps that cut nothing leave the message as it is.
LEMMA CapIsIdle ==
    ASSUME NEW m \in StateMessage, NEW cap \in Nat, NEW lowered \in Nat,
           \A k \in 1..Len(m.headers) : m.headers[k].length <= CapOf(cap, lowered, k)
    PROVE  CapHeaders(m, cap, lowered) = m
<1> DEFINE c == CapHeaders(m, cap, lowered)
           N == Len(m.headers)
<1>1. /\ c \in StateMessage /\ c.body = m.body /\ c.headers \in [1..N -> Text]
      /\ \A k \in 1..N : /\ CapOf(cap, lowered, k) \in Nat
                         /\ c.headers[k] = SafeCut(m.headers[k], CapOf(cap, lowered, k))
  BY CapFacts
<1>2. /\ m.headers \in [1..N -> Text] /\ m = [headers |-> m.headers, body |-> m.body]
      /\ \A k \in 1..N : m.headers[k] \in Text /\ m.headers[k].length \in Nat
  BY MessageFacts
<1>3. c = [headers |-> c.headers, body |-> c.body]
  BY <1>1, MessageFacts
<1> HIDE DEF c
<1>4. ASSUME NEW k \in 1..N PROVE c.headers[k] = m.headers[k]
  <2>1. /\ m.headers[k] \in Text /\ m.headers[k].length \in Nat
        /\ CapOf(cap, lowered, k) \in Nat /\ m.headers[k].length <= CapOf(cap, lowered, k)
        /\ c.headers[k] = SafeCut(m.headers[k], CapOf(cap, lowered, k))
    BY <1>1, <1>2
  <2>2. CapOf(cap, lowered, k) >= m.headers[k].length
    BY <2>1
  <2>3. SafeCut(m.headers[k], CapOf(cap, lowered, k)) = m.headers[k]
    BY <2>1, <2>2, CutFacts
  <2> QED BY <2>1, <2>3
<1>5. c.headers = m.headers
  BY <1>1, <1>2, <1>4
<1> QED BY <1>1, <1>2, <1>3, <1>5 DEF c

\* Lower caps leave no more.
LEMMA CapMonotone ==
    ASSUME NEW m \in StateMessage, NEW cap \in Nat, NEW lowered \in Nat,
           NEW cap2 \in Nat, NEW lowered2 \in Nat,
           \A k \in 1..Len(m.headers) : CapOf(cap2, lowered2, k) <= CapOf(cap, lowered, k)
    PROVE  MessageTokens(CapHeaders(m, cap2, lowered2)) <= MessageTokens(CapHeaders(m, cap, lowered))
<1> DEFINE N == Len(m.headers)
           c == CapHeaders(m, cap, lowered)
           d == CapHeaders(m, cap2, lowered2)
<1>1. /\ c \in StateMessage /\ c.body = m.body /\ DOMAIN c.headers = 1..N
      /\ \A k \in 1..N : /\ CapOf(cap, lowered, k) \in Nat
                         /\ c.headers[k] = SafeCut(m.headers[k], CapOf(cap, lowered, k))
  BY CapFacts
<1>2. /\ d \in StateMessage /\ d.body = m.body /\ DOMAIN d.headers = 1..N
      /\ \A k \in 1..N : /\ CapOf(cap2, lowered2, k) \in Nat
                         /\ d.headers[k] = SafeCut(m.headers[k], CapOf(cap2, lowered2, k))
  BY CapFacts
<1>3. m.body.length \in Nat /\ \A k \in 1..N : m.headers[k] \in Text
  BY MessageFacts
<1> HIDE DEF c, d
<1>4. ASSUME NEW k \in 1..N PROVE Within(d.headers[k], c.headers[k])
  <2>1. CapOf(cap2, lowered2, k) <= CapOf(cap, lowered, k)
    OBVIOUS
  <2>2. /\ SafeCut(m.headers[k], CapOf(cap2, lowered2, k)).length
             <= SafeCut(m.headers[k], CapOf(cap, lowered, k)).length
        /\ SafeCut(m.headers[k], CapOf(cap2, lowered2, k)).pairs = m.headers[k].pairs
        /\ SafeCut(m.headers[k], CapOf(cap, lowered, k)).pairs = m.headers[k].pairs
    BY <1>1, <1>2, <1>3, <2>1, CutTwice, CutFacts
  <2> QED BY <1>1, <1>2, <2>2 DEF Within
<1>5. Within(d.body, c.body)
  BY <1>1, <1>2, <1>3 DEF Within
<1>6. MessageTokens(d) <= MessageTokens(c)
  BY <1>1, <1>2, <1>4, <1>5, TokensMonotone
<1> QED BY <1>6 DEF c, d

IsLongest(m, longest) ==
    /\ longest \in Nat
    /\ \A k \in 1..Len(m.headers) : m.headers[k].length <= longest
    /\ longest = 0 \/ \E k \in 1..Len(m.headers) : m.headers[k].length = longest

FittingCaps(m, longest, left) ==
    {c \in 0..longest : MessageTokens(CapHeaders(m, c, Len(m.headers))) <= left}

Enough(m, cap, left) ==
    {k \in 0..Len(m.headers) : MessageTokens(CapHeaders(m, cap, k)) <= left}

IsCap(m, cap, longest, left) ==
    /\ IsLongest(m, longest)
    /\ IsHighest(cap, FittingCaps(m, longest, left), 0, longest)
    /\ CutHeaders(m, left) = IF Enough(m, cap, left) = {} THEN CapHeaders(m, 0, Len(m.headers))
                             ELSE CapHeaders(m, cap, Min(Enough(m, cap, left)))

\* The largest cap at which all values fit, when each is cut to it.
LEMMA CutHeadersFacts ==
    ASSUME NEW m \in StateMessage, NEW left \in Int
    PROVE  \E longest, cap \in Nat : IsCap(m, cap, longest, left)
<1> DEFINE N == Len(m.headers)
           lengths == {m.headers[k].length : k \in 1..N}
           longest == Max({0} \cup lengths)
           fitting == FittingCaps(m, longest, left)
           cap == LargestFitting(0, longest, fitting)
<1>1. N \in Nat /\ \A k \in 1..N : m.headers[k].length \in Nat
  BY MessageFacts
<1>2. IsLongest(m, longest)
  <2> DEFINE f == [k \in 1..N |-> m.headers[k].length]
  <2>1. f \in [1..N -> Nat]
    BY <1>1
  <2> HIDE DEF f
  <2>2. PICK b \in Nat : \A k \in 1..N : f[k] <= b
    BY <1>1, <2>1, Bounded
  <2>3. \A k \in 1..N : f[k] = m.headers[k].length
    BY DEF f
  <2>4. /\ ({0} \cup lengths) \in SUBSET Nat /\ ({0} \cup lengths) # {}
        /\ \A l \in {0} \cup lengths : l <= b
    BY <1>1, <2>2, <2>3
  <2>5. longest \in {0} \cup lengths /\ \A l \in {0} \cup lengths : l <= longest
    BY <2>4, MaxFacts
  <2> HIDE DEF longest
  <2> QED BY <2>4, <2>5 DEF IsLongest
<1>3. longest \in Nat
  BY <1>2 DEF IsLongest
<1> HIDE DEF longest
<1>4. fitting \in SUBSET Nat
  BY <1>3 DEF FittingCaps
<1>5. ASSUME NEW n \in fitting, NEW k \in 0..n PROVE k \in fitting
  <2>1. n \in 0..longest /\ k \in 0..longest /\ k \in Nat /\ n \in Nat /\ k <= n
    BY <1>3, <1>5 DEF FittingCaps
  <2>2. \A j \in 1..N : CapOf(k, N, j) <= CapOf(n, N, j)
    BY <1>1, <2>1 DEF CapOf
  <2>3. MessageTokens(CapHeaders(m, k, N)) <= MessageTokens(CapHeaders(m, n, N))
    BY <1>1, <2>1, <2>2, CapMonotone
  <2>4. /\ MessageTokens(CapHeaders(m, k, N)) \in Nat
        /\ MessageTokens(CapHeaders(m, n, N)) \in Nat
    BY <1>1, <2>1, CapFacts, TokensType
  <2>5. MessageTokens(CapHeaders(m, n, N)) <= left
    BY DEF FittingCaps
  <2>6. MessageTokens(CapHeaders(m, k, N)) <= left
    BY <2>3, <2>4, <2>5
  <2> QED BY <2>1, <2>6 DEF FittingCaps
<1>6. CutHeaders(m, left) = IF Enough(m, cap, left) = {} THEN CapHeaders(m, 0, N)
                            ELSE CapHeaders(m, cap, Min(Enough(m, cap, left)))
  BY DEF CutHeaders, FittingCaps, Enough, longest
<1> HIDE DEF fitting
<1>7. IsHighest(cap, fitting, 0, longest)
  <2>1. cap = Highest(fitting, 0, longest)
    BY <1>3, <1>4, <1>5, SearchFindsHighest
  <2> QED BY <1>3, <1>4, <2>1, HighestFacts
<1>8. cap \in Nat
  BY <1>7 DEF IsHighest
<1> HIDE DEF cap
<1>9. IsCap(m, cap, longest, left)
  BY <1>2, <1>6, <1>7 DEF IsCap, fitting
<1> QED BY <1>3, <1>8, <1>9

\* The first of the longest header values.
LEMMA LongestHeaderFacts ==
    ASSUME NEW m \in StateMessage, Len(m.headers) > 0
    PROVE  LET K == LongestHeader(m.headers)
           IN  /\ K \in 1..Len(m.headers)
               /\ \A j \in 1..Len(m.headers) :
                    \/ m.headers[j].length < m.headers[K].length
                    \/ m.headers[j].length = m.headers[K].length /\ K <= j
<1> DEFINE N == Len(m.headers)
           P(k) == \A j \in DOMAIN m.headers :
                        \/ m.headers[j].length < m.headers[k].length
                        \/ m.headers[j].length = m.headers[k].length /\ k <= j
<1>1. /\ N \in Nat /\ N > 0 /\ DOMAIN m.headers = 1..N
      /\ \A k \in 1..N : m.headers[k].length \in Nat
  BY MessageFacts
<1> HIDE DEF N
<1>2. PICK longest \in Nat, cap \in Nat : IsCap(m, cap, longest, 0)
  BY CutHeadersFacts
<1> DEFINE S == {k \in 1..N : m.headers[k].length = longest}
<1>3. \A k \in 1..N : m.headers[k].length <= longest
  BY <1>2 DEF IsCap, IsLongest, N
<1>4. S # {}
  <2>1. CASE longest = 0
    <3>1. 1 \in 1..N
      BY <1>1
    <3>2. m.headers[1].length = 0
      BY <1>1, <1>3, <2>1, <3>1
    <3> QED BY <2>1, <3>1, <3>2
  <2>2. CASE longest # 0
    BY <1>2, <2>2 DEF IsCap, IsLongest, N
  <2> QED BY <2>1, <2>2
<1>5. S \in SUBSET Nat
  BY <1>1
<1>6. PICK k \in S : \A j \in S : k <= j
  <2> HIDE DEF S
  <2> QED BY <1>4, <1>5, LeastExists
<1>7. k \in DOMAIN m.headers /\ P(k)
  <2>1. k \in 1..N /\ m.headers[k].length = longest
    BY <1>6
  <2>2. ASSUME NEW j \in 1..N
        PROVE  \/ m.headers[j].length < m.headers[k].length
               \/ m.headers[j].length = m.headers[k].length /\ k <= j
    <3>1. m.headers[j].length \in Nat /\ m.headers[j].length <= longest
      BY <1>1, <1>3
    <3>2. CASE m.headers[j].length = longest
      BY <1>6, <2>1, <3>2
    <3>3. CASE m.headers[j].length # longest
      <4>1. m.headers[j].length < longest
        BY <3>1, <3>3
      <4> QED BY <2>1, <4>1
    <3> QED BY <3>2, <3>3
  <2> QED BY <1>1, <2>1, <2>2
<1> DEFINE K == CHOOSE l \in DOMAIN m.headers : P(l)
<1>8. LongestHeader(m.headers) = K
  BY DEF LongestHeader
<1> HIDE DEF P
<1>9. K \in DOMAIN m.headers /\ P(K)
  BY <1>7
<1> HIDE DEF K
<1> QED BY <1>1, <1>8, <1>9 DEF P, N

\* Of two caps the smaller one counts.
LEMMA CapTwice ==
    ASSUME NEW m \in StateMessage, NEW cap \in Nat, NEW lowered \in Nat,
           NEW cap2 \in Nat, NEW lowered2 \in Nat,
           \A k \in 1..Len(m.headers) : CapOf(cap2, lowered2, k) <= CapOf(cap, lowered, k)
    PROVE  CapHeaders(CapHeaders(m, cap, lowered), cap2, lowered2) = CapHeaders(m, cap2, lowered2)
<1> DEFINE N == Len(m.headers)
           d == CapHeaders(m, cap, lowered)
<1>1. /\ d \in StateMessage /\ d.body = m.body /\ Len(d.headers) = N
      /\ \A k \in 1..N : /\ CapOf(cap, lowered, k) \in Nat
                         /\ d.headers[k] = SafeCut(m.headers[k], CapOf(cap, lowered, k))
  BY CapFacts
<1>2. \A k \in 1..N : m.headers[k] \in Text
  BY MessageFacts
<1> HIDE DEF d
<1>3. ASSUME NEW k \in 1..Len(m.headers)
      PROVE  SafeCut(d.headers[k], CapOf(cap2, lowered2, k)) = SafeCut(m.headers[k], CapOf(cap2, lowered2, k))
  <2>1. CapOf(cap2, lowered2, k) \in Nat
    BY CapFacts
  <2>2. /\ CapOf(cap, lowered, k) \in Nat /\ m.headers[k] \in Text
        /\ d.headers[k] = SafeCut(m.headers[k], CapOf(cap, lowered, k))
        /\ CapOf(cap2, lowered2, k) <= CapOf(cap, lowered, k)
    BY <1>1, <1>2
  <2> QED BY <2>1, <2>2, CutTwice
<1>4. CapHeaders(d, cap2, lowered2) = CapHeaders(m, cap2, lowered2)
  BY <1>1, <1>3, CapIsSame
<1> QED BY <1>4 DEF d

\* Cutting the longest value by one unit first changes nothing, unless nothing more
\* need be cut.
LEMMA HeaderStep ==
    ASSUME NEW m \in StateMessage, NEW left \in Int, MessageTokens(m) > left,
           NEW K \in Nat, NEW q \in Nat, K \in 1..Len(m.headers),
           m.headers[K].length = q + 1,
           \A j \in 1..Len(m.headers) :
                \/ m.headers[j].length < m.headers[K].length
                \/ m.headers[j].length = m.headers[K].length /\ K <= j,
           NEW d, d = CapHeaders(m, q, K)
    PROVE  /\ MessageTokens(d) <= left => CutHeaders(m, left) = d
           /\ MessageTokens(d) > left => CutHeaders(d, left) = CutHeaders(m, left)
<1> DEFINE N == Len(m.headers)
           top == q + 1
<1>1. /\ N \in Nat /\ K <= N /\ K \in 0..N /\ N \in 0..N
      /\ \A k \in 1..N : m.headers[k] \in Text /\ m.headers[k].length \in Nat
  BY MessageFacts
<1>2. top \in Nat /\ q = top - 1 /\ q + 1 = top
  OBVIOUS
<1>3. /\ \A j \in 1..N : m.headers[j].length <= top
      /\ \A j \in 1..N : j < K => m.headers[j].length <= q
      /\ m.headers[K].length = top
  <2>1. m.headers[K].length = top
    OBVIOUS
  <2> HIDE DEF top
  <2>2. ASSUME NEW j \in 1..N
        PROVE  m.headers[j].length <= top /\ (j < K => m.headers[j].length <= q)
    <3>1. m.headers[j].length \in Nat /\ j \in Nat
      BY <1>1
    <3>2. CASE m.headers[j].length < m.headers[K].length
      <4>1. m.headers[j].length < top
        BY <2>1, <3>2
      <4> QED BY <1>2, <3>1, <4>1
    <3>3. CASE m.headers[j].length = m.headers[K].length /\ K <= j
      BY <1>2, <2>1, <3>1, <3>3
    <3> QED BY <3>2, <3>3
  <2> QED BY <2>1, <2>2
<1> HIDE DEF top
<1>4. /\ d \in StateMessage /\ d.body = m.body /\ Len(d.headers) = N
      /\ \A j \in 1..N : /\ CapOf(q, K, j) \in Nat
                         /\ d.headers[j] = SafeCut(m.headers[j], CapOf(q, K, j))
  BY CapFacts
<1>5. /\ d \in StateMessage /\ d.body = m.body /\ Len(d.headers) = N
      /\ \A j \in 1..N : /\ CapOf(q, K, j) \in Nat
                         /\ d.headers[j] = SafeCut(m.headers[j], CapOf(q, K, j))
  BY <1>4
<1>6. \A j \in 1..N : d.headers[j].length \in Nat
  BY <1>5, MessageFacts
<1>7. ASSUME NEW j \in 1..N
      PROVE  /\ d.headers[j].length <= top
             /\ j <= K => d.headers[j].length <= q
  <2>1. /\ m.headers[j] \in Text /\ m.headers[j].length \in Nat /\ m.headers[j].length <= top
        /\ CapOf(q, K, j) \in Nat
        /\ d.headers[j] = SafeCut(m.headers[j], CapOf(q, K, j))
    BY <1>1, <1>3, <1>5
  <2>2. d.headers[j].length <= CapOf(q, K, j) /\ d.headers[j].length <= m.headers[j].length
    BY <2>1, CutFacts
  <2>3. d.headers[j].length \in Nat
    BY <1>6
  <2>4. j <= K => CapOf(q, K, j) = q
    BY DEF CapOf
  <2> QED BY <1>2, <2>1, <2>2, <2>3, <2>4
<1>8. MessageTokens(d) \in Nat /\ MessageTokens(m) \in Nat
  BY <1>5, TokensType
<1>9. ASSUME NEW k \in 0..N, k < K PROVE CapHeaders(m, q, k) = m
  <2>1. \A j \in 1..N : m.headers[j].length <= CapOf(q, k, j)
    <3>1. ASSUME NEW j \in 1..N PROVE m.headers[j].length <= CapOf(q, k, j)
      <4>1. CASE j <= k
        <5>1. j < K
          BY <1>1, <1>9, <4>1
        <5> QED BY <1>3, <4>1, <5>1 DEF CapOf
      <4>2. CASE ~(j <= k)
        <5>1. CapOf(q, k, j) = top
          BY <1>2, <4>2 DEF CapOf
        <5> QED BY <1>3, <5>1
      <4> QED BY <4>1, <4>2
    <3> QED BY <3>1
  <2> QED BY <1>1, <1>2, <2>1, CapIsIdle
\* What is cut off d by a cap below the longest is what it cuts off m.
<1>10. ASSUME NEW c \in 0..q, NEW k \in 0..N, c < q \/ K <= k
       PROVE  CapHeaders(d, c, k) = CapHeaders(m, c, k)
  <2>1. c \in Nat /\ k \in Nat
    BY <1>1, <1>2
  <2>2. \A j \in 1..N : CapOf(c, k, j) <= CapOf(q, K, j)
    BY <1>1, <1>2, <1>10, <2>1 DEF CapOf
  <2> QED BY <1>1, <1>2, <1>4, <2>1, <2>2, CapTwice
<1>11. ASSUME NEW k \in 0..N, k < K PROVE CapHeaders(d, q, k) = d
  <2>1. ASSUME NEW j \in 1..N PROVE d.headers[j].length <= CapOf(q, k, j)
    <3>1. CASE j <= k
      <4>1. j <= K
        BY <1>1, <1>11, <3>1
      <4> QED BY <1>7, <3>1, <4>1 DEF CapOf
    <3>2. CASE ~(j <= k)
      <4>1. CapOf(q, k, j) = top
        BY <1>2, <3>2 DEF CapOf
      <4> QED BY <1>7, <4>1
    <3> QED BY <3>1, <3>2
  <2>2. k \in Nat
    BY <1>1
  <2>3. d \in StateMessage /\ \A j \in 1..Len(d.headers) : d.headers[j].length <= CapOf(q, k, j)
    BY <1>5, <2>1
  <2> QED BY <2>2, <2>3, CapIsIdle
<1>12. PICK longest \in Nat, cap \in Nat : IsCap(m, cap, longest, left)
  BY CutHeadersFacts
<1>13. longest = top
  <2>1. /\ \A k \in 1..N : m.headers[k].length <= longest
        /\ longest = 0 \/ \E k \in 1..N : m.headers[k].length = longest
    BY <1>12 DEF IsCap, IsLongest
  <2>2. top <= longest
    BY <1>1, <1>3, <2>1
  <2>3. longest <= top
    BY <1>2, <1>3, <2>1
  <2> QED BY <1>2, <2>2, <2>3
<1>14. /\ IsHighest(cap, FittingCaps(m, top, left), 0, top)
       /\ CutHeaders(m, left) = IF Enough(m, cap, left) = {} THEN CapHeaders(m, 0, N)
                                ELSE CapHeaders(m, cap, Min(Enough(m, cap, left)))
  BY <1>12, <1>13 DEF IsCap
<1>15. cap \in 0..q
  <2>1. cap = 0 \/ cap < top
    BY <1>14 DEF IsHighest
  <2> QED BY <1>2, <2>1
<1>16. ASSUME MessageTokens(d) <= left PROVE CutHeaders(m, left) = d
  <2>1. MessageTokens(CapHeaders(m, q, N)) <= MessageTokens(d)
    <3>1. \A j \in 1..N : CapOf(q, N, j) <= CapOf(q, K, j)
      BY <1>1, <1>2 DEF CapOf
    <3> QED BY <1>1, <1>2, <1>4, <3>1, CapMonotone
  <2>2. MessageTokens(CapHeaders(m, q, N)) \in Nat
    BY <1>1, <1>2, CapFacts, TokensType
  <2>3. q \in FittingCaps(m, top, left) /\ q < top
    BY <1>2, <1>8, <1>16, <2>1, <2>2 DEF FittingCaps
  <2>4. q <= cap
    BY <1>14, <2>3 DEF IsHighest
  <2>5. cap = q
    BY <1>2, <1>15, <2>4
  <2>6. K \in Enough(m, cap, left)
    BY <1>1, <1>4, <1>16, <2>5 DEF Enough
  <2>7. ASSUME NEW k \in Enough(m, cap, left) PROVE K <= k
    <3>1. k \in 0..N /\ MessageTokens(CapHeaders(m, q, k)) <= left
      BY <2>5 DEF Enough
    <3>2. ~(k < K)
      <4> SUFFICES ASSUME k < K PROVE FALSE
        OBVIOUS
      <4>1. MessageTokens(m) <= left
        BY <1>9, <3>1
      <4> QED BY <1>8, <4>1
    <3> QED BY <1>1, <3>1, <3>2
  <2>8. Enough(m, cap, left) \in SUBSET Nat
    BY <1>1 DEF Enough
  <2>9. /\ Min(Enough(m, cap, left)) \in Enough(m, cap, left)
        /\ \A k \in Enough(m, cap, left) : Min(Enough(m, cap, left)) <= k
    BY <2>6, <2>8, MinFacts
  <2>10. Min(Enough(m, cap, left)) = K
    BY <1>1, <2>6, <2>7, <2>8, <2>9
  <2> QED BY <1>4, <1>14, <2>5, <2>6, <2>10
<1>17. ASSUME MessageTokens(d) > left PROVE CutHeaders(d, left) = CutHeaders(m, left)
  <2>1. PICK longest2 \in Nat, cap2 \in Nat : IsCap(d, cap2, longest2, left)
    BY <1>5, CutHeadersFacts
  <2>2. /\ \A k \in 1..N : d.headers[k].length <= longest2
        /\ longest2 = 0 \/ \E k \in 1..N : d.headers[k].length = longest2
        /\ IsHighest(cap2, FittingCaps(d, longest2, left), 0, longest2)
        /\ CutHeaders(d, left) = IF Enough(d, cap2, left) = {} THEN CapHeaders(d, 0, N)
                                 ELSE CapHeaders(d, cap2, Min(Enough(d, cap2, left)))
    BY <1>5, <2>1 DEF IsCap, IsLongest
  <2>3. longest2 <= top
    BY <1>2, <1>7, <2>2
  <2>4. ~(MessageTokens(d) <= left) /\ ~(MessageTokens(m) <= left)
    BY <1>8, <1>17
  <2>5. ASSUME NEW c \in Nat, longest2 <= c, c < top
        PROVE  ~(MessageTokens(CapHeaders(m, c, N)) <= left)
    <3>1. \A j \in 1..N : d.headers[j].length <= CapOf(c, N, j)
      BY <1>1, <1>6, <2>2, <2>5 DEF CapOf
    <3>2. CapHeaders(d, c, N) = d
      BY <1>1, <1>5, <3>1, CapIsIdle
    <3>3. c \in 0..q
      BY <1>2, <2>5
    <3>4. CapHeaders(m, c, N) = d
      BY <1>1, <1>10, <3>2, <3>3
    <3> QED BY <2>4, <3>4
  <2>6. ASSUME NEW c \in FittingCaps(m, top, left), c < top
        PROVE  c \in FittingCaps(d, longest2, left) /\ c < longest2
    <3>1. c \in 0..q /\ c \in Nat /\ MessageTokens(CapHeaders(m, c, N)) <= left
      BY <1>2, <2>6 DEF FittingCaps
    <3>2. c < longest2
      BY <2>5, <2>6, <3>1
    <3>3. CapHeaders(d, c, N) = CapHeaders(m, c, N)
      BY <1>1, <1>10, <3>1
    <3>4. c \in 0..longest2
      BY <3>1, <3>2
    <3> QED BY <1>5, <3>1, <3>2, <3>3, <3>4 DEF FittingCaps
  <2>7. ASSUME NEW c \in FittingCaps(d, longest2, left), c < longest2
        PROVE  c \in FittingCaps(m, top, left) /\ c < top
    <3>1. c \in 0..longest2 /\ MessageTokens(CapHeaders(d, c, N)) <= left
      BY <1>5 DEF FittingCaps
    <3>2. c \in 0..q /\ c < top /\ c \in 0..top
      BY <1>2, <2>3, <2>7, <3>1
    <3>3. CapHeaders(d, c, N) = CapHeaders(m, c, N)
      BY <1>1, <1>10, <3>2
    <3> QED BY <3>1, <3>2, <3>3 DEF FittingCaps
  <2>8. cap2 = cap
    <3>1. IsHighest(cap2, FittingCaps(m, top, left), 0, top)
      BY <1>2, <2>2, <2>3, <2>6, <2>7 DEF IsHighest
    <3> QED BY <1>14, <3>1 DEF IsHighest
  <2>9. ASSUME NEW k \in 0..N
        PROVE  MessageTokens(CapHeaders(d, cap, k)) <= left
                 <=> MessageTokens(CapHeaders(m, cap, k)) <= left
    <3>1. CASE cap < q \/ K <= k
      <4>1. CapHeaders(d, cap, k) = CapHeaders(m, cap, k)
        BY <1>10, <1>15, <3>1
      <4> QED BY <4>1
    <3>2. CASE ~(cap < q \/ K <= k)
      <4>1. cap = q /\ k < K
        BY <1>1, <1>2, <1>15, <3>2
      <4>2. CapHeaders(d, cap, k) = d /\ CapHeaders(m, cap, k) = m
        BY <1>9, <1>11, <4>1
      <4> QED BY <2>4, <4>2
    <3> QED BY <3>1, <3>2
  <2>10. Enough(d, cap, left) = Enough(m, cap, left)
    BY <1>5, <2>9 DEF Enough
  <2>11. CASE Enough(m, cap, left) = {}
    <3>1. 0 \in 0..q
      BY <1>2
    <3>2. CapHeaders(d, 0, N) = CapHeaders(m, 0, N)
      BY <1>1, <1>10, <3>1
    <3> QED BY <1>14, <2>2, <2>8, <2>10, <2>11, <3>2
  <2>12. CASE Enough(m, cap, left) # {}
    <3> DEFINE k == Min(Enough(m, cap, left))
    <3>1. Enough(m, cap, left) \in SUBSET Nat
      BY <1>1 DEF Enough
    <3>2. k \in Enough(m, cap, left)
      BY <2>12, <3>1, MinFacts
    <3>3. k \in 0..N /\ MessageTokens(CapHeaders(m, cap, k)) <= left
      BY <3>2 DEF Enough
    <3> HIDE DEF k
    <3>4. cap < q \/ K <= k
      <4> SUFFICES ASSUME ~(cap < q \/ K <= k) PROVE FALSE
        OBVIOUS
      <4>1. cap = q /\ k < K
        BY <1>1, <1>2, <1>15, <3>3
      <4>2. CapHeaders(m, cap, k) = m
        BY <1>9, <3>3, <4>1
      <4> QED BY <2>4, <3>3, <4>2
    <3>5. CapHeaders(d, cap, k) = CapHeaders(m, cap, k)
      BY <1>10, <1>15, <3>3, <3>4
    <3> QED BY <1>14, <2>2, <2>8, <2>10, <2>12, <3>5 DEF k
  <2> QED BY <2>11, <2>12
<1> QED BY <1>16, <1>17

-----------------------------------------------------------------------------
(* The state as a whole.                                                   *)

States == {c \in Seq(StateMessage) : Len(c) > 0}

WithoutBodies(c, n) ==
    [i \in 1..Len(c) |-> IF i > Len(c) - n THEN WithoutBody(c[i]) ELSE c[i]]

NewestOnly(c, n) == [i \in 1..Len(c) - n |-> WithoutBodies(c, Len(c) - 1)[i]]

Strips(c, room) == {n \in 0..Len(c) - 1 : StateTokens(WithoutBodies(c, n)) <= room}

Drops(c, room) == {n \in 0..Len(c) - 1 : StateTokens(NewestOnly(c, n)) <= room}

OneMessage(m, left) ==
    IF MessageTokens(CutBody(m, left)) <= left THEN <<CutBody(m, left)>>
    ELSE <<CutHeaders(WithoutBody(CutBody(m, left)), left)>>

Truncated(c, room) ==
    IF Strips(c, room) # {} THEN WithoutBodies(c, Min(Strips(c, room)))
    ELSE IF Drops(c, room) # {} THEN NewestOnly(c, Min(Drops(c, room)))
    ELSE OneMessage(c[1], room - 2)

\* TruncateState by the names of its parts.
LEMMA TruncateParts ==
    ASSUME NEW c, NEW reserved
    PROVE  TruncateState(c, reserved) = Truncated(c, JevLimit - reserved)
<1>1. ArrayTokens(0, 1) = 2
  BY DEF ArrayTokens
<1> QED BY <1>1 DEF TruncateState, Truncated, Strips, Drops, NewestOnly, WithoutBodies, OneMessage

Size(m) ==
    1 + m.body.length + Total([k \in DOMAIN m.headers |-> m.headers[k].length])

\* Cutting some text of a message makes it smaller.
LEMMA SizeFacts ==
    ASSUME NEW m \in StateMessage, NEW d \in StateMessage, Len(d.headers) = Len(m.headers),
           \A k \in 1..Len(m.headers) : d.headers[k].length <= m.headers[k].length,
           d.body.length <= m.body.length
    PROVE  /\ Size(m) \in Nat /\ Size(m) >= 1 /\ Size(d) \in Nat /\ Size(d) <= Size(m)
           /\ d.body.length < m.body.length => Size(d) < Size(m)
           /\ (\E k \in 1..Len(m.headers) : d.headers[k].length < m.headers[k].length)
                => Size(d) < Size(m)
<1> DEFINE N == Len(m.headers)
           a == [k \in 1..N |-> m.headers[k].length]
           b == [k \in 1..N |-> d.headers[k].length]
<1>1. /\ N \in Nat /\ DOMAIN m.headers = 1..N /\ m.body.length \in Nat
      /\ \A k \in 1..N : m.headers[k].length \in Nat
  BY MessageFacts
<1>2. /\ DOMAIN d.headers = 1..N /\ d.body.length \in Nat
      /\ \A k \in 1..N : d.headers[k].length \in Nat
  BY MessageFacts
<1>3. a \in [1..N -> Nat] /\ b \in [1..N -> Nat]
  BY <1>1, <1>2
<1>4. \A k \in 1..N : a[k] = m.headers[k].length /\ b[k] = d.headers[k].length
  OBVIOUS
<1>5. Size(m) = 1 + m.body.length + Total(a) /\ Size(d) = 1 + d.body.length + Total(b)
  BY <1>1, <1>2 DEF Size
<1> HIDE DEF a, b
<1>6. /\ Total(a) \in Nat /\ Total(b) \in Nat /\ Total(b) <= Total(a)
      /\ (\E k \in 1..N : b[k] < a[k]) => Total(b) < Total(a)
  <2>1. \A k \in 1..N : b[k] <= a[k]
    BY <1>4
  <2> QED BY <1>1, <1>3, <2>1, TotalMonotone
<1>7. (\E k \in 1..N : d.headers[k].length < m.headers[k].length) => Total(b) < Total(a)
  BY <1>4, <1>6
<1> DEFINE x == m.body.length
           y == d.body.length
<1>8. x \in Nat /\ y \in Nat /\ y <= x /\ Size(m) = 1 + x + Total(a) /\ Size(d) = 1 + y + Total(b)
  BY <1>1, <1>2, <1>5
<1> HIDE DEF x, y
<1>9. /\ Size(m) \in Nat /\ Size(m) >= 1 /\ Size(d) \in Nat /\ Size(d) <= Size(m)
      /\ y < x => Size(d) < Size(m)
      /\ Total(b) < Total(a) => Size(d) < Size(m)
  BY <1>6, <1>8
<1> QED BY <1>7, <1>9 DEF x, y

\* What a state is made of.
LEMMA StateFacts ==
    ASSUME NEW c \in States
    PROVE  /\ c \in Seq(StateMessage) /\ Len(c) \in Nat /\ Len(c) >= 1
           /\ DOMAIN c = 1..Len(c) /\ c \in [1..Len(c) -> StateMessage]
           /\ c[1] \in StateMessage /\ \A i \in 1..Len(c) : c[i] \in StateMessage
           /\ StateTokens(c) \in Nat
           /\ Length(c) \in Nat /\ Length(c) >= 1
<1> DEFINE N == Len(c)
           t == [i \in 1..N |-> MessageTokens(c[i])]
           z == [i \in 1..N |-> Size(c[i])]
           o == [i \in 1..N |-> 0]
<1>1. /\ c \in Seq(StateMessage) /\ N \in Nat /\ N >= 1
      /\ DOMAIN c = 1..N /\ c \in [1..N -> StateMessage]
  BY DEF States
<1>2. \A i \in 1..N : c[i] \in StateMessage
  BY <1>1
<1>3. \A i \in 1..N : MessageTokens(c[i]) \in Nat /\ Size(c[i]) \in Nat /\ Size(c[i]) >= 1
  <2>1. ASSUME NEW i \in 1..N PROVE MessageTokens(c[i]) \in Nat
    BY <1>2, TokensType
  <2>2. ASSUME NEW m \in StateMessage PROVE Size(m) \in Nat /\ Size(m) >= 1
    <3>1. /\ Len(m.headers) = Len(m.headers) /\ m.body.length <= m.body.length
          /\ \A k \in 1..Len(m.headers) : m.headers[k].length <= m.headers[k].length
      BY MessageFacts
    <3> QED BY <3>1, SizeFacts
  <2> QED BY <1>2, <2>1, <2>2
<1>4. t \in [1..N -> Nat] /\ z \in [1..N -> Nat] /\ o \in [1..N -> Nat]
  BY <1>3
<1>5. StateTokens(c) = ArrayTokens(Total(t), N) /\ Length(c) = Total(z)
  BY <1>1 DEF StateTokens, Length, Size
<1>6. 1 \in 1..N /\ o[1] < z[1] /\ \A i \in 1..N : o[i] <= z[i]
  BY <1>1, <1>3
<1> HIDE DEF t, z, o
<1>7. Total(t) \in Nat
  BY <1>1, <1>4, TotalType
<1>8. Total(z) \in Nat /\ Total(o) \in Nat /\ Total(o) < Total(z)
  BY <1>1, <1>4, <1>6, TotalMonotone
<1>9. StateTokens(c) \in Nat
  BY <1>1, <1>5, <1>7 DEF ArrayTokens
<1>10. Length(c) \in Nat /\ Length(c) >= 1
  BY <1>5, <1>8
<1>11. c[1] \in StateMessage
  BY <1>2, <1>6
<1> QED BY <1>1, <1>2, <1>9, <1>10, <1>11

\* A function on 1..N to messages is a state.
LEMMA IsState ==
    ASSUME NEW N \in Nat, N >= 1, NEW c \in [1..N -> StateMessage]
    PROVE  c \in States /\ Len(c) = N
<1>1. c \in Seq(StateMessage) /\ Len(c) = N
  BY IsSequence
<1> QED BY <1>1 DEF States

\* The state without its last n bodies.
LEMMA StripsFacts ==
    ASSUME NEW c \in States, NEW n \in 0..Len(c) - 1
    PROVE  /\ WithoutBodies(c, n) \in States /\ Len(WithoutBodies(c, n)) = Len(c)
           /\ \A i \in 1..Len(c) : WithoutBodies(c, n)[i] =
                 IF i > Len(c) - n THEN WithoutBody(c[i]) ELSE c[i]
           /\ WithoutBodies(c, n) \in [1..Len(c) -> StateMessage]
<1> DEFINE w == WithoutBodies(c, n)
<1>1. Len(c) \in Nat /\ Len(c) >= 1 /\ \A i \in 1..Len(c) : c[i] \in StateMessage
  BY StateFacts
<1>2. ASSUME NEW m \in StateMessage PROVE WithoutBody(m) \in StateMessage
  BY BodyCutFacts DEF WithoutBody
<1>3. w \in [1..Len(c) -> StateMessage]
  BY <1>1, <1>2 DEF WithoutBodies
<1>4. \A i \in 1..Len(c) : w[i] = IF i > Len(c) - n THEN WithoutBody(c[i]) ELSE c[i]
  BY DEF WithoutBodies
<1> HIDE DEF w
<1>5. w \in States /\ Len(w) = Len(c)
  BY <1>1, <1>3, IsState
<1> QED BY <1>3, <1>4, <1>5 DEF w

\* The state without its last n messages.
LEMMA DropsFacts ==
    ASSUME NEW c \in States, NEW n \in 0..Len(c) - 1
    PROVE  /\ NewestOnly(c, n) \in States /\ Len(NewestOnly(c, n)) = Len(c) - n
           /\ \A i \in 1..Len(c) - n : NewestOnly(c, n)[i] = WithoutBodies(c, Len(c) - 1)[i]
           /\ NewestOnly(c, n) \in [1..Len(c) - n -> StateMessage]
<1> DEFINE w == NewestOnly(c, n)
           M == Len(c) - n
           v == WithoutBodies(c, Len(c) - 1)
<1>1. /\ Len(c) \in Nat /\ Len(c) >= 1 /\ Len(c) - 1 \in 0..Len(c) - 1
      /\ M \in Nat /\ M >= 1 /\ \A i \in 1..M : i \in 1..Len(c)
  BY StateFacts
<1>2. v \in [1..Len(c) -> StateMessage]
  BY <1>1, StripsFacts
<1> HIDE DEF v
<1>3. w \in [1..M -> StateMessage] /\ \A i \in 1..M : w[i] = v[i]
  BY <1>1, <1>2 DEF NewestOnly, v
<1> HIDE DEF w
<1>4. w \in States /\ Len(w) = M
  BY <1>1, <1>3, IsState
<1> QED BY <1>3, <1>4 DEF w, v

\* A state that fits is left as it is.
LEMMA FittingIsKept ==
    ASSUME NEW c \in States, NEW room \in Int, StateTokens(c) <= room
    PROVE  Truncated(c, room) = c
<1>1. /\ Len(c) \in Nat /\ Len(c) >= 1 /\ 0 \in 0..Len(c) - 1
      /\ c \in [1..Len(c) -> StateMessage]
  BY StateFacts
<1>2. WithoutBodies(c, 0) = c
  <2>1. WithoutBodies(c, 0) \in [1..Len(c) -> StateMessage]
    BY <1>1, StripsFacts
  <2>2. \A i \in 1..Len(c) : WithoutBodies(c, 0)[i] = c[i]
    BY <1>1 DEF WithoutBodies
  <2> QED BY <1>1, <2>1, <2>2
<1>3. 0 \in Strips(c, room)
  BY <1>1, <1>2 DEF Strips
<1>4. Strips(c, room) \in SUBSET Nat
  BY <1>1 DEF Strips
<1>5. Min(Strips(c, room)) \in Strips(c, room) /\ Min(Strips(c, room)) <= 0
  BY <1>3, <1>4, MinFacts
<1>6. Min(Strips(c, room)) = 0
  BY <1>4, <1>5
<1> QED BY <1>2, <1>3, <1>6 DEF Truncated

\* The one message of a state that does not fit.
LEMMA AloneFacts ==
    ASSUME NEW m \in StateMessage
    PROVE  /\ <<m>> \in States /\ Len(<<m>>) = 1 /\ <<m>>[1] = m
           /\ StateTokens(<<m>>) = MessageTokens(m) + 2
           /\ Length(<<m>>) = Size(m)
<1> DEFINE c == <<m>>
           t == [i \in 1..1 |-> MessageTokens(m)]
           z == [i \in 1..1 |-> Size(m)]
<1>1. c \in States /\ Len(c) = 1 /\ c[1] = m /\ DOMAIN c = 1..1
  BY DEF States
<1>2. MessageTokens(m) \in Nat
  BY TokensType
<1>3. Size(m) \in Nat
  <2>1. /\ Len(m.headers) = Len(m.headers) /\ m.body.length <= m.body.length
        /\ \A k \in 1..Len(m.headers) : m.headers[k].length <= m.headers[k].length
    BY MessageFacts
  <2> QED BY <2>1, SizeFacts
<1>4. t \in [1..1 -> Nat] /\ z \in [1..1 -> Nat] /\ t[1] = MessageTokens(m) /\ z[1] = Size(m)
  BY <1>2, <1>3
<1>5. t = [i \in DOMAIN c |-> MessageTokens(c[i])] /\ z = [i \in DOMAIN c |-> Size(c[i])]
  BY <1>1
<1>6. StateTokens(c) = ArrayTokens(Total(t), 1) /\ Length(c) = Total(z)
  BY <1>1, <1>5 DEF StateTokens, Length, Size
<1> HIDE DEF t, z
<1>7. Total(t) = MessageTokens(m) /\ Total(z) = Size(m)
  BY <1>4, TotalOfOne
<1>8. ArrayTokens(Total(t), 1) = MessageTokens(m) + 2
  BY <1>2, <1>7 DEF ArrayTokens
<1> QED BY <1>1, <1>6, <1>7, <1>8

\* A single message that does not fit is cut itself.
LEMMA AloneIsCut ==
    ASSUME NEW m \in StateMessage, NEW room \in Int, MessageTokens(m) > room - 2
    PROVE  Truncated(<<m>>, room) = OneMessage(m, room - 2)
<1> DEFINE c == <<m>>
<1>1. c \in States /\ Len(c) = 1 /\ c[1] = m /\ StateTokens(c) = MessageTokens(m) + 2
  BY AloneFacts
<1>2. MessageTokens(m) \in Nat
  BY TokensType
<1>3. ~(StateTokens(c) <= room)
  BY <1>1, <1>2
<1> HIDE DEF c
<1>4. 0..Len(c) - 1 = {0} /\ c \in [1..1 -> StateMessage] /\ 0 \in 0..Len(c) - 1
  BY <1>1, StateFacts
<1>5. WithoutBodies(c, 0) = c
  <2>1. WithoutBodies(c, 0) \in [1..1 -> StateMessage]
    BY <1>1, <1>4, StripsFacts
  <2>2. \A i \in 1..1 : WithoutBodies(c, 0)[i] = c[i]
    BY <1>1 DEF WithoutBodies
  <2> QED BY <1>4, <2>1, <2>2
<1>6. NewestOnly(c, 0) = c
  <2>1. NewestOnly(c, 0) \in [1..1 -> StateMessage]
    <3>1. NewestOnly(c, 0) \in [1..Len(c) - 0 -> StateMessage]
      BY <1>1, <1>4, DropsFacts
    <3>2. Len(c) - 0 = 1
      BY <1>1
    <3> QED BY <3>1, <3>2
  <2>2. \A i \in 1..1 : NewestOnly(c, 0)[i] = c[i]
    BY <1>1, <1>5 DEF NewestOnly
  <2> QED BY <1>4, <2>1, <2>2
<1>7. Strips(c, room) = {} /\ Drops(c, room) = {}
  BY <1>3, <1>4, <1>5, <1>6 DEF Strips, Drops
<1>8. Truncated(c, room) = OneMessage(m, room - 2)
  BY <1>1, <1>7 DEF Truncated
<1> QED BY <1>8 DEF c

LEMMA NoBodyFacts ==
    ASSUME NEW m \in StateMessage
    PROVE  /\ WithoutBody(m) \in StateMessage /\ WithoutBody(m).headers = m.headers
           /\ WithoutBody(m).body.length = 0
           /\ WithoutBody(WithoutBody(m)) = WithoutBody(m)
           /\ m.body.length = 0 => WithoutBody(m) = m
<1>1. m.body \in Text /\ m.body.length \in Nat
  BY MessageFacts
<1>2. /\ WithoutBody(m) \in StateMessage /\ WithoutBody(m).headers = m.headers
      /\ WithoutBody(m).body = SafeCut(m.body, 0)
      /\ 0 >= m.body.length => WithoutBody(m) = m
  BY BodyCutFacts DEF WithoutBody
<1>3. SafeCut(m.body, 0).length <= 0 /\ SafeCut(m.body, 0) \in Text
  BY <1>1, CutFacts
<1>4. SafeCut(m.body, 0).length = 0
  BY <1>3 DEF Text
<1>5. WithBodyCut(WithBodyCut(m, 0), 0) = WithBodyCut(m, 0)
  BY BodyCutTwice
<1> QED BY <1>1, <1>2, <1>4, <1>5 DEF WithoutBody

\* Taking the oldest body there is changes nothing of what is left in the end.
LEMMA BodiesStep ==
    ASSUME NEW c \in States, NEW room \in Int, ~(StateTokens(c) <= room),
           NEW i \in Nat, 2 <= i, i <= Len(c), c[i].body.length > 0,
           \A j \in 1..Len(c) : j > i => c[j].body.length = 0,
           NEW d \in [1..Len(c) -> StateMessage], d[i] = WithoutBody(c[i]),
           \A j \in 1..Len(c) : j # i => d[j] = c[j]
    PROVE  d \in States /\ Truncated(d, room) = Truncated(c, room) /\ Length(d) < Length(c)
<1> DEFINE N == Len(c)
           s == N - i + 1
<1>1. /\ N \in Nat /\ N >= 1 /\ c \in [1..N -> StateMessage] /\ DOMAIN c = 1..N
      /\ \A j \in 1..N : c[j] \in StateMessage
      /\ i \in 1..N /\ 1 \in 1..N /\ 1 # i
  BY StateFacts
<1>2. s \in Nat /\ s >= 1 /\ s <= N - 1 /\ N - s + 1 = i
  BY <1>1
<1>3. d \in States /\ Len(d) = N /\ \A j \in 1..N : d[j] \in StateMessage
  BY <1>1, IsState
<1>4. ASSUME NEW j \in 1..N PROVE WithoutBody(d[j]) = WithoutBody(c[j])
  BY <1>1, NoBodyFacts
<1>5. ASSUME NEW j \in 1..N, j >= i PROVE WithoutBody(d[j]) = d[j] /\ d[j] = WithoutBody(c[j])
  <2>1. CASE j = i
    BY <1>1, <2>1, NoBodyFacts
  <2>2. CASE j # i
    <3>1. j > i
      BY <1>5, <2>2
    <3>2. d[j] = c[j] /\ c[j].body.length = 0 /\ c[j] \in StateMessage
      BY <1>1, <2>2, <3>1
    <3> QED BY <3>2, NoBodyFacts
  <2> QED BY <2>1, <2>2
<1> HIDE DEF s
<1>6. ASSUME NEW n \in 0..N - 1
      PROVE  /\ WithoutBodies(c, n) \in [1..N -> StateMessage]
             /\ WithoutBodies(d, n) \in [1..N -> StateMessage]
             /\ \A j \in 1..N : WithoutBodies(c, n)[j] =
                                  IF j > N - n THEN WithoutBody(c[j]) ELSE c[j]
             /\ \A j \in 1..N : WithoutBodies(d, n)[j] =
                                  IF j > N - n THEN WithoutBody(d[j]) ELSE d[j]
  <2>1. /\ WithoutBodies(c, n) \in [1..N -> StateMessage]
        /\ \A j \in 1..N : WithoutBodies(c, n)[j] =
                                  IF j > N - n THEN WithoutBody(c[j]) ELSE c[j]
    BY StripsFacts
  <2>2. n \in 0..Len(d) - 1
    BY <1>3
  <2>3. /\ WithoutBodies(d, n) \in [1..Len(d) -> StateMessage]
        /\ \A j \in 1..Len(d) : WithoutBodies(d, n)[j] =
                                  IF j > Len(d) - n THEN WithoutBody(d[j]) ELSE d[j]
    BY <1>3, <2>2, StripsFacts
  <2> QED BY <1>3, <2>1, <2>3
<1>7. ASSUME NEW n \in 0..N - 1, n < s PROVE WithoutBodies(c, n) = c
  <2>1. ASSUME NEW j \in 1..N PROVE WithoutBodies(c, n)[j] = c[j]
    <3>1. CASE j > N - n
      <4>1. j > i
        BY <1>1, <1>2, <1>7, <3>1
      <4>2. c[j].body.length = 0 /\ c[j] \in StateMessage
        BY <1>1, <4>1
      <4> QED BY <1>6, <3>1, <4>2, NoBodyFacts
    <3>2. CASE ~(j > N - n)
      BY <1>6, <3>2
    <3> QED BY <3>1, <3>2
  <2>2. WithoutBodies(c, n) \in [1..N -> StateMessage] /\ c \in [1..N -> StateMessage]
    BY <1>1, <1>6
  <2> QED BY <2>1, <2>2
<1>8. ASSUME NEW n \in 0..N - 1, n <= s PROVE WithoutBodies(d, n) = d
  <2>1. ASSUME NEW j \in 1..N PROVE WithoutBodies(d, n)[j] = d[j]
    <3>1. CASE j > N - n
      <4>1. j >= i
        BY <1>1, <1>2, <1>8, <3>1
      <4> QED BY <1>5, <1>6, <3>1, <4>1
    <3>2. CASE ~(j > N - n)
      BY <1>6, <3>2
    <3> QED BY <3>1, <3>2
  <2> QED BY <1>6, <2>1
<1>9. ASSUME NEW n \in 0..N - 1, n >= s PROVE WithoutBodies(c, n) = WithoutBodies(d, n)
  <2>1. ASSUME NEW j \in 1..N PROVE WithoutBodies(c, n)[j] = WithoutBodies(d, n)[j]
    <3>1. CASE j > N - n
      BY <1>4, <1>6, <3>1
    <3>2. CASE ~(j > N - n)
      <4>1. j # i
        BY <1>1, <1>2, <1>9, <3>2
      <4> QED BY <1>6, <3>2, <4>1
    <3> QED BY <3>1, <3>2
  <2> QED BY <1>6, <2>1
<1>10. /\ s \in 0..N - 1 /\ WithoutBodies(c, s) = d
       /\ N - 1 \in 0..N - 1 /\ N - 1 >= s
  <2>1. s \in 0..N - 1 /\ N - 1 \in 0..N - 1 /\ N - 1 >= s /\ s >= s /\ s <= s
    BY <1>1, <1>2
  <2> QED BY <1>8, <1>9, <2>1
<1>11. Strips(c, room) \in SUBSET Nat /\ Strips(d, room) \in SUBSET Nat
  BY <1>1, <1>3 DEF Strips
<1>12. Truncated(d, room) = Truncated(c, room)
  <2>1. CASE StateTokens(d) <= room
    <3>1. Truncated(d, room) = d
      BY <1>3, <2>1, FittingIsKept
    <3>2. s \in Strips(c, room)
      BY <1>10, <2>1 DEF Strips
    <3>3. ASSUME NEW n \in Strips(c, room) PROVE ~(n < s)
      <4>1. n \in 0..N - 1 /\ StateTokens(WithoutBodies(c, n)) <= room
        BY DEF Strips
      <4> QED BY <1>7, <4>1
    <3>4. Min(Strips(c, room)) \in Strips(c, room) /\ Min(Strips(c, room)) <= s
      BY <1>11, <3>2, MinFacts
    <3>5. Min(Strips(c, room)) = s
      BY <1>2, <1>11, <3>3, <3>4
    <3> QED BY <1>10, <3>1, <3>2, <3>5 DEF Truncated
  <2>2. CASE ~(StateTokens(d) <= room)
    <3>1. ASSUME NEW n \in Strips(c, room) PROVE n >= s /\ n \in Strips(d, room)
      <4>1. n \in 0..N - 1 /\ StateTokens(WithoutBodies(c, n)) <= room
        BY DEF Strips
      <4>2. ~(n < s)
        BY <1>7, <4>1
      <4>3. n >= s
        BY <1>1, <1>2, <4>1, <4>2
      <4> QED BY <1>3, <1>9, <4>1, <4>3 DEF Strips
    <3>2. ASSUME NEW n \in Strips(d, room) PROVE n \in Strips(c, room)
      <4>1. n \in 0..N - 1 /\ StateTokens(WithoutBodies(d, n)) <= room
        BY <1>3 DEF Strips
      <4>2. ~(n <= s)
        BY <1>8, <2>2, <4>1
      <4>3. n >= s
        BY <1>1, <1>2, <4>1, <4>2
      <4> QED BY <1>9, <4>1, <4>3 DEF Strips
    <3>3. Strips(c, room) = Strips(d, room)
      BY <3>1, <3>2
    <3>4. CASE Strips(c, room) # {}
      <4>1. Min(Strips(c, room)) \in Strips(c, room)
        BY <1>11, <3>4, MinFacts
      <4>2. Min(Strips(c, room)) \in 0..N - 1 /\ Min(Strips(c, room)) >= s
        BY <3>1, <4>1 DEF Strips
      <4>3. WithoutBodies(c, Min(Strips(c, room))) = WithoutBodies(d, Min(Strips(c, room)))
        BY <1>9, <4>2
      <4> QED BY <3>3, <3>4, <4>3 DEF Truncated
    <3>5. CASE Strips(c, room) = {}
      <4>1. WithoutBodies(c, N - 1) = WithoutBodies(d, N - 1)
        BY <1>9, <1>10
      <4>2. \A n \in 0..N - 1 : NewestOnly(c, n) = NewestOnly(d, n)
        BY <1>3, <4>1 DEF NewestOnly
      <4>3. Drops(c, room) = Drops(d, room)
        BY <1>3, <4>2 DEF Drops
      <4>4. Drops(c, room) \in SUBSET Nat
        BY <1>1 DEF Drops
      <4>5. CASE Drops(c, room) # {}
        <5>1. Min(Drops(c, room)) \in 0..N - 1
          <6>1. Min(Drops(c, room)) \in Drops(c, room)
            BY <4>4, <4>5, MinFacts
          <6> QED BY <6>1 DEF Drops
        <5>2. NewestOnly(c, Min(Drops(c, room))) = NewestOnly(d, Min(Drops(c, room)))
          BY <4>2, <5>1
        <5> QED BY <3>3, <3>5, <4>3, <4>5, <5>2 DEF Truncated
      <4>6. CASE Drops(c, room) = {}
        <5>1. c[1] = d[1]
          BY <1>1
        <5> QED BY <3>3, <3>5, <4>3, <4>6, <5>1 DEF Truncated
      <4> QED BY <4>5, <4>6
    <3> QED BY <3>4, <3>5
  <2> QED BY <2>1, <2>2
<1>13. Length(d) < Length(c)
  <2> DEFINE a == [j \in 1..N |-> Size(c[j])]
             b == [j \in 1..N |-> Size(d[j])]
  <2>1. Length(c) = Total(a) /\ Length(d) = Total(b)
    <3>1. DOMAIN d = 1..N
      OBVIOUS
    <3> QED BY <1>1, <3>1 DEF Length, Size
  <2>2. ASSUME NEW m \in StateMessage
        PROVE  /\ Size(m) \in Nat /\ Size(WithoutBody(m)) \in Nat /\ Size(WithoutBody(m)) <= Size(m)
               /\ m.body.length > 0 => Size(WithoutBody(m)) < Size(m)
    <3> DEFINE e == WithoutBody(m)
    <3>1. /\ e \in StateMessage /\ e.headers = m.headers /\ e.body.length = 0
          /\ m.body.length \in Nat /\ \A k \in 1..Len(m.headers) : m.headers[k].length \in Nat
      BY NoBodyFacts, MessageFacts
    <3> HIDE DEF e
    <3>2. /\ Len(e.headers) = Len(m.headers) /\ e.body.length <= m.body.length
          /\ \A k \in 1..Len(m.headers) : e.headers[k].length <= m.headers[k].length
      BY <3>1
    <3>3. /\ Size(m) \in Nat /\ Size(e) \in Nat /\ Size(e) <= Size(m)
          /\ e.body.length < m.body.length => Size(e) < Size(m)
      BY <3>1, <3>2, SizeFacts
    <3>4. m.body.length > 0 => e.body.length < m.body.length
      BY <3>1
    <3> QED BY <3>3, <3>4 DEF e
  <2>3. /\ a \in [1..N -> Nat] /\ b \in [1..N -> Nat]
        /\ \A j \in 1..N : b[j] <= a[j]
    <3>1. ASSUME NEW j \in 1..N
          PROVE  Size(c[j]) \in Nat /\ Size(d[j]) \in Nat /\ Size(d[j]) <= Size(c[j])
      <4>1. c[j] \in StateMessage /\ (d[j] = c[j] \/ d[j] = WithoutBody(c[j]))
        BY <1>1
      <4> QED BY <2>2, <4>1
    <3> QED BY <3>1
  <2>4. b[i] < a[i]
    BY <1>1, <2>2
  <2> HIDE DEF a, b
  <2>5. Total(b) < Total(a)
    BY <1>1, <2>3, <2>4, TotalMonotone
  <2> QED BY <2>1, <2>5
<1> QED BY <1>3, <1>12, <1>13

\* Without bodies but the newest's, dropping the oldest message changes nothing
\* of what is left in the end.
LEMMA DropStep ==
    ASSUME NEW c \in States, NEW room \in Int, ~(StateTokens(c) <= room),
           NEW M \in Nat, M >= 1, Len(c) = M + 1,
           \A j \in 1..Len(c) : j > 1 => c[j].body.length = 0,
           NEW d \in [1..M -> StateMessage], \A j \in 1..M : d[j] = c[j]
    PROVE  d \in States /\ Truncated(d, room) = Truncated(c, room) /\ Length(d) < Length(c)
<1>1. /\ c \in [1..M + 1 -> StateMessage] /\ DOMAIN c = 1..M + 1
      /\ \A j \in 1..M + 1 : c[j] \in StateMessage
      /\ \A j \in 1..M : j \in 1..M + 1
      /\ 1 \in 1..M /\ 0 \in 0..M - 1 /\ M + 1 \in 1..M + 1
  BY StateFacts
<1>2. d \in States /\ Len(d) = M /\ \A j \in 1..M : d[j] \in StateMessage
  BY IsState
<1>3. ASSUME NEW n \in 0..M
      PROVE  WithoutBodies(c, n) = c
  <2>1. n \in 0..Len(c) - 1 /\ 1..Len(c) = 1..M + 1
    OBVIOUS
  <2>2. /\ WithoutBodies(c, n) \in [1..M + 1 -> StateMessage]
        /\ \A j \in 1..M + 1 : WithoutBodies(c, n)[j] =
                                 IF j > M + 1 - n THEN WithoutBody(c[j]) ELSE c[j]
    BY <2>1, StripsFacts
  <2>3. ASSUME NEW j \in 1..M + 1 PROVE WithoutBodies(c, n)[j] = c[j]
    <3>1. CASE j > M + 1 - n
      <4>1. j > 1
        BY <3>1
      <4>2. c[j].body.length = 0 /\ c[j] \in StateMessage
        BY <1>1, <4>1
      <4> QED BY <2>2, <3>1, <4>2, NoBodyFacts
    <3>2. CASE ~(j > M + 1 - n)
      BY <2>2, <3>2
    <3> QED BY <3>1, <3>2
  <2> QED BY <1>1, <2>2, <2>3
<1>4. ASSUME NEW n \in 0..M - 1
      PROVE  WithoutBodies(d, n) = d
  <2>1. n \in 0..Len(d) - 1 /\ 1..Len(d) = 1..M
    BY <1>2
  <2>2. /\ WithoutBodies(d, n) \in [1..M -> StateMessage]
        /\ \A j \in 1..M : WithoutBodies(d, n)[j] =
                             IF j > M - n THEN WithoutBody(d[j]) ELSE d[j]
    BY <1>2, <2>1, StripsFacts
  <2>3. ASSUME NEW j \in 1..M PROVE WithoutBodies(d, n)[j] = d[j]
    <3>1. CASE j > M - n
      <4>1. j > 1 /\ j \in 1..M + 1
        BY <3>1
      <4>2. d[j].body.length = 0 /\ d[j] \in StateMessage
        BY <1>1, <4>1
      <4> QED BY <2>2, <3>1, <4>2, NoBodyFacts
    <3>2. CASE ~(j > M - n)
      BY <2>2, <3>2
    <3> QED BY <3>1, <3>2
  <2> QED BY <2>2, <2>3
\* What is left of c without n + 1 messages is left of d without n.
<1>5. ASSUME NEW n \in 0..M - 1
      PROVE  NewestOnly(d, n) = NewestOnly(c, n + 1)
  <2>1. Len(c) - 1 = M /\ Len(c) - (n + 1) = M - n /\ Len(d) - 1 = M - 1 /\ Len(d) - n = M - n
    BY <1>2
  <2>2. M \in 0..M /\ M - 1 \in 0..M - 1
    OBVIOUS
  <2>3. WithoutBodies(c, M) = c /\ WithoutBodies(d, M - 1) = d
    BY <1>3, <1>4, <2>2
  <2>4. \A j \in 1..M - n : j \in 1..M
    OBVIOUS
  <2>5. /\ NewestOnly(c, n + 1) = [j \in 1..M - n |-> c[j]]
        /\ NewestOnly(d, n) = [j \in 1..M - n |-> d[j]]
    BY <2>1, <2>3 DEF NewestOnly
  <2>6. [j \in 1..M - n |-> c[j]] = [j \in 1..M - n |-> d[j]]
    BY <2>4
  <2> QED BY <2>5, <2>6
<1>6. NewestOnly(c, 0) = c /\ NewestOnly(c, 1) = d
  <2>1. Len(c) - 1 = M /\ Len(c) - 0 = M + 1 /\ M \in 0..M
    OBVIOUS
  <2>2. WithoutBodies(c, M) = c
    BY <1>3, <2>1
  <2>3. NewestOnly(c, 0) = [j \in 1..M + 1 |-> c[j]] /\ NewestOnly(c, 1) = [j \in 1..M |-> c[j]]
    BY <2>1, <2>2 DEF NewestOnly
  <2>4. [j \in 1..M + 1 |-> c[j]] = c
    BY <1>1
  <2>5. [j \in 1..M |-> c[j]] = d
    OBVIOUS
  <2> QED BY <2>3, <2>4, <2>5
<1>7. Strips(c, room) = {}
  <2>1. ASSUME NEW n \in Strips(c, room) PROVE FALSE
    <3>1. n \in 0..M /\ StateTokens(WithoutBodies(c, n)) <= room
      BY DEF Strips
    <3> QED BY <1>3, <3>1
  <2> QED BY <2>1
<1>8. Drops(c, room) \in SUBSET Nat /\ Drops(d, room) \in SUBSET Nat
  BY <1>2 DEF Drops
<1>9. 0 \notin Drops(c, room)
  BY <1>6 DEF Drops
<1>10. ASSUME NEW n \in 0..M - 1
       PROVE  n + 1 \in Drops(c, room) <=> n \in Drops(d, room)
  <2>1. n + 1 \in 0..Len(c) - 1 /\ n \in 0..Len(d) - 1
    BY <1>2
  <2> QED BY <1>5, <2>1 DEF Drops
<1>11. Truncated(d, room) = Truncated(c, room)
  <2>1. CASE StateTokens(d) <= room
    <3>1. Truncated(d, room) = d
      BY <1>2, <2>1, FittingIsKept
    <3>2. 1 \in 0..Len(c) - 1
      OBVIOUS
    <3>3. 1 \in Drops(c, room)
      BY <1>6, <2>1, <3>2 DEF Drops
    <3>4. Min(Drops(c, room)) \in Drops(c, room) /\ Min(Drops(c, room)) <= 1
      BY <1>8, <3>3, MinFacts
    <3>5. Min(Drops(c, room)) = 1
      BY <1>8, <1>9, <3>4
    <3> QED BY <1>6, <1>7, <3>1, <3>3, <3>5 DEF Truncated
  <2>2. CASE ~(StateTokens(d) <= room)
    <3>1. Strips(d, room) = {}
      <4>1. ASSUME NEW n \in Strips(d, room) PROVE FALSE
        <5>1. n \in 0..M - 1 /\ StateTokens(WithoutBodies(d, n)) <= room
          BY <1>2 DEF Strips
        <5> QED BY <1>4, <2>2, <5>1
      <4> QED BY <4>1
    <3>2. CASE Drops(d, room) = {}
      <4>1. ASSUME NEW n \in Drops(c, room) PROVE FALSE
        <5>1. n \in 0..M /\ n # 0
          BY <1>9 DEF Drops
        <5>2. n - 1 \in 0..M - 1 /\ (n - 1) + 1 = n
          BY <5>1
        <5> QED BY <1>10, <3>2, <5>2
      <4>2. Drops(c, room) = {} /\ c[1] = d[1]
        BY <1>1, <4>1
      <4> QED BY <1>7, <3>1, <3>2, <4>2 DEF Truncated
    <3>3. CASE Drops(d, room) # {}
      <4> DEFINE q == Min(Drops(d, room))
      <4>1. q \in Drops(d, room) /\ \A n \in Drops(d, room) : q <= n
        BY <1>8, <3>3, MinFacts
      <4>2. q \in 0..M - 1 /\ q \in Nat /\ q + 1 \in Nat
        BY <1>2, <4>1 DEF Drops
      <4>3. q + 1 \in Drops(c, room)
        BY <1>10, <4>1, <4>2
      <4> DEFINE p == Min(Drops(c, room))
      <4>4. p \in Drops(c, room) /\ p <= q + 1
        BY <1>8, <4>3, MinFacts
      <4>5. p \in 0..M /\ p # 0
        BY <1>9, <4>4 DEF Drops
      <4> HIDE DEF p, q
      <4>6. p - 1 \in 0..M - 1 /\ (p - 1) + 1 = p
        BY <4>5
      <4>7. p - 1 \in Drops(d, room)
        BY <1>10, <4>4, <4>6
      <4>8. q <= p - 1
        BY <4>1, <4>7
      <4>9. p = q + 1
        BY <4>2, <4>4, <4>5, <4>8
      <4>10. NewestOnly(d, q) = NewestOnly(c, p)
        BY <1>5, <4>2, <4>9
      <4>11. Drops(c, room) # {}
        BY <4>3
      <4> QED BY <1>7, <3>1, <3>3, <4>10, <4>11 DEF Truncated, p, q
    <3> QED BY <3>2, <3>3
  <2> QED BY <2>1, <2>2
<1>12. Length(d) < Length(c)
  <2> DEFINE a == [j \in 1..M + 1 |-> Size(c[j])]
             b == [j \in 1..M |-> Size(d[j])]
  <2>1. Length(c) = Total(a) /\ Length(d) = Total(b)
    <3>1. DOMAIN d = 1..M
      OBVIOUS
    <3> QED BY <1>1, <3>1 DEF Length, Size
  <2>2. ASSUME NEW m \in StateMessage PROVE Size(m) \in Nat /\ Size(m) >= 1
    <3>1. /\ Len(m.headers) = Len(m.headers) /\ m.body.length <= m.body.length
          /\ \A k \in 1..Len(m.headers) : m.headers[k].length <= m.headers[k].length
      BY MessageFacts
    <3> QED BY <3>1, SizeFacts
  <2>3. /\ a \in [1..M + 1 -> Nat] /\ b \in [1..M -> Nat] /\ a[M + 1] >= 1
        /\ \A j \in 1..M : b[j] = a[j]
    BY <1>1, <1>2, <2>2
  <2> HIDE DEF a, b
  <2>4. Total(b) \in Nat /\ Total(a) = Total(b) + a[M + 1]
    BY <2>3, TotalOfFront
  <2>5. a[M + 1] \in Nat /\ a[M + 1] >= 1
    BY <1>1, <2>3
  <2> QED BY <2>1, <2>4, <2>5
<1> QED BY <1>2, <1>11, <1>12

\* A newest message that does not fit, without a body, is left with its headers cut.
LEMMA AloneWithoutBody ==
    ASSUME NEW m \in StateMessage, NEW room \in Int, MessageTokens(m) > room - 2,
           m.body.length = 0
    PROVE  Truncated(<<m>>, room) = <<CutHeaders(m, room - 2)>>
<1> DEFINE left == room - 2
<1>1. left \in Int /\ MessageTokens(m) > left /\ MessageTokens(m) \in Nat
  BY TokensType
<1>2. Truncated(<<m>>, room) = OneMessage(m, left)
  BY AloneIsCut
<1> HIDE DEF left
<1>3. CutBody(m, left) = WithoutBody(m)
  BY <1>1, CutBodyFacts
<1>4. WithoutBody(m) = m
  BY NoBodyFacts
<1>5. ~(MessageTokens(m) <= left)
  BY <1>1
<1>6. OneMessage(m, left) = <<CutHeaders(m, left)>>
  BY <1>3, <1>4, <1>5 DEF OneMessage
<1> QED BY <1>2, <1>6 DEF left

\* With nothing left in it, the newest message is sent even if it does not fit.
LEMMA BareIsKept ==
    ASSUME NEW m \in StateMessage, NEW room \in Int, MessageTokens(m) > room - 2,
           m.body.length = 0, \A k \in 1..Len(m.headers) : m.headers[k].length = 0
    PROVE  Truncated(<<m>>, room) = <<m>>
<1> DEFINE left == room - 2
           N == Len(m.headers)
<1>1. left \in Int /\ N \in Nat
  BY MessageFacts
<1>2. ASSUME NEW cap \in Nat, NEW k \in Nat PROVE CapHeaders(m, cap, k) = m
  <2>1. \A j \in 1..N : m.headers[j].length <= CapOf(cap, k, j)
    <3>1. ASSUME NEW j \in 1..N PROVE m.headers[j].length <= CapOf(cap, k, j)
      <4>1. CapOf(cap, k, j) = cap \/ CapOf(cap, k, j) = cap + 1
        BY DEF CapOf
      <4>2. m.headers[j].length = 0
        OBVIOUS
      <4> QED BY <4>1, <4>2
    <3> QED BY <3>1
  <2> QED BY <2>1, CapIsIdle
<1> HIDE DEF left
<1>3. PICK longest \in Nat, cap \in Nat : IsCap(m, cap, longest, left)
  BY <1>1, CutHeadersFacts
<1>4. CutHeaders(m, left) = IF Enough(m, cap, left) = {} THEN CapHeaders(m, 0, N)
                            ELSE CapHeaders(m, cap, Min(Enough(m, cap, left)))
  BY <1>3 DEF IsCap
<1>5. Enough(m, cap, left) \in SUBSET Nat
  BY <1>1 DEF Enough
<1>6. CutHeaders(m, left) = m
  <2>1. CASE Enough(m, cap, left) = {}
    BY <1>1, <1>2, <1>4, <2>1
  <2>2. CASE Enough(m, cap, left) # {}
    <3>1. Min(Enough(m, cap, left)) \in Nat
      BY <1>5, <2>2, MinFacts
    <3> QED BY <1>2, <1>4, <2>2, <3>1
  <2> QED BY <2>1, <2>2
<1>7. Truncated(<<m>>, room) = <<CutHeaders(m, left)>>
  BY AloneWithoutBody DEF left
<1> QED BY <1>6, <1>7

\* Cutting the newest body by one unit first changes nothing of what is left.
LEMMA AloneBodyStep ==
    ASSUME NEW m \in StateMessage, NEW room \in Int, MessageTokens(m) > room - 2,
           m.body.length > 0,
           NEW d, d = WithBodyCut(m, m.body.length - 1)
    PROVE  /\ <<d>> \in States /\ Truncated(<<d>>, room) = Truncated(<<m>>, room)
           /\ Length(<<d>>) < Length(<<m>>)
<1> DEFINE left == room - 2
<1>1. left \in Int /\ MessageTokens(m) > left
  OBVIOUS
<1>2. Truncated(<<m>>, room) = OneMessage(m, left)
  BY AloneIsCut
<1>3. left + 2 = room
  OBVIOUS
<1> HIDE DEF left
<1>4. /\ d \in StateMessage /\ d.body.length < m.body.length
      /\ MessageTokens(d) <= left => CutBody(m, left) = d
      /\ MessageTokens(d) > left => CutBody(d, left) = CutBody(m, left)
  BY <1>1, BodyStep
<1>5. MessageTokens(d) \in Nat
  BY <1>4, TokensType
<1>6. /\ <<d>> \in States /\ StateTokens(<<d>>) = MessageTokens(d) + 2
      /\ Length(<<d>>) = Size(d) /\ Length(<<m>>) = Size(m)
  BY <1>4, AloneFacts
<1>7. Truncated(<<d>>, room) = Truncated(<<m>>, room)
  <2>1. CASE MessageTokens(d) <= left
    <3>1. StateTokens(<<d>>) <= room
      BY <1>1, <1>3, <1>5, <1>6, <2>1
    <3>2. Truncated(<<d>>, room) = <<d>>
      BY <1>6, <3>1, FittingIsKept
    <3>3. OneMessage(m, left) = <<d>>
      BY <1>4, <2>1 DEF OneMessage
    <3> QED BY <1>2, <3>2, <3>3
  <2>2. CASE ~(MessageTokens(d) <= left)
    <3>1. MessageTokens(d) > left
      BY <1>1, <1>5, <2>2
    <3>2. Truncated(<<d>>, room) = OneMessage(d, left)
      BY <1>4, <3>1, AloneIsCut DEF left
    <3>3. OneMessage(d, left) = OneMessage(m, left)
      BY <1>4, <3>1 DEF OneMessage
    <3> QED BY <1>2, <3>2, <3>3
  <2> QED BY <2>1, <2>2
<1>8. Size(d) < Size(m)
  <2>1. m.body.length \in Nat /\ m.body.length - 1 \in Nat
    BY MessageFacts
  <2>2. d.headers = m.headers
    BY <2>1, BodyCutFacts
  <2>3. d.body.length \in Nat /\ d.body.length <= m.body.length
    BY <1>4, <2>1, MessageFacts
  <2>4. /\ Len(d.headers) = Len(m.headers)
        /\ \A k \in 1..Len(m.headers) : d.headers[k].length <= m.headers[k].length
    BY <2>2, MessageFacts
  <2> QED BY <1>4, <2>3, <2>4, SizeFacts
<1> QED BY <1>6, <1>7, <1>8

\* Cutting the longest header value by one unit first changes nothing of what is left.
LEMMA AloneHeaderStep ==
    ASSUME NEW m \in StateMessage, NEW room \in Int, MessageTokens(m) > room - 2,
           m.body.length = 0,
           NEW K \in Nat, NEW q \in Nat, K \in 1..Len(m.headers),
           m.headers[K].length = q + 1,
           \A j \in 1..Len(m.headers) :
                \/ m.headers[j].length < m.headers[K].length
                \/ m.headers[j].length = m.headers[K].length /\ K <= j,
           NEW d, d = CapHeaders(m, q, K)
    PROVE  /\ <<d>> \in States /\ Truncated(<<d>>, room) = Truncated(<<m>>, room)
           /\ Length(<<d>>) < Length(<<m>>)
<1> DEFINE left == room - 2
           N == Len(m.headers)
<1>1. left \in Int /\ MessageTokens(m) > left /\ left + 2 = room
  OBVIOUS
<1>2. Truncated(<<m>>, room) = <<CutHeaders(m, left)>>
  BY AloneWithoutBody
<1> HIDE DEF left
<1>3. /\ MessageTokens(d) <= left => CutHeaders(m, left) = d
      /\ MessageTokens(d) > left => CutHeaders(d, left) = CutHeaders(m, left)
  BY <1>1, HeaderStep
<1>4. /\ d \in StateMessage /\ d.body = m.body /\ Len(d.headers) = N
      /\ \A j \in 1..N : /\ CapOf(q, K, j) \in Nat
                         /\ d.headers[j] = SafeCut(m.headers[j], CapOf(q, K, j))
  BY CapFacts
<1>5. MessageTokens(d) \in Nat
  BY <1>4, TokensType
<1>6. /\ <<d>> \in States /\ StateTokens(<<d>>) = MessageTokens(d) + 2
      /\ Length(<<d>>) = Size(d) /\ Length(<<m>>) = Size(m)
  BY <1>4, AloneFacts
<1>7. Truncated(<<d>>, room) = Truncated(<<m>>, room)
  <2>1. CASE MessageTokens(d) <= left
    <3>1. StateTokens(<<d>>) <= room
      BY <1>1, <1>5, <1>6, <2>1
    <3>2. Truncated(<<d>>, room) = <<d>>
      BY <1>6, <3>1, FittingIsKept
    <3> QED BY <1>2, <1>3, <2>1, <3>2
  <2>2. CASE ~(MessageTokens(d) <= left)
    <3>1. MessageTokens(d) > left
      BY <1>1, <1>5, <2>2
    <3>2. Truncated(<<d>>, room) = <<CutHeaders(d, left)>>
      <4>1. d.body.length = 0
        BY <1>4
      <4> QED BY <1>4, <3>1, <4>1, AloneWithoutBody DEF left
    <3> QED BY <1>2, <1>3, <3>1, <3>2
  <2> QED BY <2>1, <2>2
<1>8. Size(d) < Size(m)
  <2>1. ASSUME NEW j \in 1..N PROVE d.headers[j].length <= m.headers[j].length
    <3>1. /\ m.headers[j] \in Text /\ CapOf(q, K, j) \in Nat
          /\ d.headers[j] = SafeCut(m.headers[j], CapOf(q, K, j))
      BY <1>4, MessageFacts
    <3> QED BY <3>1, CutFacts
  <2>2. d.headers[K].length < m.headers[K].length
    <3>1. CapOf(q, K, K) = q
      BY DEF CapOf
    <3>2. m.headers[K] \in Text /\ q < m.headers[K].length
      BY MessageFacts
    <3>3. d.headers[K] = SafeCut(m.headers[K], q)
      BY <1>4, <3>1
    <3> QED BY <3>2, <3>3, CutFacts
  <2>3. d.body.length <= m.body.length
    BY <1>4
  <2>4. \A k \in 1..Len(m.headers) : d.headers[k].length <= m.headers[k].length
    BY <2>1
  <2>5. \E k \in 1..Len(m.headers) : d.headers[k].length < m.headers[k].length
    BY <2>2
  <2> QED BY <1>4, <2>3, <2>4, <2>5, SizeFacts
<1> QED BY <1>6, <1>7, <1>8

\* The smallest cut changes nothing of what is left in the end.
LEMMA SmallestCutFacts ==
    ASSUME NEW c \in States, NEW room \in Int, ~(StateTokens(c) <= room), ~IsBare(c)
    PROVE  /\ SmallestCut(c) \in States
           /\ Truncated(SmallestCut(c), room) = Truncated(c, room)
           /\ Length(SmallestCut(c)) < Length(c)
<1> DEFINE N == Len(c)
           bodies == {i \in 2..N : c[i].body.length > 0}
           m == c[1]
           d == SmallestCut(c)
<1>1. /\ N \in Nat /\ N >= 1 /\ c \in [1..N -> StateMessage] /\ DOMAIN c = 1..N
      /\ m \in StateMessage /\ \A i \in 1..N : c[i] \in StateMessage
      /\ c \in Seq(StateMessage)
  BY StateFacts
<1>2. bodies \in SUBSET Nat /\ \A i \in bodies : i <= N
  BY <1>1
<1>3. CASE bodies # {}
  <2> DEFINE i == Max(bodies)
  <2>1. i \in bodies /\ \A j \in bodies : j <= i
    <3> HIDE DEF bodies
    <3> QED BY <1>1, <1>2, <1>3, MaxFacts
  <2>2. d = [c EXCEPT ![i] = WithoutBody(c[i])]
    BY <1>3 DEF SmallestCut
  <2> HIDE DEF d, i
  <2>3. i \in Nat /\ 2 <= i /\ i <= N /\ i \in 1..N /\ c[i].body.length > 0
    BY <1>1, <2>1
  <2>4. ASSUME NEW j \in 1..N, j > i PROVE c[j].body.length = 0
    <3>1. c[j].body.length \in Nat
      BY <1>1, MessageFacts
    <3>2. j \in 2..N /\ j \notin bodies
      BY <2>1, <2>3, <2>4
    <3> QED BY <3>1, <3>2
  <2>5. WithoutBody(c[i]) \in StateMessage
    BY <1>1, <2>3, NoBodyFacts
  <2>6. /\ d \in [1..N -> StateMessage] /\ d[i] = WithoutBody(c[i])
        /\ \A j \in 1..N : j # i => d[j] = c[j]
    BY <1>1, <2>2, <2>3, <2>5
  <2>7. d \in States /\ Truncated(d, room) = Truncated(c, room) /\ Length(d) < Length(c)
    BY <2>3, <2>4, <2>6, BodiesStep
  <2> QED BY <2>7 DEF d
<1>4. CASE bodies = {} /\ N > 1
  <2> DEFINE M == N - 1
  <2>1. M \in Nat /\ M >= 1 /\ N = M + 1 /\ M \in 1..N /\ M <= N
    BY <1>1, <1>4
  <2>2. d = SubSeq(c, 1, M)
    BY <1>4 DEF SmallestCut, Front
  <2> HIDE DEF M
  <2>3. /\ d \in [1..M -> StateMessage]
        /\ \A j \in 1..M : d[j] = c[j]
    <3>1. \A j \in 1..M : j \in 1..N
      BY <2>1
    <3>2. d = [j \in 1..M |-> c[j]]
      BY <1>1, <2>1, <2>2, SubSeqProperties
    <3> QED BY <1>1, <3>1, <3>2
  <2> HIDE DEF d
  <2>4. ASSUME NEW j \in 1..N, j > 1 PROVE c[j].body.length = 0
    <3>1. c[j].body.length \in Nat
      BY <1>1, MessageFacts
    <3>2. j \in 2..N /\ j \notin bodies
      BY <1>4, <2>4
    <3> QED BY <3>1, <3>2
  <2>5. d \in States /\ Truncated(d, room) = Truncated(c, room) /\ Length(d) < Length(c)
    BY <2>1, <2>3, <2>4, DropStep
  <2> QED BY <2>5 DEF d
<1>5. CASE bodies = {} /\ ~(N > 1)
  <2>1. N = 1 /\ c = <<m>>
    <3>1. N = 1
      BY <1>1, <1>5
    <3> QED BY <1>1, <3>1
  <2>2. StateTokens(<<m>>) = MessageTokens(m) + 2 /\ MessageTokens(m) \in Nat
    BY <1>1, AloneFacts, TokensType
  <2>3. MessageTokens(m) > room - 2
    BY <2>1, <2>2
  <2>4. CASE m.body.length > 0
    <3> DEFINE e == WithBodyCut(m, m.body.length - 1)
    <3>1. d = <<e>>
      BY <1>5, <2>4 DEF SmallestCut
    <3> HIDE DEF e, d
    <3>2. /\ <<e>> \in States /\ Truncated(<<e>>, room) = Truncated(<<m>>, room)
          /\ Length(<<e>>) < Length(<<m>>)
      BY <1>1, <2>3, <2>4, AloneBodyStep DEF e
    <3>3. d \in States /\ Truncated(d, room) = Truncated(c, room) /\ Length(d) < Length(c)
      BY <2>1, <3>1, <3>2
    <3> QED BY <3>3 DEF d
  <2>5. CASE ~(m.body.length > 0)
    <3> DEFINE H == Len(m.headers)
               K == LongestHeader(m.headers)
               q == m.headers[K].length - 1
               e == CapHeaders(m, q, K)
    <3>1. /\ m.body.length = 0 /\ H \in Nat /\ DOMAIN m.headers = 1..H
          /\ m.headers \in [1..H -> Text]
          /\ \A k \in 1..H : m.headers[k] \in Text /\ m.headers[k].length \in Nat
      BY <1>1, <2>5, MessageFacts
    <3>2. PICK k \in 1..H : m.headers[k].length # 0
      BY <2>1, <3>1 DEF IsBare
    <3>3. H > 0
      BY <3>1, <3>2
    <3>4. /\ K \in 1..H
          /\ \A j \in 1..H :
                \/ m.headers[j].length < m.headers[K].length
                \/ m.headers[j].length = m.headers[K].length /\ K <= j
      BY <1>1, <3>3, LongestHeaderFacts
    <3>5. d = <<[headers |-> [m.headers EXCEPT ![K] = SafeCut(m.headers[K], q)], body |-> m.body]>>
      BY <1>5, <2>5 DEF SmallestCut
    <3> HIDE DEF d, K
    <3>6. K \in Nat /\ q \in Nat /\ m.headers[K].length = q + 1
      <4>1. m.headers[K].length \in Nat /\ m.headers[k].length \in Nat
        BY <3>1, <3>4
      <4>2. m.headers[K].length > 0
        BY <3>2, <3>4, <4>1
      <4> QED BY <3>4, <4>1, <4>2
    <3> HIDE DEF q
    <3>7. /\ e.headers \in [1..H -> Text] /\ e.body = m.body /\ e \in StateMessage
          /\ \A j \in 1..H : /\ CapOf(q, K, j) \in Nat
                             /\ e.headers[j] = SafeCut(m.headers[j], CapOf(q, K, j))
      BY <1>1, <3>6, CapFacts
    <3>8. e = [headers |-> e.headers, body |-> e.body]
      BY <3>7, MessageFacts
    <3> HIDE DEF e
    <3> DEFINE h == [m.headers EXCEPT ![K] = SafeCut(m.headers[K], q)]
    <3>9. ASSUME NEW j \in 1..H PROVE h[j] = e.headers[j]
      <4>1. /\ m.headers[j] \in Text /\ m.headers[j].length \in Nat /\ CapOf(q, K, j) \in Nat
            /\ e.headers[j] = SafeCut(m.headers[j], CapOf(q, K, j))
        BY <3>1, <3>7
      <4>2. CASE j = K
        <5>1. CapOf(q, K, K) = q
          BY <3>6 DEF CapOf
        <5>2. h[K] = SafeCut(m.headers[K], q)
          BY <3>1, <3>4
        <5> QED BY <4>1, <4>2, <5>1, <5>2
      <4>3. CASE j # K
        <5>1. h[j] = m.headers[j]
          BY <3>1, <4>3
        <5>2. m.headers[j].length <= CapOf(q, K, j)
          <6>1. \/ m.headers[j].length < m.headers[K].length
                \/ m.headers[j].length = m.headers[K].length /\ K <= j
            BY <3>4
          <6>2. CASE j <= K
            <7>1. m.headers[j].length < m.headers[K].length
              BY <3>6, <4>3, <6>1, <6>2
            <7>2. m.headers[j].length <= q
              BY <3>6, <4>1, <7>1
            <7> QED BY <6>2, <7>2 DEF CapOf
          <6>3. CASE ~(j <= K)
            <7>1. m.headers[j].length <= q + 1
              BY <3>6, <4>1, <6>1
            <7> QED BY <6>3, <7>1 DEF CapOf
          <6> QED BY <6>2, <6>3
        <5>3. CapOf(q, K, j) >= m.headers[j].length
          BY <4>1, <5>2
        <5>4. SafeCut(m.headers[j], CapOf(q, K, j)) = m.headers[j]
          BY <4>1, <5>3, CutFacts
        <5> QED BY <4>1, <5>1, <5>4
      <4> QED BY <4>2, <4>3
    <3>10. h \in [1..H -> Text]
      <4>1. SafeCut(m.headers[K], q) \in Text
        BY <3>1, <3>4, <3>6, CutFacts
      <4> QED BY <3>1, <3>4, <4>1
    <3>11. d = <<[headers |-> h, body |-> m.body]>>
      BY <3>5
    <3> HIDE DEF h
    <3>12. h = e.headers
      <4> DEFINE g == e.headers
      <4>1. g \in [1..H -> Text] /\ \A j \in 1..H : h[j] = g[j]
        BY <3>7, <3>9
      <4> HIDE DEF g
      <4>2. h = g
        BY <3>10, <4>1
      <4> QED BY <4>2 DEF g
    <3>13. d = <<e>>
      BY <3>7, <3>8, <3>11, <3>12
    <3>14. /\ <<e>> \in States /\ Truncated(<<e>>, room) = Truncated(<<m>>, room)
           /\ Length(<<e>>) < Length(<<m>>)
      BY <1>1, <2>3, <3>1, <3>4, <3>6, AloneHeaderStep DEF e
    <3>15. d \in States /\ Truncated(d, room) = Truncated(c, room) /\ Length(d) < Length(c)
      BY <2>1, <3>13, <3>14
    <3> QED BY <3>15 DEF d
  <2> QED BY <2>4, <2>5
<1> QED BY <1>3, <1>4, <1>5

-----------------------------------------------------------------------------
(* The reservation of the questions keeps both limits.                     *)

\* A state beside which the reservation fits is one within both limits.
LEMMA ReservedFacts ==
    /\ ReservedTokensForQuestions \in Int
    /\ JevLimit \in Int
    /\ \A c \in States :
         WithinLimits(c) <=> StateTokens(c) <= JevLimit - ReservedTokensForQuestions
<1> DEFINE S == {0} \cup ToSet(Questions)
           per == IF Questions = <<>> THEN 0 ELSE QuestionOverhead
           times == QuestionOverhead * Len(Questions)
           a == LongestQuestion + per + RequestOverhead + SafetyMargin
           b == Total(Questions) + times + RequestOverhead
                  + CombinedMargin - (CombinedLimit - JevLimit)
<1>1. /\ JevLimit \in Nat /\ CombinedLimit \in Nat /\ RequestOverhead \in Nat
      /\ QuestionOverhead \in Nat /\ SafetyMargin \in Nat /\ CombinedMargin \in Nat
      /\ Questions \in Seq(Nat)
  BY StateAssumption
<1>2. /\ Len(Questions) \in Nat /\ DOMAIN Questions = 1..Len(Questions)
      /\ Questions \in [1..Len(Questions) -> Nat]
  BY <1>1
<1>3. LongestQuestion \in Nat
  <2>1. PICK n \in Nat : \A k \in 1..Len(Questions) : Questions[k] <= n
    BY <1>2, Bounded
  <2>2. S \in SUBSET Nat /\ S # {} /\ \A k \in S : k <= n
    BY <1>2, <2>1 DEF ToSet
  <2> HIDE DEF S
  <2>3. Max(S) \in S
    BY <2>2, MaxFacts
  <2> QED BY <2>2, <2>3 DEF LongestQuestion, S
<1>4. Total(Questions) \in Nat
  BY <1>2, TotalType
<1>5. per \in Nat /\ times \in Int
  BY <1>1, <1>2
<1>6. ReservedTokensForQuestions = Max({a, b})
  BY DEF ReservedTokensForQuestions
<1>7. \A c \in States : WithinLimits(c) <=>
        /\ StateTokens(c) + LongestQuestion + RequestOverhead + per + SafetyMargin <= JevLimit
        /\ StateTokens(c) + Total(Questions) + RequestOverhead + times + CombinedMargin
             <= CombinedLimit
  BY DEF WithinLimits
<1> HIDE DEF per, times
<1>8. a \in Int /\ b \in Int
  BY <1>1, <1>3, <1>4, <1>5
<1>9. ASSUME NEW t \in Nat
      PROVE  /\ t + LongestQuestion + RequestOverhead + per + SafetyMargin <= JevLimit
                  <=> t <= JevLimit - a
             /\ t + Total(Questions) + RequestOverhead + times + CombinedMargin <= CombinedLimit
                  <=> t <= JevLimit - b
  BY <1>1, <1>3, <1>4, <1>5
<1> HIDE DEF a, b
<1> DEFINE r == ReservedTokensForQuestions
<1>10. r \in {a, b} /\ a <= r /\ b <= r
  BY <1>6, <1>8, MaxOfTwo
<1> HIDE DEF r
<1>11. r \in Int
  BY <1>8, <1>10
<1>12. ASSUME NEW t \in Nat PROVE t <= JevLimit - a /\ t <= JevLimit - b <=> t <= JevLimit - r
  BY <1>1, <1>8, <1>10, <1>11
<1>13. ASSUME NEW c \in States PROVE WithinLimits(c) <=> StateTokens(c) <= JevLimit - r
  <2>1. StateTokens(c) \in Nat
    BY StateFacts
  <2> QED BY <1>7, <1>9, <1>12, <2>1
<1> QED BY <1>1, <1>11, <1>13 DEF r

\* What is cut as the code cuts it is what one small cut after the other leaves.
THEOREM TruncatedIsFirstThatFits ==
    ASSUME NEW c \in States
    PROVE  /\ TruncateState(c, ReservedTokensForQuestions) = FirstThatFits(c)
           /\ WithinLimits(FirstThatFits(c)) \/ IsBare(FirstThatFits(c))
<1> DEFINE room == JevLimit - ReservedTokensForQuestions
           L == Length(c)
           g == [n \in 1..L |-> [s \in States |-> CutOnce(s)]]
<1>1. room \in Int /\ \A s \in States : WithinLimits(s) <=> StateTokens(s) <= room
  BY ReservedFacts
<1>2. L \in Nat /\ L >= 1
  BY StateFacts
<1>3. TruncateState(c, ReservedTokensForQuestions) = Truncated(c, room)
  BY TruncateParts
<1> HIDE DEF room, L
<1> DEFINE Stopped(s) == WithinLimits(s) \/ IsBare(s)
<1>4. ASSUME NEW s \in States
      PROVE  /\ CutOnce(s) \in States /\ Truncated(CutOnce(s), room) = Truncated(s, room)
             /\ Stopped(s) => CutOnce(s) = s /\ Truncated(s, room) = s
             /\ ~Stopped(s) => Length(CutOnce(s)) < Length(s)
  <2>1. CASE WithinLimits(s)
    <3>1. CutOnce(s) = s /\ StateTokens(s) <= room
      BY <1>1, <2>1 DEF CutOnce
    <3>2. Truncated(s, room) = s
      BY <1>1, <3>1, FittingIsKept
    <3> QED BY <2>1, <3>1, <3>2
  <2>2. CASE ~WithinLimits(s) /\ IsBare(s)
    <3> DEFINE m == s[1]
    <3>1. CutOnce(s) = s /\ ~(StateTokens(s) <= room)
      BY <1>1, <2>2 DEF CutOnce
    <3>2. /\ m \in StateMessage /\ s \in [1..Len(s) -> StateMessage] /\ DOMAIN s = 1..Len(s)
          /\ s \in Seq(StateMessage)
      BY StateFacts
    <3>3. Len(s) = 1 /\ m.body.length = 0
      BY <2>2 DEF IsBare
    <3>4. s = <<m>>
      BY <3>2, <3>3
    <3>5. \A k \in 1..Len(m.headers) : m.headers[k].length = 0
      BY <2>2, <3>2, MessageFacts DEF IsBare
    <3>6. StateTokens(<<m>>) = MessageTokens(m) + 2 /\ MessageTokens(m) \in Nat
      BY <3>2, AloneFacts, TokensType
    <3>7. MessageTokens(m) > room - 2
      BY <1>1, <3>1, <3>4, <3>6
    <3> HIDE DEF m
    <3>8. Truncated(<<m>>, room) = <<m>>
      BY <1>1, <3>2, <3>3, <3>5, <3>7, BareIsKept
    <3> QED BY <2>2, <3>1, <3>4, <3>8
  <2>3. CASE ~WithinLimits(s) /\ ~IsBare(s)
    <3>1. CutOnce(s) = SmallestCut(s) /\ ~(StateTokens(s) <= room)
      BY <1>1, <2>3 DEF CutOnce
    <3>2. /\ SmallestCut(s) \in States
          /\ Truncated(SmallestCut(s), room) = Truncated(s, room)
          /\ Length(SmallestCut(s)) < Length(s)
      BY <1>1, <2>3, <3>1, SmallestCutFacts
    <3> QED BY <2>3, <3>1, <3>2
  <2> QED BY <2>1, <2>2, <2>3
<1> HIDE DEF Stopped
<1>5. g \in [1..L -> [States -> States]]
  BY <1>4
<1>6. \A n \in 1..L : \A s \in States : g[n][s] = CutOnce(s)
  OBVIOUS
<1> HIDE DEF g
<1>7. PICK h \in Chains(L, States, c, g) : TRUE
  BY <1>2, <1>5, Recursion
<1>8. /\ h \in [0..L -> States] /\ h[0] = c
      /\ \A n \in 1..L : h[n] = g[n][h[n - 1]]
  BY <1>7 DEF Chains
<1>9. \A n \in 1..L : h[n - 1] \in States /\ h[n] = CutOnce(h[n - 1])
  <2>1. ASSUME NEW n \in 1..L PROVE h[n - 1] \in States /\ h[n] = CutOnce(h[n - 1])
    <3>1. n - 1 \in 0..L
      BY <1>2
    <3> QED BY <1>6, <1>8, <3>1
  <2> QED BY <2>1
<1> DEFINE cut == CHOOSE f : f = [n \in 0..L |-> IF n = 0 THEN c ELSE CutOnce(f[n - 1])]
<1>10. h = [n \in 0..L |-> IF n = 0 THEN c ELSE CutOnce(h[n - 1])]
  <2>1. ASSUME NEW n \in 0..L PROVE h[n] = IF n = 0 THEN c ELSE CutOnce(h[n - 1])
    <3>1. n # 0 => n \in 1..L
      BY <1>2
    <3> QED BY <1>8, <1>9, <3>1
  <2> QED BY <1>8, <2>1
<1>11. cut = [n \in 0..L |-> IF n = 0 THEN c ELSE CutOnce(cut[n - 1])]
  BY <1>10
<1>12. FirstThatFits(c) = cut[L]
  BY DEF FirstThatFits, L
<1> HIDE DEF cut
<1> DEFINE S == {n \in 0..L :
                  /\ cut[n] \in States /\ Truncated(cut[n], room) = Truncated(c, room)
                  /\ Stopped(cut[n]) \/ Length(cut[n]) + n <= L}
<1>13. 0 \in S
  <2>1. 0 \in 0..L /\ cut[0] = c
    BY <1>2, <1>11
  <2>2. Length(cut[0]) + 0 <= L
    BY <1>2, <2>1 DEF L
  <2> QED BY <2>1, <2>2
<1>14. \A n \in 0..L : n < L /\ n \in S => n + 1 \in S
  <2>1. ASSUME NEW n \in 0..L, n < L, n \in S PROVE n + 1 \in S
    <3>1. n + 1 \in 0..L /\ n + 1 # 0 /\ (n + 1) - 1 = n
      BY <1>2, <2>1
    <3>2. cut[n + 1] = CutOnce(cut[n])
      BY <1>11, <3>1
    <3>3. /\ cut[n] \in States /\ Truncated(cut[n], room) = Truncated(c, room)
          /\ Stopped(cut[n]) \/ Length(cut[n]) + n <= L
      BY <2>1
    <3>4. cut[n + 1] \in States /\ Truncated(cut[n + 1], room) = Truncated(c, room)
      BY <1>4, <3>2, <3>3
    <3>5. CASE Stopped(cut[n])
      BY <1>4, <3>1, <3>2, <3>3, <3>4, <3>5
    <3>6. CASE ~Stopped(cut[n])
      <4>1. Length(cut[n + 1]) < Length(cut[n]) /\ Length(cut[n]) + n <= L
        BY <1>4, <3>2, <3>3, <3>6
      <4>2. Length(cut[n]) \in Nat /\ Length(cut[n + 1]) \in Nat
        BY <3>3, <3>4, StateFacts
      <4>3. Length(cut[n + 1]) + (n + 1) <= L
        BY <1>2, <4>1, <4>2
      <4> QED BY <3>1, <3>4, <4>3
    <3> QED BY <3>5, <3>6
  <2> QED BY <2>1
<1>15. L \in S
  <2> HIDE DEF S
  <2>1. \A n \in 0..L : n \in S
    BY <1>2, <1>13, <1>14, Induction
  <2>2. L \in 0..L
    BY <1>2
  <2> QED BY <2>1, <2>2
<1>16. Stopped(cut[L])
  <2>1. Length(cut[L]) \in Nat /\ Length(cut[L]) >= 1
    BY <1>15, StateFacts
  <2> QED BY <1>2, <1>15, <2>1
<1>17. Truncated(c, room) = cut[L]
  BY <1>4, <1>15, <1>16
<1> QED BY <1>3, <1>12, <1>16, <1>17 DEF Stopped

-----------------------------------------------------------------------------
(* The state of a thread, before it is cut.                                *)

Newer(messages, i, j) ==
    \/ messages[i].arrived > messages[j].arrived
    \/ messages[i].arrived = messages[j].arrived /\ i < j

\* Each message that counts is at one place, the newer before the older.
Arranges(messages, at) ==
    LET kept == Classifiable(messages)
        count == Cardinality(kept)
    IN  /\ count \in Nat /\ at \in [1..count -> kept]
        /\ \A i \in kept : \E k \in 1..count : at[k] = i
        /\ \A k, l \in 1..count : k < l => Newer(messages, at[k], at[l])
        /\ BuildState(messages) =
             [k \in 1..count |-> [headers |-> messages[at[k]].headers,
                                  body |-> messages[at[k]].body]]

\* The state of a thread with a message that counts: each that counts once, newest
\* first.
THEOREM BuildFacts ==
    ASSUME NEW messages \in Seq(Messages), Classifiable(messages) # {}
    PROVE  /\ BuildState(messages) \in States /\ BuildState(messages) # <<>>
           /\ \E at : Arranges(messages, at)
<1> DEFINE I == Classifiable(messages)
           n == Cardinality(I)
           Pre(i) == {j \in I : Newer(messages, j, i)}
           place == [i \in I |-> 1 + Cardinality(Pre(i))]
           at == [k \in 1..n |-> CHOOSE i \in I : place[i] = k]
           c == BuildState(messages)
<1>1. /\ DOMAIN messages = 1..Len(messages) /\ Len(messages) \in Nat
      /\ \A i \in DOMAIN messages : messages[i] \in Messages
  OBVIOUS
<1>2. I \subseteq DOMAIN messages /\ \A i \in I : i \in Int
  BY <1>1 DEF Classifiable
<1>3. \A i \in I : /\ messages[i].arrived \in Int
                   /\ messages[i].headers \in Seq(Text) /\ messages[i].body \in Text
  <2>1. ASSUME NEW i \in I
        PROVE  /\ messages[i].arrived \in Int
               /\ messages[i].headers \in Seq(Text) /\ messages[i].body \in Text
    <3>1. messages[i] \in Messages
      BY <1>1, <1>2
    <3> QED BY <3>1, ScreeningAssumption
  <2> QED BY <2>1
<1>4. IsFiniteSet(I)
  <2>1. IsFiniteSet(1..Len(messages))
    BY <1>1, FS_Interval
  <2>2. I \subseteq 1..Len(messages)
    BY <1>1, <1>2
  <2> HIDE DEF I
  <2> QED BY <2>1, <2>2, FS_Subset
<1> HIDE DEF I
<1>5. n \in Nat
  BY <1>4, FS_CardinalityType
<1>6. ASSUME NEW i \in I, NEW j \in I
      PROVE  /\ ~Newer(messages, i, i)
             /\ i # j => Newer(messages, i, j) \/ Newer(messages, j, i)
             /\ \A k \in I : Newer(messages, k, i) /\ Newer(messages, i, j)
                               => Newer(messages, k, j)
  BY <1>2, <1>3 DEF Newer
<1>7. ASSUME NEW i \in I
      PROVE  /\ IsFiniteSet(Pre(i)) /\ Cardinality(Pre(i)) \in Nat
             /\ Cardinality(Pre(i)) < n
  <2>1. Pre(i) \subseteq I \ {i}
    BY <1>6
  <2>2. IsFiniteSet(I \ {i}) /\ Cardinality(I \ {i}) = n - 1
    BY <1>4, FS_RemoveElement
  <2> HIDE DEF Pre
  <2>3. IsFiniteSet(Pre(i)) /\ Cardinality(Pre(i)) <= n - 1
    BY <2>1, <2>2, FS_Subset
  <2>4. Cardinality(Pre(i)) \in Nat
    BY <2>3, FS_CardinalityType
  <2> QED BY <1>5, <2>3, <2>4
<1>8. ASSUME NEW i \in I, NEW j \in I, Newer(messages, i, j) PROVE place[i] < place[j]
  <2>1. i \in Pre(j) /\ Pre(i) \subseteq Pre(j) \ {i}
    BY <1>6, <1>8
  <2> HIDE DEF Pre
  <2>2. /\ IsFiniteSet(Pre(j) \ {i})
        /\ Cardinality(Pre(j) \ {i}) = Cardinality(Pre(j)) - 1
    BY <1>7, <2>1, FS_RemoveElement
  <2>3. Cardinality(Pre(i)) <= Cardinality(Pre(j)) - 1
    BY <2>1, <2>2, FS_Subset
  <2> QED BY <1>7, <2>3
<1>9. place \in [I -> 1..n]
  <2> HIDE DEF Pre
  <2> QED BY <1>5, <1>7
<1>10. \A i \in I : place[i] \in Int
  BY <1>5, <1>9
<1>11. BuildState(messages) = [k \in 1..n |-> [headers |-> messages[at[k]].headers,
                                               body |-> messages[at[k]].body]]
  BY DEF BuildState, Newer, I
<1> HIDE DEF place
<1>12. ASSUME NEW i \in I, NEW j \in I, place[i] = place[j] PROVE i = j
  <2> SUFFICES ASSUME i # j PROVE FALSE
    OBVIOUS
  <2>1. Newer(messages, i, j) \/ Newer(messages, j, i)
    BY <1>6
  <2> QED BY <1>8, <1>10, <1>12, <2>1
<1>13. place \in Surjection(I, 1..n)
  <2>1. place \in Injection(I, 1..n)
    BY <1>9, <1>12 DEF Injection, IsInjective
  <2>2. IsFiniteSet(1..n) /\ Cardinality(1..n) = n
    BY <1>5, FS_Interval
  <2> QED BY <1>4, <2>1, <2>2, FS_Injection
<1>14. \A k \in 1..n : at[k] \in I /\ place[at[k]] = k
  BY <1>13 DEF Surjection
<1>15. at \in [1..n -> I]
  BY <1>14
<1> HIDE DEF at
<1>16. \A i \in I : \E k \in 1..n : at[k] = i
  BY <1>9, <1>12, <1>14
<1>17. ASSUME NEW k \in 1..n, NEW l \in 1..n, k < l PROVE Newer(messages, at[k], at[l])
  <2>1. at[k] \in I /\ at[l] \in I /\ place[at[k]] = k /\ place[at[l]] = l
    BY <1>14
  <2>2. at[k] # at[l]
    BY <1>5, <1>17, <2>1
  <2>3. Newer(messages, at[k], at[l]) \/ Newer(messages, at[l], at[k])
    BY <1>6, <2>1, <2>2
  <2>4. ASSUME Newer(messages, at[l], at[k]) PROVE l < k
    BY <1>8, <2>1, <2>4
  <2> QED BY <1>5, <1>17, <2>3, <2>4
<1>18. Arranges(messages, at)
  BY <1>5, <1>11, <1>15, <1>16, <1>17 DEF Arranges, I
<1>19. n >= 1
  <2>1. PICK i \in I : TRUE
    BY DEF I
  <2>2. PICK k \in 1..n : at[k] = i
    BY <1>16
  <2> QED BY <1>5, <2>2
<1>20. c \in [1..n -> StateMessage]
  <2>1. \A k \in 1..n : /\ messages[at[k]].headers \in Seq(Text)
                        /\ messages[at[k]].body \in Text
    BY <1>3, <1>15
  <2> QED BY <1>11, <2>1 DEF StateMessage
<1> HIDE DEF c
<1>21. c \in States /\ Len(c) = n
  BY <1>5, <1>19, <1>20, IsState
<1>22. c # <<>>
  BY <1>21 DEF States
<1> QED BY <1>18, <1>21, <1>22 DEF c

\* What is sent of a thread is what the smallest cuts leave, one after the other, and
\* it is within both limits unless nothing is left to cut.
LEMMA SentIsFitted ==
    ASSUME NEW messages \in Seq(Messages), Classifiable(messages) # {}
    PROVE  /\ ThreadToState(messages) = FirstThatFits(BuildState(messages))
           /\ WithinLimits(ThreadToState(messages)) \/ IsBare(ThreadToState(messages))
<1> DEFINE c == BuildState(messages)
<1>1. c \in States /\ c # <<>>
  BY BuildFacts
<1>2. ThreadToState(messages) = TruncateState(c, ReservedTokensForQuestions)
  BY <1>1 DEF ThreadToState
<1> HIDE DEF c
<1>3. /\ TruncateState(c, ReservedTokensForQuestions) = FirstThatFits(c)
      /\ WithinLimits(FirstThatFits(c)) \/ IsBare(FirstThatFits(c))
  BY <1>1, TruncatedIsFirstThatFits
<1> QED BY <1>2, <1>3 DEF c

-----------------------------------------------------------------------------
(* The requests fit.                                                       *)

\* Of the messages read in full some count: a thread without one is dropped.
SomeCount == \A t \in DOMAIN full : Classifiable(full[t]) # {}

LEMMA NextKeepsSomeCount == TypeOK /\ SomeCount /\ [Next]_vars => SomeCount'
<1> SUFFICES ASSUME TypeOK, SomeCount, [Next]_vars PROVE SomeCount' OBVIOUS
<1>1. CASE UNCHANGED full BY <1>1 DEF SomeCount
<1>2. CASE full' = <<>> BY <1>2 DEF SomeCount
<1>3. ASSUME NEW t \in Threads, ReadFull(t) PROVE SomeCount'
  <2>1. CASE UNCHANGED full BY <2>1, <1>1
  <2>2. CASE Classifiable(mail[t]) # {} /\ full' = With(full, t, mail[t])
    <3> DEFINE reads == With(full, t, mail[t])
    <3>1. /\ DOMAIN reads = DOMAIN full \cup {t} /\ reads[t] = mail[t]
          /\ \A s \in DOMAIN full : s # t => reads[s] = full[s]
      BY DEF With
    <3>2. \A s \in DOMAIN reads : Classifiable(reads[s]) # {} BY <2>2, <3>1 DEF SomeCount
    <3> QED BY <2>2, <3>2 DEF SomeCount
  <2> QED BY <1>3, <2>1, <2>2 DEF ReadFull
<1>4. CASE Screen
  <2>1. UNCHANGED full
    BY <1>4 DEF Screen, Start, ReadMetadata, SearchChunk, ReadPage, EndChunkSearch, SearchOwn,
                EndOwnSearch, Screened
  <2> QED BY <1>1, <2>1
<1>5. CASE Process
  <2>1. CASE \E t \in Threads : ReadFull(t) BY <1>3, <2>1
  <2>2. CASE Send \/ \E t \in Threads : ReadThrows(t)
    BY <1>1, <2>2 DEF Send, ReadThrows, chunkVars
  <2>3. CASE Settle \/ Fail \/ StopReading
    BY <1>2, <2>3 DEF Settle, Fail, StopReading, ForgetChunk
  <2> QED BY <1>5, <2>1, <2>2, <2>3 DEF Process
<1>6. CASE User BY <1>1, <1>6 DEF User, Arrive, Trash, Delete, Enqueue, chunkVars
<1>7. CASE UNCHANGED vars BY <1>1, <1>7 DEF vars, chunkVars
<1> QED BY <1>4, <1>5, <1>6, <1>7 DEF Next

LEMMA SomeCountFits == TypeOK /\ SomeCount => RequestsAreFitted
<1> SUFFICES ASSUME TypeOK, SomeCount, NEW t \in DOMAIN full
             PROVE  /\ WithinLimits(Sent[t]) \/ IsBare(Sent[t])
                    /\ Sent[t] = FirstThatFits(BuildState(full[t]))
  BY DEF RequestsAreFitted
<1>1. full[t] \in Seq(Messages) BY DEF TypeOK
<1>2. Classifiable(full[t]) # {} BY DEF SomeCount
<1>3. Sent[t] = ThreadToState(full[t]) BY DEF Sent
<1>4. /\ ThreadToState(full[t]) = FirstThatFits(BuildState(full[t]))
      /\ WithinLimits(ThreadToState(full[t])) \/ IsBare(ThreadToState(full[t]))
  BY <1>1, <1>2, SentIsFitted
<1> QED BY <1>3, <1>4

\* Every request is within both of Jev's limits or has nothing left to cut, and is what
\* cutting the smallest piece of the oldest content, again and again, leaves: for any
\* limits, margins and questions, and messages of any length.
THEOREM RequestsFit == Spec => []RequestsAreFitted
<1>1. Init => TypeOK /\ SomeCount
  <2>1. Init => SomeCount BY DEF Init, SomeCount
  <2> QED BY <2>1, InitType
<1>2. TypeOK /\ SomeCount /\ [Next]_vars => (TypeOK /\ SomeCount)'
  BY NextKeepsType, NextKeepsSomeCount
<1> QED BY <1>1, <1>2, SomeCountFits, PTL DEF Spec
=============================================================================
