-------------------------- MODULE ScheduledRunProofs --------------------------
(***************************************************************************)
(* Proofs about ScheduledRun and MoveHistory, for every mailbox, cap,      *)
(* chunk and page size and any number of records and faults.               *)
(*                                                                         *)
(* NoMailLost speaks of the stored queue and the stored position only, and *)
(* is not inductive: a save replaces the stored queue by the one in memory *)
(* and an advance replaces the stored position, so the invariant has to    *)
(* say what the run's own copies cover (QueueCovers), that the position it *)
(* is about to save is one it has handled (PositionsInOrder), and that a   *)
(* thread it may drop was read after everything the position stands for    *)
(* (ReadsAreRecent).                                                       *)
(*                                                                         *)
(* What a chunk may do to a thread rests on ChunkInv: which threads the    *)
(* run still holds, and what it knows of each.  That a handled thread      *)
(* never moves again rests on MoveInv: each item queued for it, stored or  *)
(* in memory, is one that no later read can find to be brand-new.  It is   *)
(* so from the start because a run that settles a thread has dated the     *)
(* position after the thread's mail, unless it is stuck (SettlesSeen).     *)
(***************************************************************************)
EXTENDS MoveHistory, TLAPS

Ingesting == pc \in {"list", "records", "save", "advance"}

Chunking == pc \in {"take", "screen", "read", "settle", "saveChunk"}

PositionsInOrder ==
    /\ position.historyId <= Len(history)
    /\ Ingesting => position.historyId <= handledId /\ handledId <= Len(history)
    /\ pc = "records" => /\ handledId <= pageEnd
                         /\ pageEnd <= mailboxId
                         /\ mailboxId <= Len(history)
    /\ pc \in {"save", "advance"} /\ stop = "none" => handledId = mailboxId

\* Every thread that the first n records ask for is in q, or settled since.
Covers(q, n) ==
    \A i \in 1..n, t \in Threads :
        t \in Wanted(history[i]) => t \in DOMAIN q \/ settledUpTo[t] >= i

QueueCovers ==
    /\ Ingesting => Covers(queue, handledId)
    /\ pc = "advance" => Covers(stored, handledId)
    /\ Chunking => Covers(queue, position.historyId)

\* What screening and settling hold belongs to the chunk being handled.
HeldByChunk ==
    /\ pc # "screen" => DOMAIN screened = {}
    /\ pc \notin {"read", "settle"} => DOMAIN built = {}

\* The threads the chunk may still drop.
Droppable == IF pc = "screen" THEN DOMAIN screened ELSE chunk \cup DOMAIN built

ReadsAreRecent ==
    pc \in {"screen", "read", "settle"} =>
        \A t \in Droppable : readUpTo[t] >= position.historyId

IInv ==
    /\ TypeOK
    /\ PositionsInOrder
    /\ NoMailLost
    /\ QueueCovers
    /\ HeldByChunk
    /\ ReadsAreRecent

-----------------------------------------------------------------------------
(* Facts about the operators.                                              *)

\* The empty queue of an idle execution is a queue, and may be stored.
LEMMA EmptyFacts == DOMAIN Empty = {} /\ IsQueue(Empty) /\ IsStored(Empty)
  BY DEF Empty, IsQueue, IsStored

\* A complete save stores the queue's threads.
LEMMA ExactlyFacts ==
    ASSUME NEW q, IsQueue(q)
    PROVE  IsStored(Exactly(q)) /\ DOMAIN Exactly(q) = DOMAIN q
  BY DEF IsQueue, IsStored, Exactly

\* Loading gives an item for every thread stored.
LEMMA LoadsFacts ==
    ASSUME NEW s, IsStored(s), NEW q \in Loads(s)
    PROVE  IsQueue(q) /\ DOMAIN q = DOMAIN s
  BY DEF IsQueue, IsStored, Loads

\* An interrupted save keeps every item that was stored and is still wanted.
LEMMA PartlySavedFacts ==
    ASSUME NEW old, NEW new, IsStored(old), IsQueue(new), NEW s \in PartlySaved(old, new)
    PROVE  IsStored(s) /\ DOMAIN old \cap DOMAIN new \subseteq DOMAIN s
<1> DEFINE both == DOMAIN old \cap DOMAIN new
           either == DOMAIN old \cup DOMAIN new
           all == UNION {Versions(old, new, t) : t \in either}
<1>1. PICK D \in SUBSET either :
        /\ both \subseteq D
        /\ s \in [D -> (SUBSET all) \ {{}}]
        /\ \A t \in D : s[t] \subseteq Versions(old, new, t)
  BY DEF PartlySaved
<1>2. \A t \in either : Versions(old, new, t) \subseteq WorkItem
  BY DEF Versions, IsStored, IsQueue
<1> QED BY <1>1, <1>2 DEF IsStored, IsQueue

\* What an interrupted save leaves of an item are versions that were around.
LEMMA PartlySavedVersions ==
    ASSUME NEW old, NEW new, NEW s \in PartlySaved(old, new), NEW t \in DOMAIN s
    PROVE  s[t] \subseteq Versions(old, new, t)
  BY DEF PartlySaved

\* What is left of the invariant to show when the run is over.
LEMMA ResetKeeps ==
    ASSUME IInv, Reset, UNCHANGED <<mailbox, settledUpTo>>, IsStored(stored'),
           position' \in [historyId : Nat, savedAt : Nat],
           position'.historyId <= Len(history),
           NoMailLost', faults' \in Nat
    PROVE  IInv'
<1>1. /\ queue' = Empty /\ screened' = Empty /\ built' = Empty /\ loadedStrikes' = Empty
      /\ taken' = {} /\ chunk' = {} /\ pc' = "idle" /\ stop' = "none"
      /\ handledId' = 0 /\ pageEnd' = 0 /\ mailboxId' = 0 /\ limited' = FALSE
  BY DEF Reset
<1>2. readUpTo' \in [Threads -> Nat]
  BY DEF Reset, NoReads
<1>3. UNCHANGED <<history, marked, gone, moved>>
  BY DEF mailbox
<1>4. TypeOK'
  BY EmptyFacts, <1>1, <1>2, <1>3 DEF IInv, TypeOK
<1>5. PositionsInOrder' /\ QueueCovers' /\ HeldByChunk' /\ ReadsAreRecent'
  BY EmptyFacts, <1>1, <1>3
     DEF PositionsInOrder, QueueCovers, HeldByChunk, ReadsAreRecent, Ingesting, Chunking
<1> QED BY <1>4, <1>5 DEF IInv

\* Ending a run forgets only what is in memory.
LEMMA EndRunKeeps == ASSUME IInv, EndRun, faults' \in Nat PROVE IInv'
<1>1. UNCHANGED <<mailbox, history, stored, position, settledUpTo>> /\ Reset
  BY DEF EndRun, mailbox, persistent
<1>2. NoMailLost'
  BY <1>1 DEF IInv, NoMailLost, Wanted
<1> QED BY <1>1, <1>2, ResetKeeps DEF IInv, TypeOK, PositionsInOrder

-----------------------------------------------------------------------------
(* The mailbox.                                                            *)

\* What has been recorded stays as it was.
LEMMA AppendKeeps ==
    ASSUME IInv, NEW r \in Record, history' = Append(history, r),
           marked' \subseteq Threads, gone' \subseteq Threads,
           UNCHANGED <<moved, persistent, runVars, settledUpTo, faults>>
    PROVE  IInv'
<1> USE DEF IInv, persistent, runVars, ingestVars, chunkVars
<1>1. /\ history' \in Seq(Record) /\ Len(history') = Len(history) + 1
      /\ \A i \in 1..Len(history) : history'[i] = history[i]
  BY DEF TypeOK
<1>2. TypeOK'
  BY <1>1 DEF TypeOK
<1>3. PositionsInOrder'
  BY <1>1 DEF PositionsInOrder, Ingesting, TypeOK
<1>4. NoMailLost'
  BY <1>1 DEF NoMailLost, PositionsInOrder, TypeOK
<1>5. QueueCovers'
  BY <1>1 DEF QueueCovers, Covers, PositionsInOrder, Ingesting, Chunking, TypeOK
<1>6. HeldByChunk' /\ ReadsAreRecent'
  BY DEF HeldByChunk, ReadsAreRecent, Droppable
<1> QED BY <1>2, <1>3, <1>4, <1>5, <1>6

\* Mail and the user change the mailbox under the run's feet.
LEMMA EnvironmentKeeps == ASSUME IInv, Environment PROVE IInv'
<1>1. ASSUME NEW S \in SUBSET Threads, ReceiveMail(S) PROVE IInv'
  <2>1. [added |-> S, unmarked |-> {}] \in Record
    BY DEF Record
  <2> QED BY <1>1, <2>1, AppendKeeps DEF ReceiveMail, IInv, TypeOK
<1>2. ASSUME NEW t \in Threads, RemoveJevError(t) PROVE IInv'
  <2>1. [added |-> {}, unmarked |-> {t} \ gone] \in Record
    BY DEF Record
  <2> QED BY <1>2, <2>1, AppendKeeps DEF RemoveJevError, IInv, TypeOK
<1>3. ASSUME NEW t \in Threads, DeleteThread(t) PROVE IInv'
  <2> USE <1>3 DEF IInv, DeleteThread, persistent, runVars, ingestVars, chunkVars
  <2>1. TypeOK'
    BY DEF TypeOK
  <2>2. PositionsInOrder' /\ HeldByChunk' /\ ReadsAreRecent'
    BY DEF PositionsInOrder, Ingesting, HeldByChunk, ReadsAreRecent, Droppable
  <2>3. NoMailLost' /\ QueueCovers'
    BY DEF NoMailLost, QueueCovers, Covers, Ingesting, Chunking
  <2> QED BY <2>1, <2>2, <2>3
<1> QED BY <1>1, <1>2, <1>3 DEF Environment

-----------------------------------------------------------------------------
(* Ingest.                                                                 *)

\* A run starts from the stored queue, which covers the stored position.
LEMMA StartRunKeeps == ASSUME IInv, StartRun PROVE IInv'
<1> USE DEF IInv, StartRun, mailbox, persistent, chunkVars
<1>1. IsQueue(queue') /\ DOMAIN queue' = DOMAIN stored
  BY LoadsFacts DEF TypeOK
<1>2. TypeOK'
  BY <1>1 DEF TypeOK, IsQueue, WorkItem
<1>3. PositionsInOrder'
  BY DEF PositionsInOrder, Ingesting, TypeOK
<1>4. NoMailLost' /\ QueueCovers'
  BY <1>1 DEF NoMailLost, QueueCovers, Covers, Ingesting, Chunking
<1>5. HeldByChunk' /\ ReadsAreRecent'
  BY DEF HeldByChunk, ReadsAreRecent
<1> QED BY <1>2, <1>3, <1>4, <1>5

\* Listing a page learns how far history reaches, and handles nothing.
LEMMA ListHistoryKeeps == ASSUME IInv, ListHistory PROVE IInv'
<1> USE DEF IInv, ListHistory, mailbox, persistent, chunkVars
<1>1. TypeOK'
  BY RunAssumption DEF TypeOK
<1>2. PositionsInOrder'
  BY RunAssumption DEF PositionsInOrder, Ingesting, TypeOK
<1>3. NoMailLost' /\ QueueCovers'
  BY DEF NoMailLost, QueueCovers, Covers, Ingesting, Chunking
<1>4. HeldByChunk' /\ ReadsAreRecent'
  BY DEF HeldByChunk, ReadsAreRecent
<1> QED BY <1>1, <1>2, <1>3, <1>4

\* Stopping before a page keeps what the pages before it queued.
LEMMA StopIngestKeeps == ASSUME IInv, StopIngest PROVE IInv'
<1> USE DEF IInv, StopIngest, mailbox, persistent, chunkVars, ingestVars
<1>1. TypeOK'
  BY DEF TypeOK, Fault
<1>2. PositionsInOrder'
  BY DEF PositionsInOrder, Ingesting
<1>3. NoMailLost' /\ QueueCovers'
  BY DEF NoMailLost, QueueCovers, Covers, Ingesting, Chunking
<1>4. HeldByChunk' /\ ReadsAreRecent'
  BY DEF HeldByChunk, ReadsAreRecent
<1> QED BY <1>1, <1>2, <1>3, <1>4

\* With the last page handled, the run has handled all it was told of.
LEMMA FinishPageKeeps == ASSUME IInv, FinishPage PROVE IInv'
<1> USE DEF IInv, FinishPage, mailbox, persistent, chunkVars, ingestVars
<1>1. TypeOK'
  BY DEF TypeOK
<1>2. PositionsInOrder'
  BY DEF PositionsInOrder, Ingesting
<1>3. NoMailLost' /\ QueueCovers'
  BY DEF NoMailLost, QueueCovers, Covers, Ingesting, Chunking
<1>4. HeldByChunk' /\ ReadsAreRecent'
  BY DEF HeldByChunk, ReadsAreRecent
<1> QED BY <1>1, <1>2, <1>3, <1>4

\* The queue saved covers what the run has handled, so it covers the position.
LEMMA SaveIngestedKeeps == ASSUME IInv, SaveIngested PROVE IInv'
<1> USE DEF IInv, SaveIngested, mailbox, chunkVars, ingestVars
<1>1. IsStored(stored') /\ DOMAIN stored' = DOMAIN queue
  BY ExactlyFacts, LoadsFacts DEF TypeOK
<1>2. TypeOK'
  BY <1>1 DEF TypeOK
<1>3. PositionsInOrder'
  BY DEF PositionsInOrder, Ingesting
<1>4. NoMailLost' /\ QueueCovers'
  BY <1>1 DEF NoMailLost, QueueCovers, Covers, Ingesting, Chunking, PositionsInOrder, TypeOK
<1>5. HeldByChunk' /\ ReadsAreRecent'
  BY DEF HeldByChunk, ReadsAreRecent
<1> QED BY <1>2, <1>3, <1>4, <1>5

\* Whether or not ingest stopped early, the position moves to what is handled.
LEMMA AdvancePositionKeeps == ASSUME IInv, AdvancePosition PROVE IInv'
<1> USE DEF IInv, AdvancePosition, mailbox, chunkVars, ingestVars
<1>1. ReachedId = handledId
  BY DEF ReachedId, PositionsInOrder
<1>2. /\ position' \in [historyId : Nat, savedAt : Nat]
      /\ position'.historyId = handledId /\ handledId \in Nat /\ handledId <= Len(history)
  BY <1>1 DEF TypeOK, PositionsInOrder, Ingesting, Now
<1>3. NoMailLost'
  BY <1>2 DEF NoMailLost, QueueCovers, Covers
<1>4. CASE Reset
  BY <1>2, <1>3, <1>4, ResetKeeps DEF TypeOK
<1>5. CASE ~Reset
  <2>1. TypeOK'
    BY <1>2, <1>5 DEF TypeOK
  <2>2. PositionsInOrder'
    BY <1>2, <1>5 DEF PositionsInOrder, Ingesting
  <2>3. QueueCovers'
    BY <1>2, <1>5 DEF QueueCovers, Covers, Ingesting, Chunking
  <2>4. HeldByChunk' /\ ReadsAreRecent'
    BY <1>5 DEF HeldByChunk, ReadsAreRecent
  <2> QED BY <1>3, <2>1, <2>2, <2>3, <2>4
<1> QED BY <1>4, <1>5

\* Queuing one thread, new or merged, gives a well-formed item.
LEMMA EnqueuedItem ==
    ASSUME NEW q, IsQueue(q), NEW t \in Threads, NEW request \in EnqueueRequest
    PROVE  Enqueued(q, t, request)[t] \in WorkItem
<1>1. CASE t \in DOMAIN q
  <2>1. Enqueued(q, t, request)[t] = MergedItem(q[t], request)
    BY <1>1 DEF Enqueued
  <2>2. MergedItem(q[t], request) \in WorkItem
    BY <1>1, QueueBoundsAssumption
       DEF IsQueue, MergedItem, WorkItem, EnqueueRequest, Sources, Verdicts,
           Timestamps, OptionalTimestamps, NoTime
  <2> QED BY <2>1, <2>2
<1>2. CASE t \notin DOMAIN q
  <2>1. Enqueued(q, t, request)[t] = NewItem(request)
    BY <1>2 DEF Enqueued
  <2>2. NewItem(request) \in WorkItem
    BY QueueBoundsAssumption DEF NewItem, WorkItem, EnqueueRequest
  <2> QED BY <2>1, <2>2
<1> QED BY <1>1, <1>2

\* Queuing the threads of S adds S to the queue and loses nothing.
LEMMA EnqueuedAllFacts ==
    ASSUME NEW q, IsQueue(q), NEW S \in SUBSET Threads, NEW request \in EnqueueRequest
    PROVE  /\ IsQueue(EnqueuedAll(q, S, request))
           /\ DOMAIN EnqueuedAll(q, S, request) = DOMAIN q \cup S
<1>1. \A t \in S : Enqueued(q, t, request)[t] \in WorkItem
  BY EnqueuedItem
<1> QED BY <1>1 DEF IsQueue, EnqueuedAll

\* The two requests of ingest are well-formed.
LEMMA RequestTypes ==
    ASSUME TypeOK PROVE NewMailRequest \in EnqueueRequest /\ RetryRequest \in EnqueueRequest
  BY DEF TypeOK, NewMailRequest, RetryRequest, EnqueueRequest, Sources, Verdicts, Timestamps,
         OptionalTimestamps, NoTime, Now

\* A record counts as handled only when every thread it asks for is queued.
LEMMA IngestRecordKeeps == ASSUME IInv, IngestRecord PROVE IInv'
<1> DEFINE record == history[handledId + 1]
<1> USE DEF IInv, mailbox, persistent, chunkVars
<1>1. /\ pc = "records" /\ handledId < pageEnd /\ handledId \in Nat
      /\ position.historyId <= handledId /\ handledId + 1 <= Len(history)
      /\ record \in Record /\ record = history[handledId + 1]
  BY DEF IngestRecord, PositionsInOrder, Ingesting, TypeOK
<1> HIDE DEF record
<1>2. PICK P \in SUBSET record.added, R \in SUBSET record.unmarked :
        /\ queue' = EnqueuedAll(EnqueuedAll(queue, P, NewMailRequest), R, RetryRequest)
        /\ IF P = record.added /\ R = record.unmarked
           THEN handledId' = handledId + 1 /\ UNCHANGED <<pc, stop>>
           ELSE pc' = "save" /\ stop' = "cap" /\ UNCHANGED handledId
        /\ loadedStrikes' = [t \in DOMAIN loadedStrikes |->
                               IF t \in R THEN 0 ELSE loadedStrikes[t]]
  BY <1>1 DEF IngestRecord
<1>3. UNCHANGED <<mailbox, persistent, pageEnd, mailboxId, taken, chunkVars,
                  limited, readUpTo, settledUpTo, faults>>
  BY DEF IngestRecord
<1>4. P \in SUBSET Threads /\ R \in SUBSET Threads
  BY <1>1 DEF Record
<1>5. IsQueue(queue') /\ DOMAIN queue' = DOMAIN queue \cup P \cup R
  <2> DEFINE mail == EnqueuedAll(queue, P, NewMailRequest)
  <2>1. IsQueue(queue) /\ NewMailRequest \in EnqueueRequest /\ RetryRequest \in EnqueueRequest
    BY RequestTypes DEF TypeOK
  <2>2. IsQueue(mail) /\ DOMAIN mail = DOMAIN queue \cup P
    BY <1>4, <2>1, EnqueuedAllFacts
  <2> HIDE DEF mail
  <2>3. /\ IsQueue(EnqueuedAll(mail, R, RetryRequest))
        /\ DOMAIN EnqueuedAll(mail, R, RetryRequest) = DOMAIN mail \cup R
    BY <1>4, <2>1, <2>2, EnqueuedAllFacts
  <2> QED BY <1>2, <2>2, <2>3 DEF mail
<1>6. handledId' \in Nat /\ pc' \in {"records", "save"} /\ stop' \in {stop, "cap"}
  BY <1>1, <1>2
<1>7. TypeOK'
  <2>1. /\ DOMAIN loadedStrikes' \subseteq Threads
        /\ \A t \in DOMAIN loadedStrikes' : loadedStrikes'[t] \in 0..MaxStoredStrikes
    BY <1>2, QueueBoundsAssumption DEF TypeOK
  <2> QED BY <1>3, <1>5, <1>6, <2>1 DEF TypeOK
<1>8. PositionsInOrder'
  BY <1>1, <1>2, <1>3 DEF PositionsInOrder, Ingesting, TypeOK
<1>9. NoMailLost'
  BY <1>3 DEF NoMailLost
<1>10. QueueCovers'
  <2>1. Covers(queue', handledId)
    BY <1>1, <1>5 DEF QueueCovers, Covers, Ingesting
  <2>2. CASE P = record.added /\ R = record.unmarked
    <3>1. pc' = "records" /\ handledId' = handledId + 1
      BY <1>1, <1>2, <2>2
    <3>2. \A t \in Wanted(history[handledId + 1]) : t \in DOMAIN queue'
      BY <1>1, <1>5, <2>2 DEF Wanted
    <3>3. Covers(queue', handledId + 1)
      <4>1. \A i \in 1..(handledId + 1) : i \in 1..handledId \/ i = handledId + 1
        BY <1>1
      <4> QED BY <2>1, <3>2, <4>1 DEF Covers
    <3> QED BY <1>3, <3>1, <3>3 DEF QueueCovers, Covers, Ingesting, Chunking
  <2>3. CASE ~(P = record.added /\ R = record.unmarked)
    <3>1. pc' = "save" /\ handledId' = handledId
      BY <1>2, <2>3
    <3> QED BY <1>3, <2>1, <3>1 DEF QueueCovers, Covers, Ingesting, Chunking
  <2> QED BY <2>2, <2>3
<1>11. HeldByChunk' /\ ReadsAreRecent'
  BY <1>1, <1>3, <1>6 DEF HeldByChunk, ReadsAreRecent
<1> QED BY <1>7, <1>8, <1>9, <1>10, <1>11

-----------------------------------------------------------------------------
(* The chunk loop.                                                         *)

\* Taking a chunk leaves the queue as it is.
LEMMA TakeChunkKeeps == ASSUME IInv, TakeChunk PROVE IInv'
<1> USE DEF IInv, mailbox, persistent, ingestVars
<1>1. /\ chunk' \subseteq Threads /\ taken' \subseteq Threads
  BY DEF TakeChunk, TypeOK, Chunks, IsQueue
<1>2. /\ pc = "take" /\ pc' = "screen"
      /\ UNCHANGED <<mailbox, persistent, queue, ingestVars, stop, screened, built,
                     limited, loadedStrikes, readUpTo, settledUpTo, faults>>
  BY DEF TakeChunk
<1>3. TypeOK'
  BY <1>1, <1>2 DEF TypeOK
<1>4. PositionsInOrder' /\ HeldByChunk' /\ ReadsAreRecent'
  BY <1>2 DEF PositionsInOrder, Ingesting, HeldByChunk, ReadsAreRecent, Droppable
<1>5. NoMailLost' /\ QueueCovers'
  BY <1>2 DEF NoMailLost, QueueCovers, Covers, Ingesting, Chunking
<1> QED BY <1>3, <1>4, <1>5

\* The three ways a run ends outside a save.
LEMMA RunEndsKeep ==
    ASSUME IInv, FinishRun \/ StopTaking \/ ScreenFails PROVE IInv'
<1>1. EndRun /\ faults' \in Nat
  BY DEF FinishRun, StopTaking, ScreenFails, Fault, IInv, TypeOK
<1> QED BY <1>1, EndRunKeeps

\* A thread is screened by a read made after the position was saved.
LEMMA ScreenThreadKeeps == ASSUME IInv, ScreenThread PROVE IInv'
<1> USE DEF IInv, mailbox, persistent, ingestVars
<1>1. PICK t \in Foremost(chunk) :
        /\ chunk' = chunk \ {t}
        /\ screened' = [u \in DOMAIN screened \cup {t} |->
                           IF u = t THEN Screening(t) ELSE screened[u]]
        /\ readUpTo' = [readUpTo EXCEPT ![t] = Len(history)]
  BY DEF ScreenThread
<1>2. pc = "screen"
      /\ UNCHANGED <<mailbox, persistent, pc, queue, ingestVars, stop, taken, built,
                     limited, loadedStrikes, settledUpTo, faults>>
  BY DEF ScreenThread
<1>3. t \in Threads /\ Len(history) \in Nat
  BY DEF Foremost, TypeOK
<1>4. TypeOK'
  <2>1. Screening(t) \in {"skip", "first", "notFirst"}
    BY DEF Screening
  <2> QED BY <1>1, <1>2, <1>3, <2>1 DEF TypeOK
<1>5. PositionsInOrder' /\ HeldByChunk'
  BY <1>2 DEF PositionsInOrder, Ingesting, HeldByChunk
<1>6. ReadsAreRecent'
  BY <1>1, <1>2, <1>3 DEF ReadsAreRecent, Droppable, PositionsInOrder, TypeOK
<1>7. NoMailLost' /\ QueueCovers'
  BY <1>2 DEF NoMailLost, QueueCovers, Covers, Ingesting, Chunking
<1> QED BY <1>4, <1>5, <1>6, <1>7

\* What a step of the chunk may do to the queue: threads of S leave it, and
\* each of them counts as settled by its latest read.
OnlyDrops(S) ==
    /\ IsQueue(queue')
    /\ settledUpTo' \in [Threads -> Nat]
    /\ \A u \in Threads : settledUpTo'[u] >= settledUpTo[u]
    /\ \A u \in DOMAIN queue \ DOMAIN queue' : u \in S /\ settledUpTo'[u] >= readUpTo[u]

\* Settling only ever raises what a thread's settlement covers.
LEMMA SettledFacts ==
    ASSUME TypeOK, NEW S, Settled(S)
    PROVE  /\ settledUpTo' \in [Threads -> Nat]
           /\ \A u \in Threads : settledUpTo'[u] >= settledUpTo[u]
           /\ \A u \in S \cap Threads : settledUpTo'[u] >= readUpTo[u]
  BY DEF TypeOK, Settled

\* Threads leave the queue without a loss when they are settled by recent reads.
LEMMA DropsKeep ==
    ASSUME IInv, pc \in {"screen", "read", "settle"}, OnlyDrops(Droppable),
           UNCHANGED <<history, persistent>>
    PROVE  NoMailLost' /\ Covers(queue, position.historyId)'
<1> USE DEF IInv, persistent
<1>1. NoMailLost'
  BY DEF NoMailLost, OnlyDrops, TypeOK
<1>2. ASSUME NEW i \in 1..position.historyId, NEW t \in Threads, t \in Wanted(history[i])
      PROVE  t \in DOMAIN queue' \/ settledUpTo'[t] >= i
  <2>1. t \in DOMAIN queue \/ settledUpTo[t] >= i
    BY <1>2 DEF QueueCovers, Covers, Chunking
  <2>2. CASE settledUpTo[t] >= i
    BY <2>2 DEF OnlyDrops, TypeOK
  <2>3. CASE t \in DOMAIN queue \ DOMAIN queue'
    BY <2>3 DEF OnlyDrops, ReadsAreRecent, TypeOK
  <2> QED BY <2>1, <2>2, <2>3
<1>3. Covers(queue, position.historyId)'
  BY <1>2 DEF Covers
<1> QED BY <1>1, <1>3

\* What screening drops was read by this run's screening.
LEMMA FinishScreeningKeeps == ASSUME IInv, FinishScreening PROVE IInv'
<1> USE DEF IInv, mailbox, persistent, ingestVars
<1>1. PICK excluded \in SUBSET (DOMAIN screened \ SkippedThreads) :
        LET finished == SkippedThreads \cup excluded
        IN  /\ queue' = [t \in DOMAIN queue \ finished |->
                           IF t \in DOMAIN screened
                           THEN Decided(queue, t, screened[t])[t] ELSE queue[t]]
            /\ Settled(finished)
            /\ chunk' = DOMAIN screened \ finished
  BY DEF FinishScreening
<1> DEFINE finished == SkippedThreads \cup excluded
<1>2. /\ pc = "screen" /\ pc' = "read" /\ screened' = Empty
      /\ UNCHANGED <<mailbox, persistent, ingestVars, stop, taken, built,
                     limited, loadedStrikes, readUpTo, faults>>
  BY DEF FinishScreening
<1>3. finished \subseteq DOMAIN screened /\ chunk' \subseteq DOMAIN screened
  BY <1>1 DEF SkippedThreads
<1>4. IsQueue(queue')
  <2>1. ASSUME NEW t \in DOMAIN queue \ finished, t \in DOMAIN screened
        PROVE  Decided(queue, t, screened[t])[t] \in WorkItem
    <3>1. screened[t] \in Verdicts /\ queue[t] \in WorkItem
      BY <2>1 DEF TypeOK, IsQueue, SkippedThreads, Verdicts
    <3>2. [queue[t] EXCEPT !.firstClassification = screened[t]] \in WorkItem
      BY <3>1 DEF WorkItem
    <3>3. Decided(queue, t, screened[t])[t]
            \in {queue[t], [queue[t] EXCEPT !.firstClassification = screened[t]]}
      BY <2>1 DEF Decided
    <3> QED BY <3>1, <3>2, <3>3
  <2>2. \A t \in DOMAIN queue : t \in Threads /\ queue[t] \in WorkItem
    BY DEF TypeOK, IsQueue
  <2> QED BY <1>1, <2>1, <2>2 DEF IsQueue
<1>5. OnlyDrops(Droppable)
  <2>1. Settled(finished) /\ DOMAIN queue' = DOMAIN queue \ finished
    BY <1>1
  <2> QED BY <1>2, <1>3, <1>4, <2>1, SettledFacts DEF OnlyDrops, Droppable, TypeOK
<1>6. TypeOK'
  BY <1>2, <1>3, <1>4, <1>5, EmptyFacts DEF TypeOK, OnlyDrops
<1>7. NoMailLost' /\ QueueCovers'
  BY <1>2, <1>5, DropsKeep DEF QueueCovers, Ingesting
<1>8. PositionsInOrder' /\ HeldByChunk'
  BY <1>2, EmptyFacts DEF PositionsInOrder, Ingesting, HeldByChunk
<1>9. ReadsAreRecent'
  BY <1>2, <1>3 DEF ReadsAreRecent, Droppable, HeldByChunk
<1> QED BY <1>6, <1>7, <1>8, <1>9

\* One thread that leaves, settled, is such a drop.
LEMMA WithoutDrops ==
    ASSUME TypeOK, NEW t \in Threads, queue' = Without(queue, {t}), Settled({t})
    PROVE  OnlyDrops({t})
<1>1. IsQueue(queue') /\ DOMAIN queue \ DOMAIN queue' \subseteq {t}
  BY DEF TypeOK, IsQueue, Without
<1> QED BY <1>1, SettledFacts DEF OnlyDrops, TypeOK, IsQueue

\* So is no thread at all.
LEMMA SameQueueDrops ==
    ASSUME TypeOK, NEW S, UNCHANGED <<queue, settledUpTo>> PROVE OnlyDrops(S)
  BY DEF TypeOK, OnlyDrops

\* A failure leaves the thread queued, or drops it as settled.
LEMMA StrikeOrErrorFacts ==
    ASSUME TypeOK, NEW t \in Threads, NEW cause, NEW limit \in BOOLEAN,
           StrikeOrError(t, cause, limit)
    PROVE  /\ OnlyDrops({t})
           /\ marked' \subseteq Threads /\ limited' \in BOOLEAN /\ faults' \in Nat
<1>1. CASE cause = "strike" /\ queue[t].strikes < MaxStoredStrikes
  <2>1. /\ queue' = Struck(queue, t)
        /\ UNCHANGED <<marked, limited, settledUpTo, faults>>
    BY <1>1 DEF StrikeOrError
  <2>2. queue' = [queue EXCEPT ![t].strikes = @ + 1]
    BY <1>1, <2>1 DEF Struck
  <2>3. ASSUME t \in DOMAIN queue
        PROVE  [queue[t] EXCEPT !.strikes = @ + 1] \in WorkItem
    <3>1. queue[t] \in WorkItem
      BY <2>3 DEF TypeOK, IsQueue
    <3>2. queue[t].strikes + 1 \in 0..MaxStoredStrikes
      BY <1>1, <3>1, QueueBoundsAssumption DEF WorkItem
    <3> QED BY <3>1, <3>2 DEF WorkItem
  <2>4. IsQueue(queue') /\ DOMAIN queue' = DOMAIN queue
    BY <2>2, <2>3 DEF TypeOK, IsQueue
  <2> QED BY <2>1, <2>4 DEF TypeOK, OnlyDrops
<1>2. CASE JevErrorAdded(t)
  BY <1>2, WithoutDrops DEF JevErrorAdded, TypeOK
<1>3. CASE JevErrorRefused(limit)
  BY <1>3, SameQueueDrops DEF JevErrorRefused, Fault, TypeOK
<1> QED BY <1>1, <1>2, <1>3 DEF StrikeOrError

\* Reading a thread renews its read, drops it, or strikes it.
LEMMA ReadNextKeeps == ASSUME IInv, ReadNext PROVE IInv'
<1> USE DEF IInv, persistent, ingestVars
<1>1. PICK t \in Foremost(chunk) :
        chunk' = chunk \ {t} /\ (ReadThread(t) \/ ReadMissing(t) \/ ReadThrows(t))
  BY DEF ReadNext
<1>2. pc = "read"
      /\ UNCHANGED <<history, gone, moved, persistent, pc, ingestVars, stop, taken,
                     screened, loadedStrikes>>
  BY DEF ReadNext
<1>3. t \in Threads /\ t \in chunk /\ Len(history) \in Nat
  BY DEF Foremost, TypeOK
<1>4. /\ OnlyDrops({t})
      /\ marked' \subseteq Threads /\ limited' \in BOOLEAN /\ faults' \in Nat
  <2>1. CASE ReadThread(t)
    BY <2>1, SameQueueDrops DEF ReadThread, TypeOK
  <2>2. CASE ReadMissing(t)
    BY <2>2, <1>3, WithoutDrops DEF ReadMissing, TypeOK
  <2>3. CASE ReadThrows(t)
    BY <2>3, <1>3, StrikeOrErrorFacts DEF ReadThrows
  <2> QED BY <1>1, <2>1, <2>2, <2>3
<1>5. \/ /\ built' = [u \in DOMAIN built \cup {t} |-> "unsent"]
         /\ readUpTo' = [readUpTo EXCEPT ![t] = Len(history)]
      \/ UNCHANGED <<built, readUpTo>>
  BY <1>1 DEF ReadThread, ReadMissing, ReadThrows
<1>6. TypeOK'
  <2>1. /\ DOMAIN built' \subseteq Threads /\ readUpTo' \in [Threads -> Nat]
        /\ \A u \in DOMAIN built' : built'[u] \in Answers \cup {"unsent"}
    BY <1>3, <1>5 DEF TypeOK
  <2> QED BY <1>1, <1>2, <1>4, <2>1 DEF TypeOK, OnlyDrops
<1>7. PositionsInOrder' /\ HeldByChunk'
  BY <1>2 DEF PositionsInOrder, Ingesting, HeldByChunk
<1>8. NoMailLost' /\ QueueCovers'
  <2>1. OnlyDrops(Droppable)
    BY <1>2, <1>3, <1>4 DEF OnlyDrops, Droppable
  <2> QED BY <1>2, <2>1, DropsKeep DEF QueueCovers, Ingesting
<1>9. ReadsAreRecent'
  BY <1>1, <1>2, <1>3, <1>5 DEF ReadsAreRecent, Droppable, PositionsInOrder, TypeOK
<1> QED BY <1>6, <1>7, <1>8, <1>9

\* A refused read gives up the chunk and keeps its threads queued.
LEMMA ReadRefusedKeeps == ASSUME IInv, ReadRefused PROVE IInv'
<1> USE EmptyFacts DEF IInv, ReadRefused, mailbox, persistent, ingestVars
<1>1. TypeOK'
  BY DEF TypeOK, Fault
<1>2. PositionsInOrder' /\ HeldByChunk' /\ ReadsAreRecent'
  BY DEF PositionsInOrder, Ingesting, HeldByChunk, ReadsAreRecent
<1>3. NoMailLost' /\ QueueCovers'
  BY DEF NoMailLost, QueueCovers, Covers, Ingesting, Chunking
<1> QED BY <1>1, <1>2, <1>3

\* Sending changes neither the queue nor what was read.
LEMMA SendRequestsKeeps == ASSUME IInv, SendRequests PROVE IInv'
<1> USE EmptyFacts DEF IInv, mailbox, persistent, ingestVars
<1>1. /\ pc = "read" /\ chunk = {}
      /\ UNCHANGED <<mailbox, persistent, queue, ingestVars, taken, screened,
                     limited, loadedStrikes, readUpTo, settledUpTo>>
  BY DEF SendRequests
<1>2. \/ /\ built' \in [DOMAIN built -> Answers]
         /\ chunk' = DOMAIN built /\ pc' = "settle"
      \/ built' = Empty /\ chunk' = chunk /\ pc' = "saveChunk"
  BY DEF SendRequests
<1>3. stop' \in {stop, "none", "sending"} /\ faults' \in Nat
  BY DEF SendRequests, Fault, TypeOK
<1>4. TypeOK'
  BY <1>1, <1>2, <1>3 DEF TypeOK
<1>5. PositionsInOrder' /\ HeldByChunk' /\ ReadsAreRecent'
  BY <1>1, <1>2 DEF PositionsInOrder, Ingesting, HeldByChunk, ReadsAreRecent, Droppable
<1>6. NoMailLost' /\ QueueCovers'
  BY <1>1, <1>2 DEF NoMailLost, QueueCovers, Covers, Ingesting, Chunking
<1> QED BY <1>4, <1>5, <1>6

\* However its answer turns out, a thread stays queued or leaves settled.
LEMMA SettleThreadFacts ==
    ASSUME TypeOK, NEW t \in Threads, NEW limit \in BOOLEAN, SettleThread(t, limit)
    PROVE  /\ OnlyDrops({t})
           /\ marked' \subseteq Threads /\ moved' \subseteq Threads
           /\ limited' \in BOOLEAN /\ faults' \in Nat
<1>1. CASE ApplyDecision(t)
  <2>1. moved' \subseteq Threads
    BY <1>1 DEF ApplyDecision, TypeOK
  <2> QED BY <1>1, <2>1, WithoutDrops DEF ApplyDecision, TypeOK
<1>2. CASE ApplyMissing(t)
  BY <1>2, WithoutDrops DEF ApplyMissing, TypeOK
<1>3. CASE ApplyRateLimited
  BY <1>3, SameQueueDrops DEF ApplyRateLimited, Fault, TypeOK
<1>4. CASE StrikeOrError(t, "strike", limit) /\ UNCHANGED moved
  BY <1>4, StrikeOrErrorFacts DEF TypeOK
<1>5. CASE StrikeOrError(t, "invalid", limit) /\ UNCHANGED moved
  BY <1>5, StrikeOrErrorFacts DEF TypeOK
<1>6. CASE UNCHANGED <<marked, moved, queue, limited, settledUpTo, faults>>
  BY <1>6, SameQueueDrops DEF TypeOK
<1> QED BY <1>1, <1>2, <1>3, <1>4, <1>5, <1>6 DEF SettleThread

\* Settling one thread of the chunk.
LEMMA SettleNextKeeps == ASSUME IInv, SettleNext PROVE IInv'
<1> USE DEF IInv, persistent, ingestVars
<1>1. PICK t \in Foremost(chunk), limit \in BOOLEAN :
        /\ SettleThread(t, limit)
        /\ chunk' = IF limit THEN {} ELSE chunk \ {t}
        /\ stop' = IF limit THEN "gmail" ELSE stop
  BY DEF SettleNext
<1>2. pc = "settle"
      /\ UNCHANGED <<history, gone, persistent, pc, ingestVars, taken, screened, built,
                     loadedStrikes, readUpTo>>
  BY DEF SettleNext
<1>3. t \in Threads /\ t \in chunk /\ chunk' \subseteq chunk
  BY <1>1 DEF Foremost, TypeOK
<1>4. /\ OnlyDrops({t})
      /\ marked' \subseteq Threads /\ moved' \subseteq Threads
      /\ limited' \in BOOLEAN /\ faults' \in Nat
  BY <1>1, <1>3, SettleThreadFacts
<1>5. TypeOK'
  BY <1>1, <1>2, <1>3, <1>4 DEF TypeOK, OnlyDrops
<1>6. PositionsInOrder' /\ HeldByChunk' /\ ReadsAreRecent'
  BY <1>2, <1>3 DEF PositionsInOrder, Ingesting, HeldByChunk, ReadsAreRecent, Droppable
<1>7. NoMailLost' /\ QueueCovers'
  <2>1. OnlyDrops(Droppable)
    BY <1>2, <1>3, <1>4 DEF OnlyDrops, Droppable
  <2> QED BY <1>2, <2>1, DropsKeep DEF QueueCovers, Ingesting
<1> QED BY <1>5, <1>6, <1>7

\* The end of settling forgets the answers.
LEMMA FinishSettlingKeeps == ASSUME IInv, FinishSettling PROVE IInv'
<1> USE EmptyFacts DEF IInv, FinishSettling, mailbox, persistent, ingestVars
<1>1. TypeOK'
  BY DEF TypeOK
<1>2. PositionsInOrder' /\ HeldByChunk' /\ ReadsAreRecent'
  BY DEF PositionsInOrder, Ingesting, HeldByChunk, ReadsAreRecent
<1>3. NoMailLost' /\ QueueCovers'
  BY DEF NoMailLost, QueueCovers, Covers, Ingesting, Chunking
<1> QED BY <1>1, <1>2, <1>3

\* The queue in memory covers the position, so the stored one may become it.
LEMMA SaveChunkKeeps == ASSUME IInv, SaveChunk PROVE IInv'
<1> USE DEF IInv, SaveChunk, mailbox, chunkVars, ingestVars
<1>1. IsStored(stored') /\ DOMAIN stored' = DOMAIN queue
  BY ExactlyFacts, LoadsFacts DEF TypeOK
<1>2. TypeOK'
  BY <1>1 DEF TypeOK
<1>3. PositionsInOrder' /\ HeldByChunk' /\ ReadsAreRecent'
  BY DEF PositionsInOrder, Ingesting, HeldByChunk, ReadsAreRecent
<1>4. NoMailLost' /\ QueueCovers'
  BY <1>1 DEF NoMailLost, QueueCovers, Covers, Ingesting, Chunking
<1> QED BY <1>2, <1>3, <1>4

-----------------------------------------------------------------------------

\* A save that stops part-way keeps what both queues hold, and each of the two
\* covers the position.
LEMMA CrashKeeps == ASSUME IInv, Crash PROVE IInv'
<1> USE DEF IInv
<1>1. UNCHANGED <<mailbox, history, position, settledUpTo>> /\ Reset /\ faults' \in Nat
  BY DEF Crash, Fault, TypeOK, mailbox
<1>2. CASE Saving
  <2>1. IsStored(stored') /\ DOMAIN stored \cap DOMAIN queue \subseteq DOMAIN stored'
    BY <1>2, PartlySavedFacts DEF Crash, TypeOK
  <2>2. Covers(queue, position.historyId)
    BY <1>2 DEF Saving, QueueCovers, Covers, Ingesting, Chunking, PositionsInOrder, TypeOK
  <2>3. NoMailLost'
    BY <1>1, <2>1, <2>2 DEF NoMailLost, Covers, Wanted
  <2> QED BY <1>1, <2>1, <2>3, ResetKeeps DEF TypeOK, PositionsInOrder
<1>3. CASE ~Saving
  <2>1. stored' = stored
    BY <1>3 DEF Crash
  <2> QED BY <1>1, <2>1, EndRunKeeps DEF EndRun, persistent
<1> QED BY <1>2, <1>3

\* A stuttering step.
LEMMA StutterKeeps == ASSUME IInv, UNCHANGED vars PROVE IInv'
<1> USE DEF IInv, vars, mailbox, persistent, runVars, ingestVars, chunkVars
<1>1. TypeOK'
  BY DEF TypeOK
<1>2. PositionsInOrder' /\ HeldByChunk' /\ ReadsAreRecent'
  BY DEF PositionsInOrder, Ingesting, HeldByChunk, ReadsAreRecent, Droppable
<1>3. NoMailLost' /\ QueueCovers'
  BY DEF NoMailLost, QueueCovers, Covers, Ingesting, Chunking
<1> QED BY <1>1, <1>2, <1>3

\* The invariant holds of the position install writes and an empty queue.
LEMMA InitIInv == Init => IInv
<1> SUFFICES ASSUME Init PROVE IInv
  OBVIOUS
<1> USE EmptyFacts DEF Init
<1>1. history \in Seq(Record)
  OBVIOUS
<1>2. readUpTo \in [Threads -> Nat] /\ settledUpTo \in [Threads -> Nat]
  BY DEF NoReads
<1>3. TypeOK
  BY <1>1, <1>2 DEF TypeOK
<1>4. PositionsInOrder /\ HeldByChunk /\ ReadsAreRecent
  BY DEF PositionsInOrder, Ingesting, HeldByChunk, ReadsAreRecent
<1>5. NoMailLost /\ QueueCovers
  BY DEF NoMailLost, QueueCovers, Covers, Ingesting, Chunking
<1> QED BY <1>3, <1>4, <1>5 DEF IInv

\* Every step of the mailbox, the user, the run and the platform keeps it.
LEMMA NextIInv == IInv /\ [Next]_vars => IInv'
<1> SUFFICES ASSUME IInv, [Next]_vars PROVE IInv'
  OBVIOUS
<1>1. CASE Environment
  BY <1>1, EnvironmentKeeps
<1>2. CASE RunStep
  BY <1>2, StartRunKeeps, ListHistoryKeeps, IngestRecordKeeps, FinishPageKeeps,
     SaveIngestedKeeps, AdvancePositionKeeps, TakeChunkKeeps, RunEndsKeep,
     ScreenThreadKeeps, FinishScreeningKeeps, ReadNextKeeps, SendRequestsKeeps,
     SettleNextKeeps, FinishSettlingKeeps, SaveChunkKeeps DEF RunStep
<1>3. CASE EarlyStop
  BY <1>3, StopIngestKeeps, RunEndsKeep, ReadRefusedKeeps DEF EarlyStop
<1>4. CASE Crash
  BY <1>4, CrashKeeps
<1>5. CASE UNCHANGED vars
  BY <1>5, StutterKeeps
<1> QED BY <1>1, <1>2, <1>3, <1>4, <1>5 DEF Next

-----------------------------------------------------------------------------
(* What the chunk loop knows of its threads.                               *)

\* The threads that the run has still to handle, in the step it is in.
Held ==
    CASE pc = "screen" -> chunk \cup DOMAIN screened
      [] pc = "read" -> chunk \cup DOMAIN built
      [] OTHER -> chunk

\* The chunk loop keeps track of its threads: each is queued, was taken in this
\* run, is read once, and is settled by an answer of its own.
ChunkIsHeld ==
    /\ pc \notin {"screen", "read", "settle"} => chunk = {}
    /\ Held \subseteq DOMAIN queue \cap taken
    /\ pc = "read" => chunk \cap DOMAIN built = {}
    /\ pc = "settle" => chunk \subseteq DOMAIN built

\* Nobody but this run adds Jev/Error, and only to a thread it is done with.
ReadsAreUnmarked ==
    /\ pc = "screen" => \A t \in DOMAIN screened : screened[t] # "skip" => t \notin marked
    /\ pc = "read" => Held \cap marked = {}

\* The strikes a thread brought into this run, less what the user took away.
BroughtStrikes(t) == IF t \in DOMAIN loadedStrikes THEN loadedStrikes[t] ELSE 0

\* A thread that the run has not failed yet has no strike of this run.
StrikesAreOld ==
    pc # "idle" =>
        \A t \in DOMAIN queue :
            t \in Held \/ t \notin taken => queue[t].strikes <= BroughtStrikes(t)

ChunkInv == ChunkIsHeld /\ ReadsAreUnmarked /\ StrikesAreOld


\* A step that changes at most the item of t.
Touches(t) ==
    /\ DOMAIN queue \ {t} \subseteq DOMAIN queue'
    /\ DOMAIN queue' \subseteq DOMAIN queue
    /\ \A u \in DOMAIN queue' \ {t} : queue'[u] = queue[u]
    /\ t \in DOMAIN queue' =>
          /\ queue'[t].applyMoves = queue[t].applyMoves
          /\ queue'[t].firstClassification = queue[t].firstClassification
          /\ queue'[t].positionSavedAt = queue[t].positionSavedAt

\* The user and other people can at most free threads of Jev/Error.
LEMMA ChunkIsUntouched ==
    ASSUME ChunkInv, marked' \subseteq marked,
           UNCHANGED <<pc, queue, taken, chunk, screened, built, loadedStrikes>>
    PROVE  ChunkInv'
  BY DEF ChunkInv, ChunkIsHeld, ReadsAreUnmarked, StrikesAreOld, Held, BroughtStrikes

\* An execution that is over holds no thread.
LEMMA ResetHoldsNothing == ASSUME Reset PROVE ChunkInv'
<1>1. pc' = "idle" /\ chunk' = {}
  BY DEF Reset
<1> QED BY <1>1 DEF ChunkInv, ChunkIsHeld, ReadsAreUnmarked, StrikesAreOld, Held

\* Steps between two chunks leave the threads of the run alone.
LEMMA BetweenChunks ==
    ASSUME ChunkInv, pc # "idle", pc \notin {"screen", "read", "settle"},
           pc' \notin {"screen", "read", "settle"},
           UNCHANGED <<queue, taken, chunk, loadedStrikes>>
    PROVE  ChunkInv'
<1>1. chunk = {} /\ Held = {} /\ Held' = {}
  BY DEF ChunkInv, ChunkIsHeld, Held
<1> QED BY <1>1
    DEF ChunkInv, ChunkIsHeld, ReadsAreUnmarked, StrikesAreOld, BroughtStrikes

\* What has been queued, merged or left of each thread.
LEMMA EnqueuedAllItems ==
    ASSUME NEW q, NEW S, NEW request, NEW t \in DOMAIN q \cup S
    PROVE  EnqueuedAll(q, S, request)[t] =
               IF t \notin S THEN q[t]
               ELSE IF t \in DOMAIN q THEN MergedItem(q[t], request) ELSE NewItem(request)
<1>1. EnqueuedAll(q, S, request)[t] =
          IF t \in S THEN Enqueued(q, t, request)[t] ELSE q[t]
  BY DEF EnqueuedAll
<1>2. Enqueued(q, t, request)[t] =
          IF t \in DOMAIN q THEN MergedItem(q[t], request) ELSE NewItem(request)
  BY DEF Enqueued
<1> QED BY <1>1, <1>2

\* The strikes a run starts with are those of the queue it loads.
LEMMA StartRunHolds == ASSUME IInv, ChunkInv, StartRun PROVE ChunkInv'
<1>1. /\ pc = "idle" /\ pc' = "list" /\ chunk = {} /\ chunk' = {}
      /\ loadedStrikes' = [t \in DOMAIN queue' |-> queue'[t].strikes]
  BY DEF StartRun, chunkVars, ChunkInv, ChunkIsHeld
<1>2. IsQueue(queue')
  BY LoadsFacts DEF StartRun, IInv, TypeOK
<1>3. \A t \in DOMAIN queue' : queue'[t].strikes <= BroughtStrikes(t)'
  BY <1>1, <1>2 DEF BroughtStrikes, IsQueue, WorkItem
<1> QED BY <1>1, <1>3 DEF ChunkInv, ChunkIsHeld, ReadsAreUnmarked, StrikesAreOld, Held

\* Mail gives a queued thread no strike, and a retry takes its strikes away.
LEMMA IngestRecordHolds == ASSUME IInv, ChunkInv, IngestRecord PROVE ChunkInv'
<1> DEFINE record == history[handledId + 1]
<1>1. PICK P \in SUBSET record.added, R \in SUBSET record.unmarked :
        /\ queue' = EnqueuedAll(EnqueuedAll(queue, P, NewMailRequest), R, RetryRequest)
        /\ loadedStrikes' = [t \in DOMAIN loadedStrikes |->
                               IF t \in R THEN 0 ELSE loadedStrikes[t]]
  BY DEF IngestRecord
<1> HIDE DEF record
<1>2. /\ pc = "records" /\ pc' \in {"records", "save"}
      /\ chunk' = chunk /\ taken' = taken
  BY DEF IngestRecord, chunkVars
<1>3. chunk = {} /\ Held' = {}
  BY <1>2 DEF ChunkInv, ChunkIsHeld, Held
<1> DEFINE mail == EnqueuedAll(queue, P, NewMailRequest)
<1>4. DOMAIN mail = DOMAIN queue \cup P
  BY DEF EnqueuedAll
<1>5. ASSUME NEW t \in DOMAIN queue \cup P, t \notin taken
      PROVE  mail[t].strikes <= BroughtStrikes(t)
  <2> DEFINE request == NewMailRequest
  <2>0. /\ ~request.resetStrikes
        /\ mail[t] = IF t \notin P THEN queue[t]
                     ELSE IF t \in DOMAIN queue THEN MergedItem(queue[t], request)
                          ELSE NewItem(request)
    BY EnqueuedAllItems DEF NewMailRequest
  <2> HIDE DEF request, mail
  <2>1. CASE t \in DOMAIN queue
    <3>1. mail[t].strikes = queue[t].strikes
      BY <2>0, <2>1 DEF MergedItem
    <3> QED BY <1>2, <1>5, <2>1, <3>1 DEF ChunkInv, StrikesAreOld
  <2>2. CASE t \notin DOMAIN queue
    <3>1. mail[t].strikes = 0
      BY <2>0, <2>2 DEF NewItem
    <3> QED BY <3>1, QueueBoundsAssumption DEF BroughtStrikes, IInv, TypeOK
  <2> QED BY <2>1, <2>2
<1> HIDE DEF mail
<1>6. queue' = EnqueuedAll(mail, R, RetryRequest) /\ DOMAIN queue' = DOMAIN mail \cup R
  BY <1>1 DEF mail, EnqueuedAll
<1>7. ASSUME NEW t \in DOMAIN queue', t \notin taken
      PROVE  queue'[t].strikes <= BroughtStrikes(t)'
  <2>1. CASE t \in R
    <3> DEFINE request == RetryRequest
    <3>0. /\ request.resetStrikes
          /\ queue'[t] = IF t \in DOMAIN mail THEN MergedItem(mail[t], request)
                         ELSE NewItem(request)
      BY <1>6, <2>1, EnqueuedAllItems DEF RetryRequest
    <3> HIDE DEF request
    <3>1. queue'[t].strikes = 0
      BY <3>0 DEF MergedItem, NewItem
    <3>2. BroughtStrikes(t)' \in Nat
      BY <1>1, <2>1 DEF BroughtStrikes
    <3> QED BY <3>1, <3>2
  <2>2. CASE t \notin R
    <3>1. queue'[t] = mail[t]
      BY <1>6, <2>2, EnqueuedAllItems
    <3>2. BroughtStrikes(t)' = BroughtStrikes(t)
      BY <1>1, <2>2 DEF BroughtStrikes
    <3> QED BY <1>4, <1>5, <1>6, <1>7, <2>2, <3>1, <3>2
  <2> QED BY <2>1, <2>2
<1> QED BY <1>2, <1>3, <1>7 DEF ChunkInv, ChunkIsHeld, ReadsAreUnmarked, StrikesAreOld

\* A run takes only threads it has not taken before.
LEMMA TakeChunkHolds == ASSUME IInv, ChunkInv, TakeChunk PROVE ChunkInv'
<1>1. PICK C \in Chunks(queue, ChunkSize, taken, "scheduled") \ {{}} :
        chunk' = C /\ taken' = taken \cup C
  BY DEF TakeChunk
<1>2. /\ pc = "take" /\ pc' = "screen"
      /\ UNCHANGED <<queue, screened, built, loadedStrikes>>
  BY DEF TakeChunk
<1>3. C \subseteq DOMAIN queue \ taken /\ DOMAIN screened = {}
  BY <1>2 DEF Chunks, IInv, HeldByChunk
<1>4. Held' = C
  BY <1>1, <1>2, <1>3 DEF Held
<1>5. \A t \in DOMAIN queue : t \in C \/ t \notin taken' => t \notin taken
  BY <1>1, <1>3
<1> QED BY <1>1, <1>2, <1>3, <1>4, <1>5
    DEF ChunkInv, ChunkIsHeld, ReadsAreUnmarked, StrikesAreOld, BroughtStrikes

\* A marked thread is skipped, so what screening keeps is not marked.
LEMMA ScreenThreadHolds == ASSUME IInv, ChunkInv, ScreenThread PROVE ChunkInv'
<1>1. PICK t \in Foremost(chunk) :
        /\ chunk' = chunk \ {t}
        /\ screened' = [u \in DOMAIN screened \cup {t} |->
                           IF u = t THEN Screening(t) ELSE screened[u]]
  BY DEF ScreenThread
<1>2. /\ pc = "screen" /\ pc' = pc
      /\ UNCHANGED <<marked, queue, taken, loadedStrikes>>
  BY DEF ScreenThread, mailbox
<1>3. t \in chunk
  BY DEF Foremost
<1>4. Held' = Held
  BY <1>1, <1>2, <1>3 DEF Held
<1>5. Screening(t) # "skip" => t \notin marked
  BY DEF Screening
<1>6. ReadsAreUnmarked'
  BY <1>1, <1>2, <1>5 DEF ChunkInv, ReadsAreUnmarked
<1> QED BY <1>2, <1>4, <1>6 DEF ChunkInv, ChunkIsHeld, StrikesAreOld, BroughtStrikes

\* Screening leaves the kept threads queued, with the strikes they had.
LEMMA FinishScreeningHolds == ASSUME IInv, ChunkInv, FinishScreening PROVE ChunkInv'
<1>1. PICK excluded \in SUBSET (DOMAIN screened \ SkippedThreads) :
        LET finished == SkippedThreads \cup excluded
        IN  /\ queue' = [t \in DOMAIN queue \ finished |->
                           IF t \in DOMAIN screened
                           THEN Decided(queue, t, screened[t])[t] ELSE queue[t]]
            /\ chunk' = DOMAIN screened \ finished
  BY DEF FinishScreening
<1> DEFINE finished == SkippedThreads \cup excluded
<1>2. /\ pc = "screen" /\ pc' = "read" /\ chunk = {}
      /\ UNCHANGED <<marked, taken, built, loadedStrikes>>
  BY DEF FinishScreening, mailbox
<1>3. DOMAIN built = {} /\ DOMAIN queue' = DOMAIN queue \ finished
  BY <1>1, <1>2 DEF IInv, HeldByChunk
<1>4. Held = DOMAIN screened /\ Held' = DOMAIN screened \ finished
  BY <1>1, <1>2, <1>3 DEF Held
<1>5. Held' \cap marked' = {}
  BY <1>2, <1>4 DEF ChunkInv, ReadsAreUnmarked, SkippedThreads
<1>6. ASSUME NEW t \in DOMAIN queue' PROVE queue'[t].strikes = queue[t].strikes
  <2>1. queue[t] \in WorkItem
    BY <1>3 DEF IInv, TypeOK, IsQueue
  <2>2. Decided(queue, t, screened[t])[t].strikes = queue[t].strikes
    BY <1>3, <2>1 DEF Decided, WorkItem
  <2> QED BY <1>1, <1>3, <2>2
<1>7. ChunkIsHeld'
  BY <1>1, <1>2, <1>3, <1>4 DEF ChunkInv, ChunkIsHeld
<1> QED BY <1>2, <1>3, <1>4, <1>5, <1>6, <1>7
    DEF ChunkInv, ReadsAreUnmarked, StrikesAreOld, BroughtStrikes

\* A failure changes the item of its thread only, marks only its thread, and
\* marks it for strikes only when it has all that are stored.
LEMMA StrikeOrErrorTouches ==
    ASSUME TypeOK, NEW t \in DOMAIN queue, NEW cause, NEW limit,
           StrikeOrError(t, cause, limit)
    PROVE  /\ Touches(t)
           /\ marked' \subseteq marked \cup {t}
           /\ marked' # marked /\ cause = "strike" => queue[t].strikes = MaxStoredStrikes
           /\ t \notin DOMAIN queue' => t \in marked' \cup gone
<1>0. queue[t] \in WorkItem
  BY DEF TypeOK, IsQueue
<1>1. CASE cause = "strike" /\ queue[t].strikes < MaxStoredStrikes
  <2>1. queue' = Struck(queue, t) /\ marked' = marked
    BY <1>1 DEF StrikeOrError
  <2>2. queue' = [queue EXCEPT ![t].strikes = @ + 1]
    BY <1>1, <2>1 DEF Struck
  <2>3. queue'[t] = [queue[t] EXCEPT !.strikes = @ + 1]
    BY <2>2 DEF TypeOK, IsQueue
  <2>4. /\ queue'[t].applyMoves = queue[t].applyMoves
        /\ queue'[t].firstClassification = queue[t].firstClassification
        /\ queue'[t].positionSavedAt = queue[t].positionSavedAt
    BY <1>0, <2>3 DEF WorkItem
  <2>5. DOMAIN queue' = DOMAIN queue /\ \A u \in DOMAIN queue \ {t} : queue'[u] = queue[u]
    BY <2>2 DEF TypeOK, IsQueue
  <2> QED BY <2>1, <2>4, <2>5 DEF Touches
<1>2. CASE ~(cause = "strike" /\ queue[t].strikes < MaxStoredStrikes) /\ JevErrorAdded(t)
  <2>1. queue' = Without(queue, {t})
        /\ marked' \in {marked \cup {t}} \cup (IF t \in gone THEN {marked} ELSE {})
    BY <1>2 DEF JevErrorAdded
  <2>2. cause = "strike" => queue[t].strikes = MaxStoredStrikes
    BY <1>0, <1>2, QueueBoundsAssumption DEF WorkItem
  <2> QED BY <2>1, <2>2 DEF Touches, Without
<1>3. CASE JevErrorRefused(limit)
  BY <1>3 DEF JevErrorRefused, Touches
<1> QED BY <1>1, <1>2, <1>3 DEF StrikeOrError

\* The run is done with t: its item may change, and nothing else does.
LEMMA DoneWithOne ==
    ASSUME ChunkInv, pc \in {"read", "settle"}, pc' = pc, NEW t \in chunk, Touches(t),
           chunk' \subseteq chunk \ {t}, pc = "settle" \/ t \notin DOMAIN built,
           marked' \subseteq marked \cup {t},
           UNCHANGED <<taken, built, loadedStrikes>>
    PROVE  ChunkInv'
<1>1. t \in taken /\ t \in DOMAIN queue
  BY DEF ChunkInv, ChunkIsHeld, Held
<1>2. Held' \subseteq Held \ {t}
  BY DEF Held
<1>3. ChunkIsHeld'
  BY <1>2 DEF ChunkInv, ChunkIsHeld, Touches
<1>4. ReadsAreUnmarked'
  BY <1>2 DEF ChunkInv, ReadsAreUnmarked
<1>5. StrikesAreOld'
  BY <1>1, <1>2 DEF ChunkInv, StrikesAreOld, BroughtStrikes, Touches
<1> QED BY <1>3, <1>4, <1>5 DEF ChunkInv

\* A thread with all stored strikes, which this run has not failed yet, brought
\* them into the run.
LEMMA StruckOutFacts ==
    ASSUME IInv, ChunkInv, pc # "idle", NEW t \in Held, queue[t].strikes = MaxStoredStrikes
    PROVE  t \in DOMAIN loadedStrikes /\ loadedStrikes[t] = MaxStoredStrikes
<1>1. t \in DOMAIN queue /\ MaxStoredStrikes <= BroughtStrikes(t)
  BY DEF ChunkInv, ChunkIsHeld, StrikesAreOld
<1> QED BY <1>1, QueueBoundsAssumption DEF BroughtStrikes, IInv, TypeOK

\* The next thread of the chunk is read, or the run is done with it.
LEMMA ReadNextHolds ==
    ASSUME IInv, ChunkInv, ReadNext
    PROVE  /\ ChunkInv'
           /\ \E t \in Threads : Touches(t)
           /\ marked' \subseteq marked \cup DOMAIN queue
           /\ \A t \in marked' \ marked : t \in DOMAIN loadedStrikes
                                            /\ loadedStrikes[t] = MaxStoredStrikes
<1>1. PICK t \in Foremost(chunk) :
        chunk' = chunk \ {t} /\ (ReadThread(t) \/ ReadMissing(t) \/ ReadThrows(t))
  BY DEF ReadNext
<1>2. /\ pc = "read" /\ pc' = pc
      /\ UNCHANGED <<gone, taken, screened, loadedStrikes>>
  BY DEF ReadNext
<1>3. /\ t \in chunk /\ t \in DOMAIN queue /\ t \in Threads /\ t \notin DOMAIN built
      /\ t \in Held
  BY <1>2 DEF Foremost, ChunkInv, ChunkIsHeld, Held, IInv, TypeOK
<1>4. CASE ReadThread(t)
  <2>1. /\ DOMAIN built' = DOMAIN built \cup {t} /\ UNCHANGED <<marked, queue>>
    BY <1>4 DEF ReadThread
  <2>2. Held' = Held
    BY <1>1, <1>2, <1>3, <2>1 DEF Held
  <2>3. ChunkInv'
    BY <1>1, <1>2, <1>3, <2>1, <2>2
       DEF ChunkInv, ChunkIsHeld, ReadsAreUnmarked, StrikesAreOld, BroughtStrikes
  <2> QED BY <1>3, <2>1, <2>3 DEF Touches
<1>5. CASE ReadMissing(t)
  <2>1. Touches(t) /\ UNCHANGED <<marked, built>>
    BY <1>5 DEF ReadMissing, Touches, Without
  <2> QED BY <1>1, <1>2, <1>3, <2>1, DoneWithOne
<1>6. CASE ReadThrows(t)
  <2>1. PICK limit \in BOOLEAN : StrikeOrError(t, "strike", limit)
    BY <1>6 DEF ReadThrows
  <2>2. /\ Touches(t) /\ marked' \subseteq marked \cup {t} /\ built' = built
        /\ marked' # marked => queue[t].strikes = MaxStoredStrikes
    BY <1>3, <1>6, <2>1, StrikeOrErrorTouches DEF IInv, ReadThrows
  <2>3. ChunkInv'
    BY <1>1, <1>2, <1>3, <2>2, DoneWithOne
  <2> QED BY <1>2, <1>3, <2>2, <2>3, StruckOutFacts
<1> QED BY <1>1, <1>4, <1>5, <1>6

\* A refused read gives the chunk up.
LEMMA ReadRefusedHolds == ASSUME IInv, ChunkInv, ReadRefused PROVE ChunkInv'
<1>1. /\ pc = "read" /\ pc' = "saveChunk" /\ chunk' = {}
      /\ UNCHANGED <<queue, taken, loadedStrikes>>
  BY DEF ReadRefused
<1> QED BY <1>1
    DEF ChunkInv, ChunkIsHeld, ReadsAreUnmarked, StrikesAreOld, Held, BroughtStrikes

\* The threads to settle are those whose requests were sent.
LEMMA SendRequestsHolds == ASSUME IInv, ChunkInv, SendRequests PROVE ChunkInv'
<1>1. /\ pc = "read" /\ chunk = {}
      /\ UNCHANGED <<marked, queue, taken, loadedStrikes>>
  BY DEF SendRequests, mailbox
<1>2. \/ pc' = "settle" /\ chunk' = DOMAIN built /\ DOMAIN built' = DOMAIN built
      \/ pc' = "saveChunk" /\ chunk' = chunk
  BY DEF SendRequests
<1>3. Held = DOMAIN built /\ Held' = chunk' /\ Held' \subseteq Held
  BY <1>1, <1>2 DEF Held
<1> QED BY <1>1, <1>2, <1>3
    DEF ChunkInv, ChunkIsHeld, ReadsAreUnmarked, StrikesAreOld, BroughtStrikes

\* Settling a thread, whatever its answer.  A move needs an item that allows it,
\* and a thread that Jev failed leaves the queue only marked or gone.
LEMMA SettleThreadTouches ==
    ASSUME TypeOK, NEW t \in DOMAIN queue, NEW limit \in BOOLEAN, SettleThread(t, limit)
    PROVE  /\ Touches(t)
           /\ marked' \subseteq marked \cup {t}
           /\ marked' # marked => built[t] = "invalid" \/ queue[t].strikes = MaxStoredStrikes
           /\ \A u \in moved' \ moved : u = t /\ MovesAllowed(queue[t])
           /\ t \notin DOMAIN queue' /\ built[t] # "ok" => t \in marked' \cup gone
<1>1. CASE built[t] = "ok" /\ (ApplyDecision(t) \/ ApplyMissing(t))
  BY <1>1 DEF ApplyDecision, ApplyMissing, Touches, Without
<1>2. CASE ApplyRateLimited
  BY <1>2 DEF ApplyRateLimited, Touches
<1>3. CASE StrikeOrError(t, "strike", limit) /\ UNCHANGED moved
  BY <1>3, StrikeOrErrorTouches
<1>4. CASE built[t] = "invalid" /\ StrikeOrError(t, "invalid", limit) /\ UNCHANGED moved
  BY <1>4, StrikeOrErrorTouches
<1>5. CASE UNCHANGED <<marked, moved, queue, limited, settledUpTo, faults>>
  BY <1>5 DEF Touches
<1> QED BY <1>1, <1>2, <1>3, <1>4, <1>5 DEF SettleThread

\* The next thread of the chunk is settled.
LEMMA SettleNextHolds ==
    ASSUME IInv, ChunkInv, SettleNext
    PROVE  /\ ChunkInv'
           /\ \E t \in Threads : Touches(t)
           /\ marked' \subseteq marked \cup DOMAIN queue
           /\ \A t \in marked' \ marked :
                 \/ t \in DOMAIN built /\ built[t] = "invalid"
                 \/ t \in DOMAIN loadedStrikes /\ loadedStrikes[t] = MaxStoredStrikes
           /\ \A t \in moved' \ moved : t \in DOMAIN queue /\ MovesAllowed(queue[t])
           /\ \A t \in DOMAIN queue \ DOMAIN queue' : built[t] # "ok" => t \in marked' \cup gone
<1>1. PICK t \in Foremost(chunk), limit \in BOOLEAN :
        SettleThread(t, limit) /\ chunk' = IF limit THEN {} ELSE chunk \ {t}
  BY DEF SettleNext
<1>2. pc = "settle" /\ pc' = pc /\ UNCHANGED <<gone, taken, built, loadedStrikes>>
  BY DEF SettleNext
<1>3. /\ t \in chunk /\ t \in DOMAIN queue /\ t \in Threads /\ t \in DOMAIN built
      /\ t \in Held
  BY <1>2 DEF Foremost, ChunkInv, ChunkIsHeld, Held, IInv, TypeOK
<1>4. /\ Touches(t)
      /\ marked' \subseteq marked \cup {t}
      /\ marked' # marked => built[t] = "invalid" \/ queue[t].strikes = MaxStoredStrikes
      /\ \A u \in moved' \ moved : u = t /\ MovesAllowed(queue[t])
      /\ t \notin DOMAIN queue' /\ built[t] # "ok" => t \in marked' \cup gone
  BY <1>1, <1>3, SettleThreadTouches DEF IInv
<1>5. ChunkInv'
  BY <1>1, <1>2, <1>3, <1>4, DoneWithOne
<1>6. \A u \in marked' \ marked :
         \/ u \in DOMAIN built /\ built[u] = "invalid"
         \/ u \in DOMAIN loadedStrikes /\ loadedStrikes[u] = MaxStoredStrikes
  BY <1>2, <1>3, <1>4, StruckOutFacts
<1>7. \A u \in DOMAIN queue \ DOMAIN queue' : u = t
  BY <1>4 DEF Touches
<1> QED BY <1>3, <1>4, <1>5, <1>6, <1>7

\* With every thread settled, none is held.
LEMMA FinishSettlingHolds == ASSUME IInv, ChunkInv, FinishSettling PROVE ChunkInv'
<1>1. /\ pc = "settle" /\ pc' = "saveChunk" /\ chunk = {} /\ chunk' = {}
      /\ UNCHANGED <<queue, taken, loadedStrikes>>
  BY DEF FinishSettling
<1>2. Held = {} /\ Held' = {}
  BY <1>1 DEF Held
<1> QED BY <1>1, <1>2
    DEF ChunkInv, ChunkIsHeld, ReadsAreUnmarked, StrikesAreOld, BroughtStrikes

\* Every step keeps track of the threads of the chunk.
LEMMA NextChunkInv == ASSUME IInv, ChunkInv, [Next]_vars PROVE ChunkInv'
<1>1. CASE Environment
  <2>1. /\ marked' \subseteq marked
        /\ UNCHANGED <<pc, queue, taken, chunk, screened, built, loadedStrikes>>
    BY <1>1 DEF Environment, ReceiveMail, RemoveJevError, DeleteThread, runVars, chunkVars
  <2> QED BY <2>1, ChunkIsUntouched
<1>2. CASE ListHistory \/ StopIngest \/ FinishPage \/ SaveIngested \/ SaveChunk
  <2>1. /\ pc # "idle" /\ pc \notin {"screen", "read", "settle"}
        /\ pc' \notin {"screen", "read", "settle"}
        /\ UNCHANGED <<queue, taken, chunk, loadedStrikes>>
    BY <1>2 DEF ListHistory, StopIngest, FinishPage, SaveIngested, SaveChunk, chunkVars
  <2> QED BY <2>1, BetweenChunks
<1>3. CASE AdvancePosition
  <2>1. CASE Reset
    BY <2>1, ResetHoldsNothing
  <2>2. CASE ~Reset
    <3>1. /\ pc = "advance" /\ pc' = "take"
          /\ UNCHANGED <<queue, taken, chunk, loadedStrikes>>
      BY <1>3, <2>2 DEF AdvancePosition, chunkVars
    <3> QED BY <3>1, BetweenChunks
  <2> QED BY <2>1, <2>2
<1>4. CASE FinishRun \/ StopTaking \/ ScreenFails \/ Crash
  <2>1. Reset
    BY <1>4 DEF FinishRun, StopTaking, ScreenFails, Crash, EndRun
  <2> QED BY <2>1, ResetHoldsNothing
<1>5. CASE UNCHANGED vars
  BY <1>5, ChunkIsUntouched DEF vars, mailbox, runVars, chunkVars
<1> QED BY <1>1, <1>2, <1>3, <1>4, <1>5, StartRunHolds, IngestRecordHolds, TakeChunkHolds,
       ScreenThreadHolds, FinishScreeningHolds, ReadNextHolds, ReadRefusedHolds,
       SendRequestsHolds, SettleNextHolds, FinishSettlingHolds
    DEF Next, RunStep, EarlyStop

\* Only a step that reads or settles marks a thread.
LEMMA MarksAreEarned ==
    ASSUME IInv, ChunkInv, [Next]_vars
    PROVE  \A t \in marked' \ marked :
              \/ t \in DOMAIN built /\ built[t] = "invalid"
              \/ t \in DOMAIN loadedStrikes /\ loadedStrikes[t] = MaxStoredStrikes
<1>1. ReadNext \/ SettleNext \/ marked' \subseteq marked
  BY DEF Next, Environment, RunStep, EarlyStop, vars, mailbox, EndRun,
         ReceiveMail, RemoveJevError, DeleteThread,
         StartRun, ListHistory, IngestRecord, FinishPage, SaveIngested, AdvancePosition,
         TakeChunk, FinishRun, ScreenThread, FinishScreening, SendRequests,
         FinishSettling, SaveChunk, StopIngest, StopTaking, ScreenFails, ReadRefused, Crash
<1> QED BY <1>1, ReadNextHolds, SettleNextHolds

\* While a chunk is settled, only settling takes a thread off the queue.
LEMMA FailuresLeaveMarked ==
    ASSUME IInv, ChunkInv, [Next]_vars, pc = "settle", pc' = "settle",
           NEW t \in DOMAIN queue \ DOMAIN queue', built[t] # "ok"
    PROVE  t \in marked' \cup gone
<1>1. SettleNext \/ queue' = queue
  BY DEF Next, Environment, RunStep, EarlyStop, vars, runVars, EndRun, Reset,
         ReceiveMail, RemoveJevError, DeleteThread,
         StartRun, ListHistory, IngestRecord, FinishPage, SaveIngested, AdvancePosition,
         TakeChunk, FinishRun, ScreenThread, FinishScreening, ReadNext, SendRequests,
         FinishSettling, SaveChunk, StopIngest, StopTaking, ScreenFails, ReadRefused, Crash
<1> QED BY <1>1, SettleNextHolds

-----------------------------------------------------------------------------
(* What is known of the threads a run has handled.                         *)

\* A queued thread that no later read can find to be brand-new.
StaysPut(t, item) ==
    /\ ~item.applyMoves
    /\ item.firstClassification # "first"
    /\ item.firstClassification = "unset" =>
          \/ item.positionSavedAt = NoTime
          \/ ~IsFirstClassification(t, item.positionSavedAt)

\* A thread with mail from before the position was saved: ingest, which dates what
\* it queues by that time, does not bring it back as brand-new.
Seen(t) == ~IsFirstClassification(t, position.savedAt)

\* The saved time of a position is later than the mail the position stands for.
SavedAfterMail == position.historyId < position.savedAt /\ position.savedAt <= Now

RecordedStaysPut ==
    \A t \in recorded :
        /\ Seen(t)
        /\ t \in DOMAIN stored => \A item \in stored[t] : StaysPut(t, item)
        /\ t \in DOMAIN queue => StaysPut(t, queue[t])
        /\ t \in DOMAIN screened /\ screened[t] = "first"
              => queue[t].firstClassification # "unset"

HasMail(t) == \E i \in DOMAIN history : t \in history[i].added

\* Nothing is queued, marked or freed that never had mail.
QueuedForMail ==
    /\ \A t \in DOMAIN queue \cup DOMAIN stored \cup marked : HasMail(t)
    /\ \A i \in DOMAIN history : \A t \in history[i].unmarked : HasMail(t)

\* Ingest takes nothing off the stored queue; a run that is not stuck takes off what
\* is seen, since its position moved, or had no record left to read.
SettlesSeen ==
    /\ Ingesting => DOMAIN stored \subseteq DOMAIN queue
    /\ Ingesting \/ pc = "idle" => stop # "sending"
    /\ pc \in {"records", "save", "advance"} /\ stop = "none" /\ mailboxId = position.historyId
          => \A t \in DOMAIN queue : Seen(t)
    /\ Chunking /\ ~stuck => \A t \in DOMAIN queue \cup DOMAIN stored : Seen(t)

MoveInv ==
    /\ SavedAfterMail
    /\ recorded \subseteq Threads
    /\ RecordedStaysPut
    /\ QueuedForMail
    /\ SettlesSeen

\* The mailbox's history only grows.
HistoryGrows ==
    /\ Len(history) <= Len(history')
    /\ \A i \in 1..Len(history) : history'[i] = history[i]

LEMMA NextHistoryGrows == ASSUME TypeOK, [Next]_vars PROVE HistoryGrows
<1>1. history' = history \/ \E r : history' = Append(history, r)
  BY DEF Next, Environment, RunStep, EarlyStop, vars, mailbox, EndRun,
         ReceiveMail, RemoveJevError, DeleteThread,
         StartRun, ListHistory, IngestRecord, FinishPage, SaveIngested, AdvancePosition,
         TakeChunk, FinishRun, ScreenThread, FinishScreening, ReadNext, SendRequests,
         SettleNext, FinishSettling, SaveChunk, StopIngest, StopTaking, ScreenFails,
         ReadRefused, Crash
<1> QED BY <1>1 DEF HistoryGrows, TypeOK

\* Only the end of ingest moves the position.
LEMMA NextPosition ==
    ASSUME [Next]_vars PROVE AdvancePosition \/ position' = position
  BY DEF Next, Environment, RunStep, EarlyStop, vars, persistent, EndRun,
         ReceiveMail, RemoveJevError, DeleteThread,
         StartRun, ListHistory, IngestRecord, FinishPage, SaveIngested,
         TakeChunk, FinishRun, ScreenThread, FinishScreening, ReadNext, SendRequests,
         SettleNext, FinishSettling, SaveChunk, StopIngest, StopTaking, ScreenFails,
         ReadRefused, Crash

\* A position is dated by the clock, which does not go back, and its saved time is
\* always later than the mail it stands for.
LEMMA NextSavedAfterMail ==
    ASSUME IInv, SavedAfterMail, [Next]_vars
    PROVE  SavedAfterMail' /\ position.savedAt <= position'.savedAt
<1>1. HistoryGrows
  BY NextHistoryGrows DEF IInv
<1>2. /\ history \in Seq(Record) /\ Len(history) \in Nat /\ Len(history') \in Nat
      /\ position.historyId \in Nat /\ position.savedAt \in Nat
  <2>1. IInv'
    BY NextIInv
  <2> QED BY <2>1 DEF IInv, TypeOK
<1>3. CASE AdvancePosition
  <2>1. /\ ReachedId = handledId /\ handledId \in Nat
        /\ position.historyId <= handledId /\ handledId <= Len(history)
    BY <1>3 DEF AdvancePosition, ReachedId, IInv, PositionsInOrder, Ingesting, TypeOK
  <2>2. history' = history
    BY <1>3 DEF AdvancePosition, mailbox
  <2>3. \/ position' = position
        \/ position' = [historyId |-> handledId, savedAt |-> Now]
    BY <1>3, <2>1 DEF AdvancePosition
  <2> QED BY <1>2, <2>1, <2>2, <2>3 DEF SavedAfterMail, Now
<1>4. CASE position' = position
  BY <1>1, <1>2, <1>4 DEF SavedAfterMail, HistoryGrows, Now
<1> QED BY <1>3, <1>4, NextPosition

\* Mail that arrives cannot make a thread brand-new again.
LEMMA StaysPutForGood ==
    ASSUME HistoryGrows, history \in Seq(Record), NEW t, NEW item, StaysPut(t, item)
    PROVE  StaysPut(t, item)'
  BY DEF StaysPut, IsFirstClassification, HistoryGrows

\* Nor can a later position.
LEMMA SeenStays ==
    ASSUME HistoryGrows, history \in Seq(Record),
           position.savedAt \in Nat, position'.savedAt \in Nat,
           position.savedAt <= position'.savedAt, NEW t, Seen(t)
    PROVE  Seen(t)'
  BY DEF Seen, IsFirstClassification, HistoryGrows

\* Whether a thread stays put is a matter of three fields.
LEMMA StaysPutFields ==
    ASSUME NEW t, NEW a, NEW b, StaysPut(t, a),
           b.applyMoves = a.applyMoves, b.firstClassification = a.firstClassification,
           b.positionSavedAt = a.positionSavedAt
    PROVE  StaysPut(t, b)
  BY DEF StaysPut

\* What both kinds of step below have in common.
Frame ==
    /\ IInv /\ IInv' /\ RecordedStaysPut /\ HistoryGrows
    /\ position.savedAt <= position'.savedAt

\* A step that leaves the stored queue alone, brings no new item into the queue,
\* and changes none but in its strikes.
LEMMA KeepingItems ==
    ASSUME Frame, UNCHANGED <<recorded, stored>>,
           DOMAIN screened' = {} \/ UNCHANGED <<queue, screened>>,
           \/ \E t : Touches(t)
           \/ \A t \in DOMAIN queue' : t \in DOMAIN stored /\ queue'[t] \in stored[t]
    PROVE  RecordedStaysPut'
<1> SUFFICES ASSUME NEW t \in recorded
             PROVE  /\ Seen(t)'
                    /\ t \in DOMAIN stored => \A item \in stored[t] : StaysPut(t, item)'
                    /\ t \in DOMAIN queue' => StaysPut(t, queue[t])'
                    /\ t \in DOMAIN screened' /\ screened'[t] = "first"
                          => queue'[t].firstClassification # "unset"
  BY DEF RecordedStaysPut
<1>1. /\ Seen(t)
      /\ t \in DOMAIN stored => \A item \in stored[t] : StaysPut(t, item)
      /\ t \in DOMAIN queue => StaysPut(t, queue[t])
      /\ t \in DOMAIN screened /\ screened[t] = "first"
            => queue[t].firstClassification # "unset"
  BY DEF Frame, RecordedStaysPut
<1>2. history \in Seq(Record) /\ position.savedAt \in Nat /\ position'.savedAt \in Nat
  BY DEF Frame, IInv, TypeOK
<1>3. Seen(t)'
  BY <1>1, <1>2, SeenStays DEF Frame
<1>4. ASSUME t \in DOMAIN stored, NEW item \in stored[t] PROVE StaysPut(t, item)'
  BY <1>1, <1>2, <1>4, StaysPutForGood DEF Frame
<1>5. ASSUME t \in DOMAIN queue' PROVE StaysPut(t, queue[t])'
  <2>1. PICK item : item = queue'[t]
    OBVIOUS
  <2>2. StaysPut(t, item)
    <3>1. CASE t \in DOMAIN stored /\ queue'[t] \in stored[t]
      BY <1>1, <2>1, <3>1
    <3>2. CASE \E u : Touches(u)
      BY <1>1, <1>5, <2>1, <3>2, StaysPutFields DEF Touches
    <3> QED BY <1>5, <3>1, <3>2
  <2>3. StaysPut(t, item)'
    BY <1>2, <2>2, StaysPutForGood DEF Frame
  <2> QED BY <2>1, <2>3 DEF StaysPut, IsFirstClassification
<1> QED BY <1>1, <1>3, <1>4, <1>5

\* A thread that leaves the stored queue has left the queue in memory too, and
\* what a save may store are items of the two.
LEMMA StoringItems ==
    ASSUME Frame, Recorded, DOMAIN screened' = {},
           \A t \in recorded' \ recorded : Seen(t),
           \A t \in DOMAIN stored' : \A item \in stored'[t] :
              \/ t \in DOMAIN stored /\ item \in stored[t]
              \/ t \in DOMAIN queue /\ item = queue[t],
           (queue' = queue /\ DOMAIN stored' = DOMAIN queue) \/ DOMAIN queue' = {}
    PROVE  RecordedStaysPut'
<1> SUFFICES ASSUME NEW t \in recorded'
             PROVE  /\ Seen(t)'
                    /\ t \in DOMAIN stored' => \A item \in stored'[t] : StaysPut(t, item)'
                    /\ t \in DOMAIN queue' => StaysPut(t, queue[t])'
  BY DEF RecordedStaysPut
<1>1. history \in Seq(Record) /\ position.savedAt \in Nat /\ position'.savedAt \in Nat
  BY DEF Frame, IInv, TypeOK
<1>2. CASE t \in recorded
  <2>1. /\ Seen(t)
        /\ t \in DOMAIN stored => \A item \in stored[t] : StaysPut(t, item)
        /\ t \in DOMAIN queue => StaysPut(t, queue[t])
    BY <1>2 DEF Frame, RecordedStaysPut
  <2>2. Seen(t)'
    BY <1>1, <2>1, SeenStays DEF Frame
  <2>3. ASSUME t \in DOMAIN stored', NEW item \in stored'[t] PROVE StaysPut(t, item)'
    <3>1. StaysPut(t, item)
      BY <2>1, <2>3
    <3> QED BY <1>1, <3>1, StaysPutForGood DEF Frame
  <2>4. ASSUME t \in DOMAIN queue' PROVE StaysPut(t, queue[t])'
    <3>1. PICK item : item = queue[t]
      OBVIOUS
    <3>2. StaysPut(t, item) /\ item = queue'[t]
      BY <2>1, <2>4, <3>1
    <3>3. StaysPut(t, item)'
      BY <1>1, <3>2, StaysPutForGood DEF Frame
    <3> QED BY <3>2, <3>3 DEF StaysPut, IsFirstClassification
  <2> QED BY <2>2, <2>3, <2>4
<1>3. CASE t \notin recorded
  <2>1. Seen(t) /\ t \notin DOMAIN stored' /\ t \notin DOMAIN queue'
    BY <1>3 DEF Recorded
  <2> QED BY <1>1, <2>1, SeenStays DEF Frame
<1> QED BY <1>2, <1>3

\* The three steps that write the queue.
LEMMA SavingItems ==
    ASSUME Frame, Recorded, SaveIngested \/ SaveChunk \/ Crash,
           \A t \in recorded' \ recorded : Seen(t)
    PROVE  RecordedStaysPut'
<1>1. CASE SaveIngested \/ SaveChunk
  <2>1. queue' = queue /\ screened' = screened /\ DOMAIN screened = {}
    BY <1>1 DEF SaveIngested, SaveChunk, chunkVars, Frame, IInv, HeldByChunk
  <2>2. stored' = Exactly(queue) \/ (queue \in Loads(stored) /\ stored' = stored)
    BY <1>1 DEF SaveIngested, SaveChunk
  <2>3. \A t \in DOMAIN stored' : \A item \in stored'[t] :
           \/ t \in DOMAIN stored /\ item \in stored[t]
           \/ t \in DOMAIN queue /\ item = queue[t]
    BY <2>2 DEF Exactly
  <2>4. DOMAIN stored' = DOMAIN queue
    BY <2>2, LoadsFacts, ExactlyFacts DEF Frame, IInv, TypeOK
  <2> QED BY <2>1, <2>3, <2>4, StoringItems
<1>2. CASE Crash
  <2>1. DOMAIN queue' = {} /\ DOMAIN screened' = {}
    BY <1>2, EmptyFacts DEF Crash, Reset
  <2>2. stored' = stored \/ stored' \in PartlySaved(stored, queue)
    BY <1>2 DEF Crash
  <2>3. \A t \in DOMAIN stored' : \A item \in stored'[t] :
           \/ t \in DOMAIN stored /\ item \in stored[t]
           \/ t \in DOMAIN queue /\ item = queue[t]
    <3>1. CASE stored' = stored
      BY <3>1
    <3>2. CASE stored' \in PartlySaved(stored, queue)
      BY <3>2, PartlySavedVersions DEF Versions
    <3> QED BY <2>2, <3>1, <3>2
  <2> QED BY <2>1, <2>3, StoringItems
<1> QED BY <1>1, <1>2

\* Queuing a thread again by a request that would not move it.
LEMMA MergeStaysPut ==
    ASSUME NEW t, NEW item, NEW request, StaysPut(t, item), StaysPut(t, request)
    PROVE  StaysPut(t, MergedItem(item, request)) /\ StaysPut(t, NewItem(request))
<1>1. StaysPut(t, NewItem(request))
  BY DEF StaysPut, NewItem
<1>2. StaysPut(t, MergedItem(item, request))
  BY DEF StaysPut, MergedItem
<1> QED BY <1>1, <1>2

\* Neither request of ingest would move a thread that is seen.
LEMMA RequestsStayPut ==
    ASSUME NEW t, Seen(t) PROVE StaysPut(t, NewMailRequest) /\ StaysPut(t, RetryRequest)
  BY DEF Seen, StaysPut, NewMailRequest, RetryRequest

\* Mail and retries bring a handled thread back into the queue as one to label.
LEMMA IngestingItems ==
    ASSUME Frame, IngestRecord, recorded' = recorded
    PROVE  RecordedStaysPut'
<1> SUFFICES ASSUME NEW t \in recorded
             PROVE  /\ Seen(t)'
                    /\ t \in DOMAIN stored => \A item \in stored[t] : StaysPut(t, item)'
                    /\ t \in DOMAIN queue' => StaysPut(t, queue[t])'
  BY EmptyFacts DEF RecordedStaysPut, IngestRecord, persistent, chunkVars, Frame, IInv, HeldByChunk
<1>1. history \in Seq(Record) /\ position.savedAt \in Nat /\ position'.savedAt \in Nat
  BY DEF Frame, IInv, TypeOK
<1>2. /\ Seen(t)
      /\ t \in DOMAIN stored => \A item \in stored[t] : StaysPut(t, item)
      /\ t \in DOMAIN queue => StaysPut(t, queue[t])
  BY DEF Frame, RecordedStaysPut
<1>3. StaysPut(t, NewMailRequest) /\ StaysPut(t, RetryRequest)
  BY <1>2, RequestsStayPut DEF Frame
<1>4. Seen(t)'
  BY <1>1, <1>2, SeenStays DEF Frame
<1>5. ASSUME t \in DOMAIN stored, NEW item \in stored[t] PROVE StaysPut(t, item)'
  BY <1>1, <1>2, <1>5, StaysPutForGood DEF Frame
<1>6. ASSUME t \in DOMAIN queue' PROVE StaysPut(t, queue[t])'
  <2>1. PICK P, R : queue' = EnqueuedAll(EnqueuedAll(queue, P, NewMailRequest), R, RetryRequest)
    BY DEF IngestRecord
  <2>2. PICK mail : mail = EnqueuedAll(queue, P, NewMailRequest)
    OBVIOUS
  <2>3. /\ DOMAIN mail = DOMAIN queue \cup P
        /\ queue' = EnqueuedAll(mail, R, RetryRequest)
        /\ DOMAIN queue' = DOMAIN mail \cup R
    BY <2>1, <2>2 DEF EnqueuedAll
  <2>4. ASSUME t \in DOMAIN mail PROVE StaysPut(t, mail[t])
    <3>1. mail[t] = IF t \notin P THEN queue[t]
                    ELSE IF t \in DOMAIN queue THEN MergedItem(queue[t], NewMailRequest)
                         ELSE NewItem(NewMailRequest)
      BY <2>2, <2>3, <2>4, EnqueuedAllItems
    <3> QED BY <1>2, <1>3, <2>3, <2>4, <3>1, MergeStaysPut
  <2>5. PICK item : item = queue'[t]
    OBVIOUS
  <2>6. StaysPut(t, item)
    <3>1. item = IF t \notin R THEN mail[t]
                 ELSE IF t \in DOMAIN mail THEN MergedItem(mail[t], RetryRequest)
                      ELSE NewItem(RetryRequest)
      BY <1>6, <2>3, <2>5, EnqueuedAllItems
    <3> QED BY <1>3, <1>6, <2>3, <2>4, <3>1, MergeStaysPut
  <2>7. StaysPut(t, item)'
    BY <1>1, <2>6, StaysPutForGood DEF Frame
  <2> QED BY <2>5, <2>7 DEF StaysPut, IsFirstClassification
<1> QED BY <1>4, <1>5, <1>6

\* A handled thread has old mail, so screening finds it old unless it was
\* decided before.
LEMMA ScreeningItems ==
    ASSUME Frame, ChunkInv, ScreenThread, recorded' = recorded
    PROVE  RecordedStaysPut'
<1> SUFFICES ASSUME NEW t \in recorded
             PROVE  /\ Seen(t)'
                    /\ t \in DOMAIN stored => \A item \in stored[t] : StaysPut(t, item)'
                    /\ t \in DOMAIN queue => StaysPut(t, queue[t])'
                    /\ t \in DOMAIN screened' /\ screened'[t] = "first"
                          => queue[t].firstClassification # "unset"
  BY DEF RecordedStaysPut, ScreenThread, persistent
<1>1. PICK u \in Foremost(chunk) :
        screened' = [v \in DOMAIN screened \cup {u} |->
                        IF v = u THEN Screening(u) ELSE screened[v]]
  BY DEF ScreenThread
<1>2. UNCHANGED <<history, position, queue>> /\ u \in DOMAIN queue
  BY DEF ScreenThread, mailbox, persistent, ChunkInv, ChunkIsHeld, Held, Foremost
<1>3. /\ Seen(t)
      /\ t \in DOMAIN stored => \A item \in stored[t] : StaysPut(t, item)
      /\ t \in DOMAIN queue => StaysPut(t, queue[t])
      /\ t \in DOMAIN screened /\ screened[t] = "first"
            => queue[t].firstClassification # "unset"
  BY DEF Frame, RecordedStaysPut
<1>4. ASSUME t \in DOMAIN screened', screened'[t] = "first"
      PROVE  queue[t].firstClassification # "unset"
  <2>1. CASE t = u
    <3>1. /\ queue[t].positionSavedAt # NoTime
          /\ IsFirstClassification(t, queue[t].positionSavedAt)
      BY <1>1, <1>4, <2>1 DEF Screening
    <3> QED BY <1>2, <1>3, <2>1, <3>1 DEF StaysPut
  <2>2. CASE t # u
    BY <1>1, <1>3, <1>4, <2>2
  <2> QED BY <2>1, <2>2
<1>5. /\ Seen(t)'
      /\ t \in DOMAIN stored => \A item \in stored[t] : StaysPut(t, item)'
      /\ t \in DOMAIN queue => StaysPut(t, queue[t])'
  BY <1>2, <1>3 DEF Seen, StaysPut, IsFirstClassification
<1> QED BY <1>4, <1>5

\* The verdict of screening is therefore never that it may be moved.
LEMMA DecidingItems ==
    ASSUME Frame, FinishScreening, recorded' = recorded PROVE RecordedStaysPut'
<1>1. PICK excluded \in SUBSET (DOMAIN screened \ SkippedThreads) :
        LET finished == SkippedThreads \cup excluded
        IN  queue' = [t \in DOMAIN queue \ finished |->
                         IF t \in DOMAIN screened
                         THEN Decided(queue, t, screened[t])[t] ELSE queue[t]]
  BY DEF FinishScreening
<1>2. UNCHANGED <<history, position, stored>> /\ DOMAIN screened' = {}
  BY EmptyFacts DEF FinishScreening, mailbox, persistent
<1> SUFFICES ASSUME NEW t \in recorded
             PROVE  /\ Seen(t)'
                    /\ t \in DOMAIN stored => \A item \in stored[t] : StaysPut(t, item)'
                    /\ t \in DOMAIN queue' => StaysPut(t, queue[t])'
  BY <1>2 DEF RecordedStaysPut
<1>3. /\ Seen(t)
      /\ t \in DOMAIN stored => \A item \in stored[t] : StaysPut(t, item)
      /\ t \in DOMAIN queue => StaysPut(t, queue[t])
      /\ t \in DOMAIN screened /\ screened[t] = "first"
            => queue[t].firstClassification # "unset"
  BY DEF Frame, RecordedStaysPut
<1>4. /\ Seen(t)'
      /\ t \in DOMAIN stored => \A item \in stored[t] : StaysPut(t, item)'
  BY <1>2, <1>3 DEF Seen, StaysPut, IsFirstClassification
<1>5. ASSUME t \in DOMAIN queue' PROVE StaysPut(t, queue[t])'
  <2>1. t \in DOMAIN queue /\ queue[t] \in WorkItem
    BY <1>1, <1>5 DEF Frame, IInv, TypeOK, IsQueue
  <2>2. CASE queue'[t] = queue[t]
    BY <1>2, <1>3, <2>1, <2>2 DEF StaysPut, IsFirstClassification
  <2>3. CASE queue'[t] # queue[t]
    <3>1. /\ t \in DOMAIN screened
          /\ queue'[t] = Decided(queue, t, screened[t])[t]
      BY <1>1, <1>5, <2>3
    <3>2. /\ queue[t].firstClassification = "unset"
          /\ queue'[t] = [queue[t] EXCEPT !.firstClassification = screened[t]]
      BY <2>1, <2>3, <3>1 DEF Decided
    <3>3. screened[t] \in {"skip", "notFirst"}
      BY <1>3, <3>1, <3>2 DEF Frame, IInv, TypeOK
    <3>4. queue'[t].applyMoves = queue[t].applyMoves
          /\ queue'[t].firstClassification = screened[t]
      BY <2>1, <3>2 DEF WorkItem
    <3> QED BY <1>3, <2>1, <3>3, <3>4 DEF StaysPut
  <2> QED BY <2>2, <2>3
<1> QED BY <1>4, <1>5

-----------------------------------------------------------------------------
(* Which threads a run may settle: all of them had mail, and unless the    *)
(* run is stuck they had it before the position was dated.                 *)

\* What a step may put into the stored queue, the queue and Jev/Error.
LEMMA NextQueues ==
    ASSUME IInv, ChunkInv, Next
    PROVE  /\ DOMAIN stored' \subseteq DOMAIN stored \cup DOMAIN queue
           /\ marked' \subseteq marked \cup DOMAIN queue
           /\ IngestRecord \/ DOMAIN queue' \subseteq DOMAIN queue \cup DOMAIN stored
<1>1. DOMAIN stored' \subseteq DOMAIN stored \cup DOMAIN queue
  <2>1. CASE SaveIngested \/ SaveChunk
    BY <2>1 DEF SaveIngested, SaveChunk, Exactly
  <2>2. CASE Crash
    BY <2>2 DEF Crash, PartlySaved
  <2>3. SaveIngested \/ SaveChunk \/ Crash \/ stored' = stored
    BY DEF Next, Environment, RunStep, EarlyStop, persistent, EndRun,
         ReceiveMail, RemoveJevError, DeleteThread,
         StartRun, ListHistory, IngestRecord, FinishPage, AdvancePosition,
         TakeChunk, FinishRun, ScreenThread, FinishScreening, ReadNext, SendRequests,
         SettleNext, FinishSettling, StopIngest, StopTaking, ScreenFails, ReadRefused
  <2> QED BY <2>1, <2>2, <2>3
<1>2. marked' \subseteq marked \cup DOMAIN queue
  <2>1. ReadNext \/ SettleNext \/ marked' \subseteq marked
    BY DEF Next, Environment, RunStep, EarlyStop, mailbox, EndRun,
         ReceiveMail, RemoveJevError, DeleteThread,
         StartRun, ListHistory, IngestRecord, FinishPage, SaveIngested, AdvancePosition,
         TakeChunk, FinishRun, ScreenThread, FinishScreening, SendRequests,
         FinishSettling, SaveChunk, StopIngest, StopTaking, ScreenFails, ReadRefused, Crash
  <2> QED BY <2>1, ReadNextHolds, SettleNextHolds
<1>3. IngestRecord \/ DOMAIN queue' \subseteq DOMAIN queue \cup DOMAIN stored
  <2>1. CASE ReadNext \/ SettleNext
    BY <2>1, ReadNextHolds, SettleNextHolds DEF Touches
  <2>2. CASE FinishScreening
    BY <2>2 DEF FinishScreening
  <2>3. CASE StartRun
    BY <2>3 DEF StartRun, Loads
  <2>4. CASE Reset
    BY <2>4, EmptyFacts DEF Reset
  <2>5. \/ IngestRecord \/ ReadNext \/ SettleNext \/ FinishScreening \/ StartRun
        \/ Reset \/ queue' = queue
    BY DEF Next, Environment, RunStep, EarlyStop, runVars, EndRun,
         ReceiveMail, RemoveJevError, DeleteThread,
         ListHistory, FinishPage, SaveIngested, AdvancePosition, TakeChunk, FinishRun,
         ScreenThread, SendRequests, FinishSettling, SaveChunk, StopIngest, StopTaking,
         ScreenFails, ReadRefused, Crash
  <2> QED BY <2>1, <2>2, <2>3, <2>4, <2>5
<1> QED BY <1>1, <1>2, <1>3

\* Ingest queues the threads of the next record only.
LEMMA IngestQueuesRecord ==
    ASSUME IInv, IngestRecord
    PROVE  /\ handledId + 1 \in DOMAIN history
           /\ DOMAIN queue' \subseteq DOMAIN queue \cup Wanted(history[handledId + 1])
<1>1. handledId + 1 \in DOMAIN history
  BY DEF IngestRecord, IInv, PositionsInOrder, TypeOK, Ingesting
<1>2. PICK P \in SUBSET history[handledId + 1].added,
           R \in SUBSET history[handledId + 1].unmarked :
        queue' = EnqueuedAll(EnqueuedAll(queue, P, NewMailRequest), R, RetryRequest)
  BY DEF IngestRecord
<1>3. DOMAIN queue' = DOMAIN queue \cup P \cup R
  BY <1>2 DEF EnqueuedAll
<1> QED BY <1>1, <1>2, <1>3 DEF Wanted

\* A new record frees only threads that carried Jev/Error.
LEMMA NextRecord ==
    ASSUME Next
    PROVE  \/ history' = history
           \/ \E r : history' = Append(history, r) /\ r.unmarked \subseteq marked
<1>1. ASSUME NEW S, ReceiveMail(S)
      PROVE  \E r : history' = Append(history, r) /\ r.unmarked \subseteq marked
  BY <1>1 DEF ReceiveMail
<1>2. ASSUME NEW t, RemoveJevError(t)
      PROVE  \E r : history' = Append(history, r) /\ r.unmarked \subseteq marked
  <2>1. history' = Append(history, [added |-> {}, unmarked |-> {t} \ gone]) /\ t \in marked
    BY <1>2 DEF RemoveJevError
  <2> QED BY <2>1
<1>3. Environment \/ history' = history
  BY DEF Next, RunStep, EarlyStop, mailbox, EndRun,
         StartRun, ListHistory, IngestRecord, FinishPage, SaveIngested, AdvancePosition,
         TakeChunk, FinishRun, ScreenThread, FinishScreening, ReadNext, SendRequests,
         SettleNext, FinishSettling, SaveChunk, StopIngest, StopTaking, ScreenFails,
         ReadRefused, Crash
<1>4. ASSUME NEW t, DeleteThread(t) PROVE history' = history
  BY <1>4 DEF DeleteThread
<1> QED BY <1>1, <1>2, <1>3, <1>4 DEF Environment

\* Whatever is queued or marked had mail.
LEMMA NextQueuedForMail ==
    ASSUME IInv, ChunkInv, QueuedForMail, Next PROVE QueuedForMail'
<1>1. HistoryGrows /\ history \in Seq(Record)
  BY NextHistoryGrows DEF IInv, TypeOK
<1>2. ASSUME NEW t, HasMail(t) PROVE HasMail(t)'
  BY <1>1, <1>2 DEF HasMail, HistoryGrows
<1>3. \A t \in DOMAIN queue \cup DOMAIN stored \cup marked : HasMail(t)
  BY DEF QueuedForMail
<1>4. ASSUME NEW i \in DOMAIN history, NEW t \in Wanted(history[i]) PROVE HasMail(t)
  BY <1>4 DEF Wanted, QueuedForMail, HasMail
<1>5. \A t \in DOMAIN queue' \cup DOMAIN stored' \cup marked' : HasMail(t)
  BY <1>3, <1>4, NextQueues, IngestQueuesRecord
<1>6. ASSUME NEW i \in DOMAIN history', NEW t \in history'[i].unmarked PROVE HasMail(t)
  <2>1. CASE history' = history
    BY <1>4, <1>6, <2>1 DEF Wanted
  <2>2. CASE \E r : history' = Append(history, r) /\ r.unmarked \subseteq marked
    <3>1. PICK r : history' = Append(history, r) /\ r.unmarked \subseteq marked
      BY <2>2
    <3>2. CASE i \in DOMAIN history
      <4>1. history'[i] = history[i]
        BY <1>1, <3>2 DEF HistoryGrows
      <4> QED BY <1>4, <1>6, <3>2, <4>1 DEF Wanted
    <3>3. CASE i \notin DOMAIN history
      <4>1. history'[i] = r
        BY <1>1, <1>6, <3>1, <3>3
      <4> QED BY <1>3, <1>6, <3>1, <4>1
    <3> QED BY <3>2, <3>3
  <2> QED BY <2>1, <2>2, NextRecord
<1> QED BY <1>2, <1>5, <1>6 DEF QueuedForMail

\* Mail that had arrived when the position was dated is seen.
LEMMA MailBeforeIsSeen ==
    ASSUME NEW t, NEW i \in DOMAIN history, t \in history[i].added,
           ~(i >= position.savedAt)
    PROVE  Seen(t)
  BY DEF Seen, IsFirstClassification

\* Of a mailbox whose mail the position stands for, all is seen.
LEMMA AllMailIsSeen ==
    ASSUME IInv, SavedAfterMail, position.historyId = Len(history), NEW t, HasMail(t)
    PROVE  Seen(t)
<1>1. PICK i \in DOMAIN history : t \in history[i].added
  BY DEF HasMail
<1>2. ~(i >= position.savedAt)
  BY DEF IInv, TypeOK, SavedAfterMail
<1> QED BY <1>1, <1>2, MailBeforeIsSeen

\* The threads whose mail the position is past are among them.
LEMMA PastIsSeen ==
    ASSUME IInv, SavedAfterMail, NEW t, PositionIsPast(t) PROVE Seen(t)
<1>1. PICK i \in 1..position.historyId : t \in history[i].added
  BY DEF PositionIsPast
<1>2. i \in DOMAIN history /\ ~(i >= position.savedAt)
  BY DEF IInv, TypeOK, PositionsInOrder, SavedAfterMail
<1> QED BY <1>1, <1>2, MailBeforeIsSeen

\* Ingest that ends with the position unmoved and no cap met had nothing to read;
\* a position that moved is dated after all mail that has arrived.
LEMMA AdvanceSettlesSeen ==
    ASSUME IInv, SavedAfterMail, QueuedForMail, SettlesSeen, AdvancePosition, Stuck,
           HistoryGrows
    PROVE  SettlesSeen'
<1>1. /\ pc = "advance" /\ stop # "sending" /\ DOMAIN stored \subseteq DOMAIN queue
      /\ ReachedId = handledId
      /\ history \in Seq(Record)
  BY DEF AdvancePosition, SettlesSeen, Ingesting, ReachedId, IInv, PositionsInOrder, TypeOK
<1>2. UNCHANGED <<history, stored>>
  BY DEF AdvancePosition, mailbox
<1>3. CASE Reset
  <2>1. pc' = "idle" /\ stop' = "none"
    BY <1>3 DEF Reset
  <2> QED BY <2>1 DEF SettlesSeen, Ingesting, Chunking
<1>4. CASE ~Reset
  <2>1. pc' = "take" /\ stop' = "none" /\ queue' = queue /\ stop \in {"none", "cap"}
    BY <1>1, <1>4 DEF AdvancePosition, IInv, TypeOK
  <2>2. ASSUME ~stuck', NEW t \in DOMAIN queue PROVE Seen(t)'
    <3>1. HasMail(t)
      BY <2>2 DEF QueuedForMail
    <3>2. CASE handledId = position.historyId
      <4>1. stop = "none" /\ mailboxId = position.historyId
        BY <1>1, <2>1, <2>2, <3>2 DEF Stuck, IInv, PositionsInOrder
      <4>2. Seen(t) /\ position' = position
        BY <1>1, <2>2, <3>2, <4>1 DEF AdvancePosition, SettlesSeen
      <4> QED BY <1>2, <4>2 DEF Seen, IsFirstClassification
    <3>3. CASE handledId # position.historyId
      <4>1. position'.savedAt = Now
        BY <1>1, <3>3 DEF AdvancePosition
      <4>2. PICK i \in DOMAIN history : t \in history[i].added
        BY <3>1 DEF HasMail
      <4>3. ~(i >= position'.savedAt)
        BY <1>1, <4>1 DEF Now
      <4> QED BY <1>2, <4>2, <4>3 DEF Seen, IsFirstClassification
    <3> QED BY <3>2, <3>3
  <2>3. \A t \in DOMAIN queue' \cup DOMAIN stored' : ~stuck' => Seen(t)'
    BY <1>1, <1>2, <2>1, <2>2
  <2> QED BY <2>1, <2>3 DEF SettlesSeen, Ingesting, Chunking
<1> QED BY <1>3, <1>4

\* The steps before the position moves.
LEMMA IngestSettlesSeen ==
    ASSUME IInv, SavedAfterMail, QueuedForMail, SettlesSeen,
           \/ StartRun \/ ListHistory \/ StopIngest \/ IngestRecord
           \/ FinishPage \/ SaveIngested
    PROVE  SettlesSeen'
<1>1. UNCHANGED <<history, position>>
  BY DEF StartRun, ListHistory, StopIngest, IngestRecord, FinishPage, SaveIngested,
         mailbox, persistent
<1>2. ASSUME NEW t, Seen(t) PROVE Seen(t)'
  BY <1>1, <1>2 DEF Seen, IsFirstClassification
<1>3. Ingesting' /\ ~Chunking' /\ pc' # "idle" /\ stop' # "sending"
  BY DEF StartRun, ListHistory, StopIngest, IngestRecord, FinishPage, SaveIngested,
         Ingesting, Chunking, SettlesSeen
<1>4. DOMAIN stored' \subseteq DOMAIN queue'
  <2>1. CASE StartRun
    BY <2>1 DEF StartRun, Loads, persistent
  <2>2. CASE SaveIngested
    BY <2>2 DEF SaveIngested, Exactly, Loads
  <2>3. CASE IngestRecord
    <3>1. DOMAIN queue \subseteq DOMAIN queue'
      BY <2>3 DEF IngestRecord, EnqueuedAll
    <3> QED BY <2>3, <3>1 DEF IngestRecord, persistent, SettlesSeen, Ingesting
  <2>4. CASE ListHistory \/ StopIngest \/ FinishPage
    BY <2>4 DEF ListHistory, StopIngest, FinishPage, persistent, SettlesSeen, Ingesting
  <2> QED BY <2>1, <2>2, <2>3, <2>4
<1>5. ASSUME pc' \in {"records", "save", "advance"}, stop' = "none",
             mailboxId' = position'.historyId,
             NEW t \in DOMAIN queue'
      PROVE  Seen(t)'
  <2>1. CASE StartRun \/ StopIngest
    BY <1>5, <2>1 DEF StartRun, StopIngest
  <2>2. CASE ListHistory
    <3>1. position.historyId = Len(history) /\ HasMail(t)
      BY <1>1, <1>5, <2>2 DEF ListHistory, QueuedForMail
    <3> QED BY <1>2, <3>1, AllMailIsSeen
  <2>3. CASE IngestRecord
    BY <1>1, <1>5, <2>3 DEF IngestRecord, IInv, PositionsInOrder, Ingesting, TypeOK
  <2>4. CASE FinishPage \/ SaveIngested
    <3>1. Seen(t)
      BY <1>1, <1>5, <2>4 DEF FinishPage, SaveIngested, ingestVars, SettlesSeen
    <3> QED BY <1>2, <3>1
  <2> QED BY <2>1, <2>2, <2>3, <2>4
<1> QED BY <1>3, <1>4, <1>5 DEF SettlesSeen

\* The steps of a chunk bring nothing into the queue.
LEMMA ChunkSettlesSeen ==
    ASSUME IInv, ChunkInv, SettlesSeen, Next, Stuck, Chunking, Chunking',
           UNCHANGED <<history, position>>
    PROVE  SettlesSeen'
<1>1. ~Ingesting' /\ pc' # "idle" /\ ~IngestRecord
  BY DEF Chunking, Ingesting, IngestRecord
<1>2. stuck => stuck'
  <2>1. pc # "advance" /\ pc' # "idle"
    BY DEF Chunking
  <2> QED BY <2>1 DEF Stuck
<1>3. \A t \in DOMAIN queue' \cup DOMAIN stored' : t \in DOMAIN queue \cup DOMAIN stored
  BY <1>1, NextQueues
<1>4. ASSUME NEW t, Seen(t) PROVE Seen(t)'
  BY <1>4 DEF Seen, IsFirstClassification
<1>5. ~stuck' => \A t \in DOMAIN queue' \cup DOMAIN stored' : Seen(t)'
  BY <1>2, <1>3, <1>4 DEF SettlesSeen
<1>6. pc' \notin {"records", "save", "advance"}
  BY <1>1 DEF Ingesting
<1> QED BY <1>1, <1>5, <1>6 DEF SettlesSeen

\* Every step keeps what the runs settle seen.
LEMMA NextSettlesSeen ==
    ASSUME IInv, ChunkInv, SavedAfterMail, QueuedForMail, SettlesSeen, Next, Stuck
    PROVE  SettlesSeen'
<1>1. HistoryGrows
  BY NextHistoryGrows DEF IInv
<1>2. CASE Environment
  <2>1. UNCHANGED <<pc, queue, stored, position, stop, mailboxId>>
    BY <1>2 DEF Environment, ReceiveMail, RemoveJevError, DeleteThread, persistent,
         runVars, ingestVars
  <2>2. history \in Seq(Record) /\ position.savedAt \in Nat
    BY DEF IInv, TypeOK
  <2>3. ASSUME NEW t, Seen(t) PROVE Seen(t)'
    BY <1>1, <2>1, <2>2, <2>3, SeenStays
  <2>4. ASSUME Chunking, stuck PROVE stuck'
    <3>1. pc # "advance" /\ pc' # "idle"
      BY <2>1, <2>4 DEF Chunking
    <3> QED BY <2>4, <3>1 DEF Stuck
  <2> QED BY <2>1, <2>3, <2>4 DEF SettlesSeen, Ingesting, Chunking
<1>3. CASE Reset
  <2>1. pc' = "idle" /\ stop' = "none"
    BY <1>3 DEF Reset
  <2> QED BY <2>1 DEF SettlesSeen, Ingesting, Chunking
<1>4. CASE AdvancePosition
  BY <1>1, <1>4, AdvanceSettlesSeen
<1>5. CASE \/ StartRun \/ ListHistory \/ StopIngest \/ IngestRecord
           \/ FinishPage \/ SaveIngested
  BY <1>5, IngestSettlesSeen
<1>6. CASE \/ TakeChunk \/ ScreenThread \/ FinishScreening \/ ReadNext \/ SendRequests
           \/ SettleNext \/ FinishSettling \/ SaveChunk \/ ReadRefused
  <2>1. Chunking /\ Chunking' /\ UNCHANGED <<history, position>>
    BY <1>6 DEF TakeChunk, ScreenThread, FinishScreening, ReadNext, SendRequests,
         SettleNext, FinishSettling, SaveChunk, ReadRefused, Chunking, mailbox, persistent
  <2> QED BY <2>1, ChunkSettlesSeen
<1> QED BY <1>2, <1>3, <1>4, <1>5, <1>6
    DEF Next, RunStep, EarlyStop, FinishRun, StopTaking, ScreenFails, Crash, EndRun

\* What is recorded as handled was seen.
LEMMA LeavingIsSeen ==
    ASSUME IInv, MoveInv, Recorded, SaveIngested \/ SaveChunk \/ Crash
    PROVE  \A t \in recorded' \ recorded : Seen(t)
<1> SUFFICES ASSUME NEW t \in recorded' \ recorded PROVE Seen(t)
  OBVIOUS
<1>1. t \in DOMAIN stored /\ t \notin DOMAIN stored' /\ (stuck => PositionIsPast(t))
  BY DEF Recorded
<1>2. CASE PositionIsPast(t)
  BY <1>2, PastIsSeen DEF MoveInv
<1>3. CASE ~stuck /\ Chunking
  BY <1>1, <1>3 DEF MoveInv, SettlesSeen
<1>4. Chunking
  <2>1. CASE SaveIngested
    <3>1. DOMAIN stored' = DOMAIN queue \/ stored' = stored
      BY <2>1 DEF SaveIngested, Exactly
    <3> QED BY <1>1, <2>1, <3>1 DEF SaveIngested, MoveInv, SettlesSeen, Ingesting
  <2>2. CASE SaveChunk
    BY <2>2 DEF SaveChunk, Chunking
  <2>3. CASE Crash
    <3>1. Saving /\ stored' \in PartlySaved(stored, queue)
      BY <1>1, <2>3 DEF Crash
    <3>2. t \notin DOMAIN queue
      BY <1>1, <3>1, PartlySavedFacts DEF IInv, TypeOK
    <3> QED BY <1>1, <3>1, <3>2 DEF Saving, MoveInv, SettlesSeen, Ingesting, Chunking
  <2> QED BY <2>1, <2>2, <2>3
<1> QED BY <1>1, <1>2, <1>3, <1>4

-----------------------------------------------------------------------------

\* Every step of a run keeps handled threads from being moved.
LEMMA NextMoveInv ==
    ASSUME IInv, ChunkInv, MoveInv, Next, Recorded, Stuck PROVE MoveInv'
<1>1. Frame /\ SavedAfterMail' /\ QueuedForMail' /\ SettlesSeen'
  BY NextIInv, NextHistoryGrows, NextSavedAfterMail, NextQueuedForMail, NextSettlesSeen
     DEF Frame, MoveInv, IInv
<1>2. recorded' \subseteq Threads
  BY DEF Recorded, MoveInv, IInv, TypeOK, IsStored
<1>3. CASE SaveIngested \/ SaveChunk \/ Crash
  BY <1>1, <1>2, <1>3, SavingItems, LeavingIsSeen DEF MoveInv
<1>4. CASE ~(SaveIngested \/ SaveChunk \/ Crash)
  <2>1. stored' = stored
    BY <1>4 DEF Next, Environment, RunStep, EarlyStop, persistent, EndRun,
         ReceiveMail, RemoveJevError, DeleteThread,
         StartRun, ListHistory, IngestRecord, FinishPage, AdvancePosition,
         TakeChunk, FinishRun, ScreenThread, FinishScreening, ReadNext, SendRequests,
         SettleNext, FinishSettling, StopIngest, StopTaking, ScreenFails, ReadRefused
  <2>2. recorded' = recorded
    BY <2>1 DEF Recorded
  <2>3. CASE IngestRecord \/ ScreenThread \/ FinishScreening
    BY <1>1, <1>2, <2>2, <2>3, IngestingItems, ScreeningItems, DecidingItems DEF MoveInv
  <2>4. CASE StartRun
    <3>1. /\ DOMAIN screened' = {}
          /\ \A t \in DOMAIN queue' : t \in DOMAIN stored /\ queue'[t] \in stored[t]
      BY <2>4 DEF StartRun, chunkVars, Loads, IInv, HeldByChunk
    <3> QED BY <1>1, <1>2, <2>1, <2>2, <3>1, KeepingItems DEF MoveInv
  <2>5. CASE ReadNext \/ SettleNext
    <3>1. (\E t \in Threads : Touches(t)) /\ DOMAIN screened' = {}
      BY <2>5, ReadNextHolds, SettleNextHolds DEF ReadNext, SettleNext, IInv, HeldByChunk
    <3> QED BY <1>1, <1>2, <2>1, <2>2, <3>1, KeepingItems DEF MoveInv
  <2>6. CASE Reset
    <3>1. DOMAIN queue' = {} /\ DOMAIN screened' = {}
      BY <2>6, EmptyFacts DEF Reset
    <3> QED BY <1>1, <1>2, <2>1, <2>2, <3>1, KeepingItems DEF MoveInv
  <2>7. CASE UNCHANGED <<queue, screened>>
    <3>1. \E t : Touches(t)
      BY <2>7 DEF Touches
    <3> QED BY <1>1, <1>2, <2>1, <2>2, <2>7, <3>1, KeepingItems DEF MoveInv
  <2>8. \/ IngestRecord \/ ScreenThread \/ FinishScreening \/ StartRun
        \/ ReadNext \/ SettleNext \/ Reset \/ UNCHANGED <<queue, screened>>
    BY <1>4 DEF Next, Environment, RunStep, EarlyStop, runVars, chunkVars, EndRun,
         ReceiveMail, RemoveJevError, DeleteThread,
         ListHistory, FinishPage, AdvancePosition, TakeChunk, FinishRun, SendRequests,
         FinishSettling, StopIngest, StopTaking, ScreenFails, ReadRefused
  <2> QED BY <2>3, <2>4, <2>5, <2>6, <2>7, <2>8
<1> QED BY <1>3, <1>4

\* A move needs an item that allows it, and a handled thread's never does.
LEMMA MovesAreNew ==
    ASSUME IInv, ChunkInv, MoveInv, [Next]_vars, NEW t \in moved' \ moved
    PROVE  t \notin recorded
<1>1. SettleNext \/ moved' = moved
  BY DEF Next, Environment, RunStep, EarlyStop, vars, mailbox, EndRun,
         ReceiveMail, RemoveJevError, DeleteThread,
         StartRun, ListHistory, IngestRecord, FinishPage, SaveIngested, AdvancePosition,
         TakeChunk, FinishRun, ScreenThread, FinishScreening, ReadNext, SendRequests,
         FinishSettling, SaveChunk, StopIngest, StopTaking, ScreenFails, ReadRefused, Crash
<1>2. t \in DOMAIN queue /\ MovesAllowed(queue[t])
  BY <1>1, SettleNextHolds
<1> QED BY <1>2 DEF MoveInv, RecordedStaysPut, StaysPut, MovesAllowed

\* The invariant of the moves does not speak of what has moved.
LEMMA MoveInvIsUntouched ==
    ASSUME MoveInv,
           UNCHANGED <<history, marked, persistent, runVars, historyVars>>
    PROVE  MoveInv'
<1> USE DEF persistent, runVars, ingestVars, chunkVars, historyVars
<1>1. UNCHANGED <<history, marked, stored, position, pc, queue, stop, mailboxId, screened,
                  recorded, stuck>>
  OBVIOUS
<1>2. SavedAfterMail' /\ RecordedStaysPut' /\ recorded' \subseteq Threads
  BY <1>1 DEF MoveInv, SavedAfterMail, Now, RecordedStaysPut, Seen, StaysPut,
         IsFirstClassification
<1>3. QueuedForMail'
  BY <1>1 DEF MoveInv, QueuedForMail, HasMail
<1>4. SettlesSeen'
  BY <1>1 DEF MoveInv, SettlesSeen, Ingesting, Chunking, Seen, IsFirstClassification
<1> QED BY <1>2, <1>3, <1>4 DEF MoveInv

\* The user who moves a thread back changes nothing that a run goes by.
LEMMA MoveBackKeeps ==
    ASSUME IInv, ChunkInv, MoveInv, NEW t \in Threads, MoveBack(t)
    PROVE  IInv' /\ ChunkInv' /\ MoveInv'
<1>1. /\ UNCHANGED <<history, marked, gone, persistent, runVars, settledUpTo, faults,
                     historyVars>>
      /\ moved' \subseteq Threads
  BY DEF MoveBack, IInv, TypeOK
<1> USE <1>1 DEF persistent, runVars, ingestVars, chunkVars, historyVars
<1>2. IInv'
  <2>1. TypeOK'
    BY DEF IInv, TypeOK
  <2>2. PositionsInOrder' /\ HeldByChunk' /\ ReadsAreRecent'
    BY DEF IInv, PositionsInOrder, Ingesting, HeldByChunk, ReadsAreRecent, Droppable
  <2>3. NoMailLost' /\ QueueCovers'
    BY DEF IInv, NoMailLost, QueueCovers, Covers, Ingesting, Chunking
  <2> QED BY <2>1, <2>2, <2>3 DEF IInv
<1>3. ChunkInv'
  BY ChunkIsUntouched
<1>4. MoveInv'
  BY <1>1, MoveInvIsUntouched
<1> QED BY <1>2, <1>3, <1>4

\* The life of a mailbox whose user moves threads back, step by step.
LEMMA HistoryNextInv ==
    ASSUME IInv, ChunkInv, MoveInv, [HistoryNext]_<<vars, historyVars>>
    PROVE  IInv' /\ ChunkInv' /\ MoveInv'
<1>1. CASE Next /\ Recorded /\ Stuck
  BY <1>1, NextIInv, NextChunkInv, NextMoveInv
<1>2. CASE \E t \in Threads : MoveBack(t)
  BY <1>2, MoveBackKeeps
<1>3. CASE UNCHANGED <<vars, historyVars>>
  <2>1. UNCHANGED <<history, marked, persistent, runVars, historyVars>>
    BY <1>3 DEF vars, mailbox
  <2> QED BY <1>3, <2>1, NextIInv, NextChunkInv, MoveInvIsUntouched
<1> QED BY <1>1, <1>2, <1>3 DEF HistoryNext

LEMMA HistoryInitInv == HistoryInit => IInv /\ ChunkInv /\ MoveInv
<1> SUFFICES ASSUME HistoryInit PROVE IInv /\ ChunkInv /\ MoveInv
  OBVIOUS
<1> USE EmptyFacts DEF HistoryInit, Init
<1>1. ChunkInv
  BY DEF ChunkInv, ChunkIsHeld, ReadsAreUnmarked, StrikesAreOld, Held
<1>2. MoveInv
  BY DEF MoveInv, SavedAfterMail, Now, RecordedStaysPut, QueuedForMail, SettlesSeen,
         Ingesting, Chunking
<1> QED BY <1>1, <1>2, InitIInv

-----------------------------------------------------------------------------
(* The theorems.                                                           *)

\* The strengthening of the two properties below holds of every reachable state.
THEOREM InductiveInvariant == Spec => []IInv
  BY InitIInv, NextIInv, PTL DEF Spec

\* Every variable keeps its type: in particular no stored item ever has more
\* strikes than the codec of the stored queue accepts.
THEOREM TypeCorrectness == Spec => []TypeOK
  BY InductiveInvariant, PTL DEF IInv

\* No crash, half-written save, full queue or early stop loses mail that the
\* saved position stands for.
THEOREM MailIsNeverLost == Spec => []NoMailLost
  BY InductiveInvariant, PTL DEF IInv

\* The two invariants of the chunk loop and of the handled threads, beside the
\* one above, in a mailbox whose user moves threads back at any time.
THEOREM HistoryInvariant == HistorySpec => [](IInv /\ ChunkInv /\ MoveInv)
<1>1. IInv /\ ChunkInv /\ MoveInv /\ [HistoryNext]_<<vars, historyVars>>
         => (IInv /\ ChunkInv /\ MoveInv)'
  BY HistoryNextInv
<1> QED BY HistoryInitInv, <1>1, PTL DEF HistorySpec

\* A thread that carries Jev/Error is read by no run from its full read to the
\* request: screening drops it, and no run but this one adds the label.
THEOREM MarkedStayUnsent == HistorySpec => []MarkedThreadsAreNotSent
<1>1. ChunkInv => MarkedThreadsAreNotSent
  BY DEF ChunkInv, ReadsAreUnmarked, MarkedThreadsAreNotSent, Held
<1> QED BY HistoryInvariant, <1>1, PTL

\* Jev/Error is added for an answer that cannot be used, or to a thread that
\* brought all the strikes a queue stores into the run.
THEOREM JevErrorNeedsRuns == HistorySpec => JevErrorIsEarned
<1>1. IInv /\ ChunkInv /\ [HistoryNext]_<<vars, historyVars>> =>
        [\A t \in marked' \ marked :
            \/ t \in DOMAIN built /\ built[t] = "invalid"
            \/ t \in DOMAIN loadedStrikes /\ loadedStrikes[t] = MaxStoredStrikes]_vars
  <2> SUFFICES ASSUME IInv, ChunkInv, [HistoryNext]_<<vars, historyVars>>
               PROVE  \A t \in marked' \ marked :
                         \/ t \in DOMAIN built /\ built[t] = "invalid"
                         \/ t \in DOMAIN loadedStrikes /\ loadedStrikes[t] = MaxStoredStrikes
    OBVIOUS
  <2>1. [Next]_vars \/ marked' = marked
    BY DEF HistoryNext, MoveBack
  <2> QED BY <2>1, MarksAreEarned
<1> QED BY HistoryInvariant, <1>1, PTL DEF HistorySpec, JevErrorIsEarned

\* A thread that Jev failed leaves the queue only where the user can see it.
THEOREM FailuresAreSeen == HistorySpec => FailuresStayVisible
<1>1. IInv /\ ChunkInv /\ [HistoryNext]_<<vars, historyVars>> =>
        [\A t \in DOMAIN queue \ DOMAIN queue' :
            pc = "settle" /\ pc' = "settle" /\ built[t] # "ok"
               => t \in marked' \cup gone]_vars
  <2> SUFFICES ASSUME IInv, ChunkInv, [HistoryNext]_<<vars, historyVars>>,
                      NEW t \in DOMAIN queue \ DOMAIN queue',
                      pc = "settle", pc' = "settle", built[t] # "ok"
               PROVE  t \in marked' \cup gone
    OBVIOUS
  <2>1. [Next]_vars \/ queue' = queue
    BY DEF HistoryNext, MoveBack, runVars
  <2> QED BY <2>1, FailuresLeaveMarked
<1> QED BY HistoryInvariant, <1>1, PTL DEF HistorySpec, FailuresStayVisible

\* Once the stored queue shows a thread as handled, no run ever moves it again:
\* not for a reply, a retry, or after an execution that died.  It may be shown
\* by any run but one that is stuck, the cap met inside the first record after
\* the position; such a run counts for threads with mail behind the position.
THEOREM MovesAreForNewMail == HistorySpec => OnlyNewConversationsMove
<1>1. IInv /\ ChunkInv /\ MoveInv /\ [HistoryNext]_<<vars, historyVars>> =>
        [\A t \in moved' \ moved : t \notin recorded]_<<vars, historyVars>>
  <2> SUFFICES ASSUME IInv, ChunkInv, MoveInv, [HistoryNext]_<<vars, historyVars>>,
                      NEW t \in moved' \ moved
               PROVE  t \notin recorded
    OBVIOUS
  <2>1. [Next]_vars \/ moved' \subseteq moved
    BY DEF HistoryNext, MoveBack
  <2> QED BY <2>1, MovesAreNew
<1> QED BY HistoryInvariant, <1>1, PTL DEF HistorySpec, OnlyNewConversationsMove
=============================================================================
