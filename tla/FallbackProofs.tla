---------------------------- MODULE FallbackProofs ----------------------------
(***************************************************************************)
(* Proofs about the expired-history fallback (module Fallback): its type   *)
(* invariant and the caps, that no mail is lost that the position has      *)
(* passed, that the position never goes back, and that a fallback never    *)
(* repeats a window.                                                       *)
(*                                                                         *)
(* Mail arrives in the order of its history IDs, so a time and an ID cut   *)
(* it at nearly the same place: nothing behind an ID came much earlier     *)
(* than the time that is saved with it, and nothing up to it later.  The   *)
(* lookback makes up for "much", which is how long an execution lasts.     *)
(***************************************************************************)
EXTENDS Fallback, FiniteSetTheorems, SequenceTheorems, TLAPS

-----------------------------------------------------------------------------
(* The inductive invariant.                                                *)

WithinCaps(q) ==
    /\ Cardinality(QueuedThreads(q)) <= QueueMaxItems
    /\ Cardinality(q.manual) <= QueueMaxManualItems

\* Message i is queued in q, or needs no more work.
Accounted(i, q) == mail[i].thread \in QueuedThreads(q) \/ i \in accounted

\* Mail is not from the future, and no ID is.
MailIsPast ==
    /\ \A i \in DOMAIN mail : mail[i].at <= now
    /\ position.savedAt <= now
    /\ position.historyId <= Len(mail) /\ handled <= Len(mail) /\ resumeId <= Len(mail)

\* What lies behind the position came at most an execution before its time.
PositionIsInTime ==
    \A i \in DOMAIN mail :
        i > position.historyId /\ i \notin left => mail[i].at + RunTicks >= position.savedAt

\* The same of a cursor, which also ends where its history ID does.
InTime(c) ==
    /\ c.historyId \in position.historyId..Len(mail)
    /\ c.startedAt <= now /\ c.until = Second(c.startedAt)
    /\ \A i \in DOMAIN mail :
          IF i <= c.historyId THEN mail[i].at <= c.startedAt
          ELSE mail[i].at + RunTicks >= c.startedAt

\* The mail of the searched seconds is accounted for.
Searched(c, q) ==
    \A i \in DOMAIN mail :
        i <= c.historyId /\ Second(mail[i].at) < c.nextAfter => Accounted(i, q)

CursorIsSound == cursor # NoCursor => InTime(cursor) /\ Searched(cursor, stored)

\* An execution reads its clock within its time, and what it has not read came
\* after it began.
RunIsShort ==
    /\ pc \in {"history", "saveIngested", "advance", "start"} =>
          began <= now /\ now <= began + RunTicks
    /\ pc \in {"reset", "resetPosition"} => began = now
    /\ pc \in {"saveIngested", "advance"} /\ ~early =>
          \A i \in DOMAIN mail : i > handled => mail[i].at >= began
    /\ pc \in {"start", "reset", "resetPosition"} =>
          /\ position.historyId <= resumeId
          /\ \A i \in DOMAIN mail : i > resumeId => mail[i].at >= began

\* History is read only without a cursor, in order, from the position on.
HistoryIsRead ==
    /\ pc \in {"history", "saveIngested", "advance", "start", "resetPosition"} =>
          cursor = NoCursor
    /\ pc \in {"history", "saveIngested", "advance"} =>
          /\ position.historyId <= handled
          /\ \A i \in 1..handled : Accounted(i, queue)

\* The cursor in memory differs from the stored one in its size at most.
WindowIsCursor ==
    pc \in {"window", "saveWindow", "saveCursor", "keep", "deleteCursor"} =>
        /\ cursor # NoCursor /\ window # NoCursor
        /\ window.historyId = cursor.historyId /\ window.oldSavedAt = cursor.oldSavedAt
        /\ window.nextAfter = cursor.nextAfter /\ window.until = cursor.until
        /\ window.startedAt = cursor.startedAt
        /\ window.windowSeconds <= cursor.windowSeconds

\* A window that is being saved has been searched to its end.
WindowIsTaken ==
    pc \in {"saveWindow", "saveCursor"} =>
        /\ ~IsDone(window)
        /\ \A i \in DOMAIN mail :
              i <= window.historyId /\ Second(mail[i].at) <= LastSecond(window) =>
                  Accounted(i, queue)

\* The queue in memory holds what is stored, and is it between the saves.
QueueIsKept ==
    /\ WithinCaps(queue)
    /\ pc \in {"history", "saveIngested", "saveWindow"} =>
          QueuedThreads(stored) \subseteq QueuedThreads(queue)
    /\ pc \in {"advance", "start", "window", "saveCursor", "keep", "deleteCursor",
               "work"} => queue = stored

IInv ==
    /\ TypeOK
    /\ MailIsPast
    /\ PositionIsInTime
    /\ CursorIsSound
    /\ RunIsShort
    /\ HistoryIsRead
    /\ WindowIsCursor
    /\ WindowIsTaken
    /\ QueueIsKept
    /\ MailIsAccountedFor

-----------------------------------------------------------------------------
(* Seconds, cursors and queues.                                            *)

\* A second holds TicksPerSecond ticks, and the lookback is at least as long
\* as an execution.
LEMMA SecondFacts ==
    ASSUME NEW a \in Nat, NEW b \in Nat
    PROVE  /\ Second(a) \in Nat
           /\ a <= b => Second(a) <= Second(b)
           /\ a + RunTicks >= b => Second(a) + LookbackSeconds >= Second(b)
  <1> DEFINE T == TicksPerSecond
             x == a \div T
             y == b \div T
  <1>1. T \in Nat /\ T > 0 /\ RunTicks \in Nat /\ LookbackSeconds \in Nat
        /\ RunTicks <= LookbackSeconds * T
    BY FallbackAssumption
  <1>2. x \in Int /\ T * x <= a /\ a < T * x + T BY <1>1
  <1>3. y \in Int /\ T * y <= b /\ b < T * y + T BY <1>1
  <1>4. Second(a) = x /\ Second(b) = y BY DEF Second
  <1> HIDE DEF x, y, T
  <1>5. x >= 0
    <2>1. SUFFICES ASSUME x <= -1 PROVE FALSE BY <1>2
    <2>2. T * x <= T * (-1) BY <1>1, <1>2, <2>1
    <2> QED BY <1>1, <1>2, <2>2
  <1>6. ASSUME a <= b PROVE x <= y
    <2>1. SUFFICES ASSUME y + 1 <= x PROVE FALSE BY <1>2, <1>3
    <2>2. T * (y + 1) <= T * x BY <1>1, <1>2, <1>3, <2>1
    <2>3. T * (y + 1) = T * y + T BY <1>1, <1>3
    <2> QED BY <1>1, <1>2, <1>3, <1>6, <2>2, <2>3
  <1>7. ASSUME a + RunTicks >= b PROVE x + LookbackSeconds >= y
    <2>1. SUFFICES ASSUME x + LookbackSeconds + 1 <= y PROVE FALSE
      BY <1>1, <1>2, <1>3
    <2>2. T * (x + LookbackSeconds + 1) <= T * y BY <1>1, <1>2, <1>3, <2>1
    <2>3. T * (x + LookbackSeconds + 1) = T * x + LookbackSeconds * T + T
      BY <1>1, <1>2
    <2>4. LookbackSeconds * T \in Int /\ T * x \in Int /\ T * y \in Int BY <1>1, <1>2, <1>3
    <2> QED BY <1>1, <1>2, <1>3, <1>7, <2>2, <2>3, <2>4
  <1> QED BY <1>2, <1>4, <1>5, <1>6, <1>7

\* What the operations on a cursor return.
LEMMA StartedFacts ==
    ASSUME NEW historyId \in Nat, NEW oldSavedAt \in Nat, NEW at \in Nat
    PROVE  LET c == Started(historyId, oldSavedAt, at)
           IN  /\ c \in Cursors /\ c.historyId = historyId /\ c.startedAt = at
               /\ c.until = Second(at)
               /\ \A s \in Nat : s + LookbackSeconds >= Second(oldSavedAt) =>
                     ~(s < c.nextAfter)
  <1>1. Second(oldSavedAt) \in Nat /\ Second(at) \in Nat BY SecondFacts
  <1> QED BY <1>1, FallbackAssumption DEF Started, AtLeast, Cursors

LEMMA ShrunkFacts ==
    ASSUME NEW c \in Cursors, c.windowSeconds > MinWindowSeconds
    PROVE  LET d == Shrunk(c)
           IN  /\ d \in Cursors /\ d.historyId = c.historyId
               /\ d.oldSavedAt = c.oldSavedAt /\ d.nextAfter = c.nextAfter
               /\ d.until = c.until /\ d.startedAt = c.startedAt
               /\ d.windowSeconds <= c.windowSeconds
  BY FallbackAssumption DEF Shrunk, AtLeast, Cursors

LEMMA AdvancedFacts ==
    ASSUME NEW c \in Cursors, ~IsDone(c)
    PROVE  LET d == Advanced(c)
           IN  /\ d \in Cursors /\ d.historyId = c.historyId
               /\ d.oldSavedAt = c.oldSavedAt
               /\ d.until = c.until /\ d.startedAt = c.startedAt
               /\ d.nextAfter = LastSecond(c) + 1 /\ d.nextAfter > c.nextAfter
               /\ LastSecond(c) \in Nat
  <1> DEFINE d == Advanced(c)
             last == LastSecond(c)
             size == AtMost(c.windowSeconds * 2, MaxWindowSeconds)
  <1>1. /\ c.windowSeconds \in Nat /\ c.windowSeconds >= MinWindowSeconds
        /\ c.windowSeconds <= MaxWindowSeconds
        /\ c.nextAfter \in Nat /\ c.until \in Nat
        /\ MinWindowSeconds \in Nat /\ MinWindowSeconds > 0 /\ MaxWindowSeconds \in Nat
    BY FallbackAssumption DEF Cursors
  <1>2. size \in MinWindowSeconds..MaxWindowSeconds BY <1>1 DEF AtMost
  <1>3. last \in Nat /\ last >= c.nextAfter
    BY <1>1 DEF LastSecond, AtMost, IsDone
  <1>4. d = [c EXCEPT !.nextAfter = last + 1, !.windowSeconds = size] BY DEF Advanced
  <1> HIDE DEF d, last, size
  <1>5. last + 1 \in Nat /\ last + 1 > c.nextAfter BY <1>1, <1>3
  <1>6. d \in Cursors /\ d.nextAfter = last + 1 /\ d.historyId = c.historyId
        /\ d.oldSavedAt = c.oldSavedAt /\ d.until = c.until /\ d.startedAt = c.startedAt
    BY <1>2, <1>4, <1>5 DEF Cursors
  <1> QED BY <1>3, <1>5, <1>6 DEF d, last

\* NoCursor is not a cursor.
LEMMA NoCursorFacts ==
    /\ NoCursor \notin Cursors
    /\ \A c \in Cursors : c # NoCursor /\ c.historyId \in Nat /\ c.nextAfter \in Nat
          /\ c.until \in Nat /\ c.startedAt \in Nat /\ c.windowSeconds \in Nat
          /\ c.oldSavedAt \in Nat
  <1>1. \A c \in Cursors : c.historyId >= 0 /\ NoCursor.historyId = -1
    BY DEF Cursors, NoCursor
  <1> QED BY <1>1, FallbackAssumption DEF Cursors

\* Queues of threads are finite.
LEMMA ThreadSets ==
    ASSUME NEW S \in SUBSET Threads, NEW R \in SUBSET S
    PROVE  /\ IsFiniteSet(S) /\ IsFiniteSet(R)
           /\ Cardinality(S) \in Nat /\ Cardinality(R) \in Nat
           /\ Cardinality(R) <= Cardinality(S)
  <1>1. IsFiniteSet(S) BY FS_Subset, FallbackAssumption
  <1> QED BY <1>1, FS_Subset, FS_CardinalityType

\* A queue with no more new threads than there is room for keeps both caps.
LEMMA EnqueuedFacts ==
    ASSUME NEW q \in Queues, WithinCaps(q), NEW S \in SUBSET Threads,
           Cardinality(S \ QueuedThreads(q)) <= Room(q)
    PROVE  LET r == EnqueuedScheduled(q, S)
           IN  /\ r \in Queues /\ WithinCaps(r)
               /\ QueuedThreads(r) = QueuedThreads(q) \cup S
  <1> DEFINE r == EnqueuedScheduled(q, S)
             Q == QueuedThreads(q)
             N == S \ Q
  <1>1. /\ q.scheduled \in SUBSET Threads /\ q.manual \in SUBSET Threads
        /\ Q = q.scheduled \cup q.manual
    BY DEF Queues, QueuedThreads
  <1>2. r \in Queues /\ r.scheduled = q.scheduled \cup S /\ r.manual = q.manual \ S
    BY <1>1 DEF EnqueuedScheduled, Queues
  <1>3. QueuedThreads(r) = Q \cup S BY <1>1, <1>2 DEF QueuedThreads
  <1>4. QueuedThreads(r) = Q \cup N BY <1>3
  <1>5. Q \in SUBSET Threads /\ N \in SUBSET Threads BY <1>1
  <1> HIDE DEF r, Q
  <1>6. IsFiniteSet(Q) /\ IsFiniteSet(N) /\ Cardinality(Q) \in Nat /\ Cardinality(N) \in Nat
    BY <1>5, ThreadSets
  <1>7. Cardinality(Q \cup N) = Cardinality(Q) + Cardinality(N) - Cardinality(Q \cap N)
    BY <1>6, FS_Union
  <1>8. Cardinality(Q \cap N) = 0
    <2>1. Q \cap N = {} OBVIOUS
    <2> QED BY <2>1, FS_EmptySet
  <1>9. Cardinality(N) <= QueueMaxItems - Cardinality(Q) BY DEF Room, Q
  <1>10. Cardinality(r.manual) <= Cardinality(q.manual)
    <2>1. r.manual \in SUBSET q.manual BY <1>2
    <2> QED BY <1>1, <2>1, ThreadSets
  <1>11. Cardinality(r.manual) \in Nat /\ Cardinality(q.manual) \in Nat
    BY <1>1, <1>2, ThreadSets
  <1>12. Cardinality(QueuedThreads(r)) <= QueueMaxItems
    BY <1>4, <1>6, <1>7, <1>8, <1>9, FallbackAssumption
  <1>13. WithinCaps(r)
    BY <1>10, <1>11, <1>12, FallbackAssumption DEF WithinCaps
  <1> QED BY <1>2, <1>3, <1>13 DEF r, Q

\* One thread fits if it is queued already or there is any room.
LEMMA RoomForOne ==
    ASSUME NEW q \in Queues, WithinCaps(q), NEW t \in Threads,
           t \in QueuedThreads(q) \/ Room(q) > 0
    PROVE  Cardinality({t} \ QueuedThreads(q)) <= Room(q)
  <1>1. QueuedThreads(q) \in SUBSET Threads BY DEF Queues, QueuedThreads
  <1>2. Cardinality(QueuedThreads(q)) \in Nat BY <1>1, ThreadSets
  <1>3. Room(q) \in Int /\ Room(q) >= 0
    BY <1>2, FallbackAssumption DEF Room, WithinCaps
  <1>4. CASE t \in QueuedThreads(q)
    <2>1. {t} \ QueuedThreads(q) = {} BY <1>4
    <2> QED BY <1>3, <2>1, FS_EmptySet
  <1>5. CASE t \notin QueuedThreads(q)
    <2>1. {t} \ QueuedThreads(q) = {t} BY <1>5
    <2>2. Cardinality({t}) = 1 BY FS_Singleton
    <2>3. Room(q) > 0 BY <1>5
    <2> QED BY <1>3, <2>1, <2>2, <2>3
  <1> QED BY <1>4, <1>5

\* So does one that a thread has left.
LEMMA WithoutThreadFacts ==
    ASSUME NEW q \in Queues, WithinCaps(q), NEW t
    PROVE  LET r == WithoutThread(q, t)
           IN  /\ r \in Queues /\ WithinCaps(r)
               /\ QueuedThreads(r) = QueuedThreads(q) \ {t}
  <1> DEFINE r == WithoutThread(q, t)
  <1>1. r \in Queues /\ r.scheduled = q.scheduled \ {t} /\ r.manual = q.manual \ {t}
        /\ q.scheduled \in SUBSET Threads /\ q.manual \in SUBSET Threads
    BY DEF WithoutThread, Queues
  <1>2. QueuedThreads(r) = QueuedThreads(q) \ {t} BY <1>1 DEF QueuedThreads
  <1>3. QueuedThreads(q) \in SUBSET Threads BY <1>1 DEF QueuedThreads
  <1>4. QueuedThreads(r) \in SUBSET QueuedThreads(q) /\ r.manual \in SUBSET q.manual
    BY <1>1, <1>2
  <1> HIDE DEF r
  <1>5. /\ Cardinality(QueuedThreads(r)) <= Cardinality(QueuedThreads(q))
        /\ Cardinality(QueuedThreads(r)) \in Nat /\ Cardinality(QueuedThreads(q)) \in Nat
        /\ Cardinality(r.manual) <= Cardinality(q.manual)
        /\ Cardinality(r.manual) \in Nat /\ Cardinality(q.manual) \in Nat
    BY <1>1, <1>3, <1>4, ThreadSets
  <1>6. WithinCaps(r) BY <1>5, FallbackAssumption DEF WithinCaps
  <1> QED BY <1>1, <1>2, <1>6 DEF r

LEMMA EmptyQueueFacts ==
    EmptyQueue \in Queues /\ WithinCaps(EmptyQueue) /\ QueuedThreads(EmptyQueue) = {}
  <1>1. EmptyQueue \in Queues /\ QueuedThreads(EmptyQueue) = {} /\ EmptyQueue.manual = {}
    BY DEF EmptyQueue, Queues, QueuedThreads
  <1> QED BY <1>1, FS_EmptySet, FallbackAssumption DEF WithinCaps

-----------------------------------------------------------------------------
(* What most steps keep.                                                   *)

\* The types of the cursor's and the mail's fields.
LEMMA MailFields ==
    ASSUME TypeOK
    PROVE  /\ now \in Nat /\ Len(mail) \in Nat /\ DOMAIN mail = 1..Len(mail)
           /\ \A i \in DOMAIN mail : /\ mail[i].thread \in Threads
                                     /\ mail[i].at \in Nat /\ Second(mail[i].at) \in Nat
           /\ position.historyId \in Nat /\ position.savedAt \in Nat
  <1> DEFINE Message == [thread : Threads, at : Nat]
  <1>1. mail \in Seq(Message) BY DEF TypeOK
  <1> HIDE DEF Message
  <1>2. \A i \in 1..Len(mail) : mail[i] \in Message BY <1>1, ElementOfSeq
  <1>3. Len(mail) \in Nat /\ DOMAIN mail = 1..Len(mail) BY <1>1
  <1>4. \A i \in DOMAIN mail : mail[i].thread \in Threads /\ mail[i].at \in Nat
    BY <1>2, <1>3 DEF Message
  <1>5. \A i \in DOMAIN mail : Second(mail[i].at) \in Nat BY <1>4, SecondFacts
  <1> QED BY <1>3, <1>4, <1>5 DEF TypeOK, Positions

\* A step that leaves the world and the position alone, at most deletes the
\* cursor, and forgets no thread.
LEMMA QuietStep ==
    ASSUME IInv, UNCHANGED <<now, mail, position, left>>,
           cursor' = cursor \/ cursor' = NoCursor,
           accounted \subseteq accounted',
           \A i \in DOMAIN mail : Accounted(i, stored) => Accounted(i, stored)',
           handled' <= Len(mail), resumeId' <= Len(mail)
    PROVE  MailIsPast' /\ PositionIsInTime' /\ CursorIsSound' /\ MailIsAccountedFor'
  <1>1. MailIsPast' BY DEF IInv, MailIsPast
  <1>2. PositionIsInTime' BY DEF IInv, PositionIsInTime
  <1>3. CursorIsSound'
    BY DEF IInv, CursorIsSound, InTime, Searched, Second
  <1>4. MailIsAccountedFor'
    <2>1. \A i \in DOMAIN mail : i <= position.historyId => Accounted(i, stored)
      BY DEF IInv, MailIsAccountedFor, Accounted
    <2> QED BY <2>1 DEF MailIsAccountedFor, Accounted
  <1> QED BY <1>1, <1>2, <1>3, <1>4

\* What is accounted for stays so while the queue does not lose its thread.
LEMMA AccountedKept ==
    ASSUME mail' = mail, accounted \subseteq accounted',
           QueuedThreads(stored) \subseteq QueuedThreads(stored')
    PROVE  \A i \in DOMAIN mail : Accounted(i, stored) => Accounted(i, stored)'
  BY DEF Accounted

\* An execution that has ended has nothing in memory.
LEMMA EndedStep ==
    ASSUME IInv, Ended, UNCHANGED <<world, position, cursor, observed>>,
           stored' = stored \/ (pc = "history" /\ stored' = queue),
           faults' \in Nat
    PROVE  IInv'
  <1>1. /\ pc' = "idle" /\ queue' = EmptyQueue /\ handled' = 0 /\ resumeId' = 0
        /\ began' = 0 /\ early' = FALSE /\ window' = NoCursor
    BY DEF Ended
  <1>2. UNCHANGED <<now, mail, expired, position, cursor, accounted, left>>
    BY DEF world, observed
  <1>3. TypeOK /\ stored' \in Queues /\ WithinCaps(stored')
    BY DEF IInv, TypeOK, QueueIsKept, WithinCaps
  <1>4. QueuedThreads(stored) \subseteq QueuedThreads(stored')
    BY DEF IInv, QueueIsKept
  <1>5. TypeOK' BY <1>1, <1>2, <1>3, EmptyQueueFacts DEF TypeOK, WithinCaps
  <1>6. Len(mail) \in Nat BY <1>3, MailFields
  <1>7. MailIsPast' /\ PositionIsInTime' /\ CursorIsSound' /\ MailIsAccountedFor'
    BY <1>1, <1>2, <1>4, <1>6, AccountedKept, QuietStep
  <1>8. RunIsShort' /\ HistoryIsRead' /\ WindowIsCursor' /\ WindowIsTaken'
    BY <1>1 DEF RunIsShort, HistoryIsRead, WindowIsCursor, WindowIsTaken
  <1>9. QueueIsKept' BY <1>1, EmptyQueueFacts DEF QueueIsKept, WithinCaps
  <1> QED BY <1>5, <1>7, <1>8, <1>9 DEF IInv

LEMMA EndingSteps ==
    ASSUME IInv, Crash \/ FinishRun \/ ProfileFails
    PROVE  IInv'
  <1>1. faults \in Nat BY DEF IInv, TypeOK
  <1>2. Ended /\ UNCHANGED <<world, position, cursor, observed>> /\ faults' \in Nat
    BY <1>1 DEF Crash, FinishRun, ProfileFails, Fault, persistent
  <1>3. stored' = stored \/ (pc = "history" /\ stored' = queue)
    BY DEF Crash, FinishRun, ProfileFails, persistent
  <1> QED BY <1>2, <1>3, EndedStep

-----------------------------------------------------------------------------
(* The environment.                                                        *)

LEMMA TickStep ==
    ASSUME IInv, Tick
    PROVE  IInv'
  <1>1. /\ now' = now + 1
        /\ UNCHANGED <<mail, expired, persistent, runVars, observed, faults>>
        /\ pc = "idle" \/ (pc \in {"advance", "start"} /\ now < began + RunTicks)
    BY DEF Tick
  <1>2. TypeOK /\ now \in Nat /\ began \in Nat /\ RunTicks \in Nat
    BY FallbackAssumption DEF IInv, TypeOK
  <1>3. TypeOK'
    BY <1>1, <1>2 DEF TypeOK, persistent, runVars, observed
  <1>4. MailIsPast'
    <2>1. \A i \in DOMAIN mail : mail[i].at \in Nat BY <1>2, MailFields
    <2>2. position.savedAt \in Nat BY <1>2, MailFields
    <2> QED BY <1>1, <1>2, <2>1, <2>2 DEF IInv, MailIsPast, persistent, runVars
  <1>5. PositionIsInTime' /\ MailIsAccountedFor'
    BY <1>1 DEF IInv, PositionIsInTime, MailIsAccountedFor, persistent, observed
  <1>6. CursorIsSound'
    <2>1. cursor # NoCursor => cursor.startedAt \in Nat
      BY <1>2, NoCursorFacts DEF TypeOK
    <2> QED BY <1>1, <1>2, <2>1 DEF IInv, CursorIsSound, InTime, Searched, Second,
                                   Accounted, persistent, observed
  <1>7. RunIsShort'
    BY <1>1, <1>2 DEF IInv, RunIsShort, persistent, runVars
  <1>8. HistoryIsRead' /\ WindowIsCursor' /\ WindowIsTaken' /\ QueueIsKept'
    BY <1>1 DEF IInv, HistoryIsRead, WindowIsCursor, WindowIsTaken, QueueIsKept,
                WithinCaps, Accounted, Second, persistent, runVars, observed
  <1> QED BY <1>3, <1>4, <1>5, <1>6, <1>7, <1>8 DEF IInv

\* New mail lies behind every history ID that is held, and is of this moment.
LEMMA ReceiveMailStep ==
    ASSUME IInv, NEW t \in Threads, ReceiveMail(t)
    PROVE  IInv'
  <1> DEFINE message == [thread |-> t, at |-> now]
             n == Len(mail)
  <1>1. /\ mail' = Append(mail, message)
        /\ UNCHANGED <<now, expired, persistent, runVars, observed, faults>>
    BY DEF ReceiveMail
  <1>2. TypeOK /\ now \in Nat /\ began \in Nat /\ RunTicks \in Nat
    BY FallbackAssumption DEF IInv, TypeOK
  <1>3. /\ mail' \in Seq([thread : Threads, at : Nat])
        /\ DOMAIN mail = 1..n /\ n \in Nat /\ Len(mail') = n + 1
        /\ DOMAIN mail' = 1..n + 1
        /\ \A i \in 1..n : mail'[i] = mail[i]
        /\ mail'[n + 1] = message
    <2>1. mail \in Seq([thread : Threads, at : Nat]) BY <1>2 DEF TypeOK
    <2>2. message \in [thread : Threads, at : Nat] BY <1>2
    <2> HIDE DEF message
    <2> QED BY <1>1, <2>1, <2>2
  <1>4. message.at = now /\ message.thread = t OBVIOUS
  <1> HIDE DEF message
  <1>5. \A i \in DOMAIN mail' : (i \in DOMAIN mail /\ mail'[i] = mail[i])
                                 \/ (i = n + 1 /\ mail'[i] = message)
    BY <1>3
  <1>6. /\ position.historyId <= n /\ handled <= n /\ resumeId <= n
        /\ position.historyId \in Nat /\ handled \in Nat /\ resumeId \in Nat
        /\ position.savedAt \in Nat /\ position.savedAt <= now
    BY <1>2, MailFields DEF IInv, MailIsPast, TypeOK
  <1> HIDE DEF n
  <1>7. TypeOK'
    BY <1>1, <1>2, <1>3 DEF TypeOK, persistent, runVars, observed
  <1>8. MailIsPast'
    BY <1>1, <1>2, <1>3, <1>4, <1>5, <1>6 DEF IInv, MailIsPast, persistent, runVars
  <1>9. PositionIsInTime'
    BY <1>1, <1>2, <1>4, <1>5, <1>6 DEF IInv, PositionIsInTime, persistent, observed
  <1>10. MailIsAccountedFor'
    BY <1>1, <1>3, <1>5, <1>6 DEF IInv, MailIsAccountedFor, persistent, observed
  <1>11. CursorIsSound'
    <2>1. SUFFICES ASSUME cursor # NoCursor
                   PROVE  InTime(cursor)' /\ Searched(cursor, stored)'
      BY <1>1 DEF CursorIsSound, persistent
    <2>2. cursor \in Cursors BY <1>2, <2>1 DEF TypeOK
    <2>3. cursor.startedAt \in Nat /\ cursor.historyId \in Nat BY <2>2, NoCursorFacts
    <2>4. InTime(cursor) /\ Searched(cursor, stored)
      BY <2>1 DEF IInv, CursorIsSound
    <2>5. cursor' = cursor /\ stored' = stored /\ position' = position /\ now' = now
          /\ accounted' = accounted
      BY <1>1 DEF persistent, observed
    <2>6. cursor.historyId <= n BY <2>4, <1>3 DEF InTime, n
    <2>7. InTime(cursor)'
      BY <1>2, <1>3, <1>4, <1>5, <2>3, <2>4, <2>5, <2>6 DEF InTime, Second, n
    <2>8. Searched(cursor, stored)'
      BY <1>3, <1>5, <2>3, <2>4, <2>5, <2>6 DEF Searched, Second, Accounted
    <2> QED BY <2>7, <2>8
  <1>12. RunIsShort'
    BY <1>1, <1>2, <1>4, <1>5 DEF IInv, RunIsShort, persistent, runVars
  <1>13. HistoryIsRead'
    BY <1>1, <1>3, <1>6 DEF IInv, HistoryIsRead, Accounted, persistent, runVars, observed
  <1>14. WindowIsCursor' /\ QueueIsKept'
    BY <1>1 DEF IInv, WindowIsCursor, QueueIsKept, WithinCaps, persistent, runVars
  <1>15. WindowIsTaken'
    <2>1. SUFFICES ASSUME pc \in {"saveWindow", "saveCursor"}
                   PROVE  WindowIsTaken'
      BY <1>1 DEF WindowIsTaken, runVars
    <2>2. window.historyId = cursor.historyId /\ cursor # NoCursor
      BY <2>1 DEF IInv, WindowIsCursor
    <2>3. window.historyId \in Nat /\ window.historyId <= n
      BY <1>2, <1>3, <2>2, NoCursorFacts DEF IInv, CursorIsSound, InTime, TypeOK, n
    <2> QED BY <1>1, <1>3, <1>5, <2>3
            DEF IInv, WindowIsTaken, Second, Accounted, runVars, observed
  <1> QED BY <1>7, <1>8, <1>9, <1>10, <1>11, <1>12, <1>13, <1>14, <1>15 DEF IInv

LEMMA MinorSteps ==
    ASSUME IInv, ExpireHistory \/ \E t \in Threads : QueueManual(t)
    PROVE  IInv'
  <1>1. TypeOK /\ Len(mail) \in Nat BY MailFields DEF IInv
  <1>2. CASE ExpireHistory
    <2>1. UNCHANGED <<now, mail, persistent, runVars, observed, faults>> /\ expired' = TRUE
      BY <1>2 DEF ExpireHistory
    <2>2. TypeOK' BY <1>1, <2>1 DEF TypeOK, persistent, runVars, observed
    <2>3. MailIsPast' /\ PositionIsInTime' /\ CursorIsSound' /\ MailIsAccountedFor'
      BY <2>1, QuietStep DEF IInv, MailIsPast, Accounted, persistent, runVars, observed
    <2>4. RunIsShort' /\ HistoryIsRead' /\ WindowIsCursor' /\ WindowIsTaken' /\ QueueIsKept'
      BY <2>1 DEF IInv, RunIsShort, HistoryIsRead, WindowIsCursor, WindowIsTaken,
                  QueueIsKept, WithinCaps, Accounted, Second, persistent, runVars, observed
    <2> QED BY <2>2, <2>3, <2>4 DEF IInv
  <1>3. ASSUME NEW t \in Threads, QueueManual(t)
        PROVE  IInv'
    <2> DEFINE q == [stored EXCEPT !.manual = @ \cup {t}]
    <2>1. /\ pc = "idle" /\ stored' = q /\ Room(stored) > 0
          /\ Cardinality(stored.manual) < QueueMaxManualItems
          /\ UNCHANGED <<world, position, cursor, runVars, observed, faults>>
      BY <1>3 DEF QueueManual
    <2>2. stored \in Queues /\ WithinCaps(stored) BY <1>1 DEF TypeOK, WithinCaps
    <2>3. /\ q \in Queues /\ QueuedThreads(q) = QueuedThreads(stored) \cup {t}
          /\ q.manual = stored.manual \cup {t}
          /\ QueuedThreads(stored) \in SUBSET Threads /\ stored.manual \in SUBSET Threads
      BY <2>2 DEF Queues, QueuedThreads
    <2> HIDE DEF q
    <2>4. IsFiniteSet(QueuedThreads(stored)) /\ IsFiniteSet(stored.manual)
          /\ Cardinality(QueuedThreads(stored)) \in Nat /\ Cardinality(stored.manual) \in Nat
      BY <2>3, ThreadSets
    <2>5. /\ Cardinality(QueuedThreads(q)) <= Cardinality(QueuedThreads(stored)) + 1
          /\ Cardinality(q.manual) <= Cardinality(stored.manual) + 1
          /\ Cardinality(QueuedThreads(q)) \in Nat /\ Cardinality(q.manual) \in Nat
      <3>1. ASSUME NEW S \in SUBSET Threads
            PROVE  /\ Cardinality(S \cup {t}) <= Cardinality(S) + 1
                   /\ Cardinality(S \cup {t}) \in Nat
        <4>1. IsFiniteSet(S) /\ Cardinality(S) \in Nat BY ThreadSets
        <4>2. Cardinality(S \cup {t}) = IF t \in S THEN Cardinality(S)
                                        ELSE Cardinality(S) + 1
          BY <4>1, FS_AddElement
        <4> QED BY <4>1, <4>2
      <3> QED BY <2>3, <3>1
    <2>6. WithinCaps(q)
      BY <2>1, <2>4, <2>5, FallbackAssumption DEF WithinCaps, Room
    <2>7. TypeOK'
      BY <1>1, <2>1, <2>3, <2>6 DEF TypeOK, WithinCaps, world, runVars, observed
    <2>8. MailIsPast' /\ PositionIsInTime' /\ CursorIsSound' /\ MailIsAccountedFor'
      <3>1. UNCHANGED <<now, mail, position, left, cursor, accounted, handled, resumeId>>
        BY <2>1 DEF world, runVars, observed
      <3> QED BY <2>1, <2>3, <3>1, QuietStep, AccountedKept DEF IInv, MailIsPast
    <2>9. RunIsShort' /\ HistoryIsRead' /\ WindowIsCursor' /\ WindowIsTaken' /\ QueueIsKept'
      BY <2>1 DEF IInv, RunIsShort, HistoryIsRead, WindowIsCursor, WindowIsTaken,
                  QueueIsKept, WithinCaps, world, runVars, observed
    <2> QED BY <2>7, <2>8, <2>9 DEF IInv
  <1> QED BY <1>2, <1>3

-----------------------------------------------------------------------------
(* Reading history.                                                        *)

LEMMA StartRunStep ==
    ASSUME IInv, StartRun
    PROVE  IInv'
  <1>1. /\ pc = "idle" /\ began' = now /\ queue' = stored
        /\ IF cursor # NoCursor
           THEN pc' = "window" /\ window' = cursor /\ handled' = handled
           ELSE pc' = "history" /\ handled' = position.historyId /\ window' = window
        /\ UNCHANGED <<world, persistent, early, resumeId, observed, faults>>
    BY DEF StartRun
  <1>2. TypeOK /\ now \in Nat /\ Len(mail) \in Nat /\ position.historyId \in Nat
        /\ RunTicks \in Nat
    BY MailFields, FallbackAssumption DEF IInv
  <1>3. UNCHANGED <<now, mail, position, left, cursor, stored, accounted, resumeId>>
    BY <1>1 DEF world, persistent, observed
  <1>4. TypeOK'
    BY <1>1, <1>2 DEF TypeOK, world, persistent, observed
  <1>5. MailIsPast' /\ PositionIsInTime' /\ CursorIsSound' /\ MailIsAccountedFor'
    BY <1>1, <1>3, QuietStep DEF IInv, MailIsPast, Accounted
  <1>6. RunIsShort'
    BY <1>1, <1>2, <1>3 DEF RunIsShort
  <1>7. HistoryIsRead'
    <2>1. \A i \in 1..position.historyId : Accounted(i, stored)
      <3>1. position.historyId <= Len(mail) BY DEF IInv, MailIsPast
      <3> QED BY <1>2, <3>1, MailFields DEF IInv, MailIsAccountedFor, Accounted
    <2> QED BY <1>1, <1>2, <1>3, <2>1 DEF HistoryIsRead, Accounted
  <1>8. WindowIsCursor'
    <2>1. cursor # NoCursor => cursor.windowSeconds \in Nat
      BY <1>2, NoCursorFacts DEF TypeOK
    <2> QED BY <1>1, <1>3, <2>1 DEF WindowIsCursor
  <1>9. WindowIsTaken' BY <1>1 DEF WindowIsTaken
  <1>10. QueueIsKept'
    BY <1>1, <1>2, <1>3 DEF QueueIsKept, WithinCaps, TypeOK
  <1> QED BY <1>4, <1>5, <1>6, <1>7, <1>8, <1>9, <1>10 DEF IInv

LEMMA IngestRecordStep ==
    ASSUME IInv, IngestRecord
    PROVE  IInv'
  <1> DEFINE t == mail[handled + 1].thread
             q == EnqueuedScheduled(queue, {t})
  <1>1. /\ pc = "history" /\ pc' = pc /\ handled < Len(mail) /\ handled' = handled + 1
        /\ t \in QueuedThreads(queue) \/ Room(queue) > 0
        /\ queue' = q
        /\ UNCHANGED <<world, persistent, pc, began, early, resumeId, window, observed,
                       faults>>
    BY DEF IngestRecord
  <1>2. TypeOK /\ Len(mail) \in Nat /\ handled \in Nat /\ queue \in Queues
        /\ WithinCaps(queue) /\ DOMAIN mail = 1..Len(mail)
    BY MailFields DEF IInv, TypeOK, QueueIsKept
  <1>3. t \in Threads BY <1>1, <1>2, MailFields
  <1>4. q \in Queues /\ WithinCaps(q) /\ QueuedThreads(q) = QueuedThreads(queue) \cup {t}
    <2>1. Cardinality({t} \ QueuedThreads(queue)) <= Room(queue)
      BY <1>1, <1>2, <1>3, RoomForOne
    <2>2. {t} \in SUBSET Threads BY <1>3
    <2> QED BY <1>2, <2>1, <2>2, EnqueuedFacts
  <1> HIDE DEF q
  <1>5. UNCHANGED <<now, mail, position, left, cursor, stored, accounted, resumeId, began,
                    early>>
    BY <1>1 DEF world, persistent, observed
  <1>6. TypeOK'
    BY <1>1, <1>2, <1>4 DEF TypeOK, world, persistent, observed
  <1>7. MailIsPast' /\ PositionIsInTime' /\ CursorIsSound' /\ MailIsAccountedFor'
    BY <1>1, <1>2, <1>5, QuietStep DEF IInv, MailIsPast, Accounted
  <1>8. RunIsShort' BY <1>1, <1>5 DEF IInv, RunIsShort
  <1>9. HistoryIsRead'
    <2>1. \A i \in 1..handled : Accounted(i, queue) BY <1>1 DEF IInv, HistoryIsRead
    <2>2. \A i \in 1..handled + 1 : i \in 1..handled \/ i = handled + 1 BY <1>2
    <2>3. position.historyId <= handled /\ position.historyId \in Nat
      BY <1>1, <1>2, MailFields DEF IInv, HistoryIsRead
    <2>4. \A i \in 1..handled + 1 : Accounted(i, queue)'
      BY <1>1, <1>4, <1>5, <2>1, <2>2 DEF Accounted
    <2> QED BY <1>1, <1>2, <1>5, <2>3, <2>4 DEF IInv, HistoryIsRead
  <1>10. WindowIsCursor' /\ WindowIsTaken' BY <1>1 DEF WindowIsCursor, WindowIsTaken
  <1>11. QueueIsKept'
    BY <1>1, <1>4, <1>5 DEF IInv, QueueIsKept, WithinCaps
  <1> QED BY <1>6, <1>7, <1>8, <1>9, <1>10, <1>11 DEF IInv

LEMMA HistoryEndSteps ==
    ASSUME IInv, StopIngest \/ FinishHistory
    PROVE  IInv'
  <1>1. /\ pc = "history" /\ pc' = "saveIngested" /\ faults' \in Nat
        /\ (early' = TRUE) \/ (early' = early /\ handled = Len(mail))
        /\ UNCHANGED <<world, persistent, began, queue, handled, resumeId, window, observed>>
    BY DEF StopIngest, FinishHistory, Fault, IInv, TypeOK
  <1>2. UNCHANGED <<now, mail, position, left, cursor, stored, accounted, expired>>
    BY <1>1 DEF world, persistent, observed
  <1>3. TypeOK /\ Len(mail) \in Nat /\ DOMAIN mail = 1..Len(mail)
    BY MailFields DEF IInv
  <1>4. TypeOK' BY <1>1, <1>2, <1>3 DEF TypeOK
  <1>5. MailIsPast' /\ PositionIsInTime' /\ CursorIsSound' /\ MailIsAccountedFor'
    BY <1>1, <1>2, QuietStep DEF IInv, MailIsPast, Accounted
  <1>6. RunIsShort'
    BY <1>1, <1>2, <1>3 DEF IInv, RunIsShort
  <1>7. HistoryIsRead' /\ WindowIsCursor' /\ WindowIsTaken' /\ QueueIsKept'
    BY <1>1, <1>2 DEF IInv, HistoryIsRead, WindowIsCursor, WindowIsTaken, QueueIsKept,
                      WithinCaps, Accounted
  <1> QED BY <1>4, <1>5, <1>6, <1>7 DEF IInv

LEMMA SaveIngestedStep ==
    ASSUME IInv, SaveIngested
    PROVE  IInv'
  <1>1. /\ pc = "saveIngested" /\ pc' = "advance" /\ stored' = queue
        /\ UNCHANGED <<world, position, cursor, began, queue, handled, early, resumeId,
                       window, observed, faults>>
    BY DEF SaveIngested
  <1>2. UNCHANGED <<now, mail, left, accounted, expired>> BY <1>1 DEF world, observed
  <1>3. TypeOK /\ Len(mail) \in Nat BY MailFields DEF IInv
  <1>4. QueuedThreads(stored) \subseteq QueuedThreads(stored') /\ WithinCaps(queue)
    BY <1>1 DEF IInv, QueueIsKept
  <1>5. TypeOK' BY <1>1, <1>2, <1>3, <1>4 DEF TypeOK, WithinCaps
  <1>6. MailIsPast' /\ PositionIsInTime' /\ CursorIsSound' /\ MailIsAccountedFor'
    BY <1>1, <1>2, <1>4, AccountedKept, QuietStep DEF IInv, MailIsPast
  <1>7. RunIsShort' BY <1>1, <1>2 DEF IInv, RunIsShort
  <1>8. HistoryIsRead' /\ WindowIsCursor' /\ WindowIsTaken' /\ QueueIsKept'
    BY <1>1, <1>2, <1>4 DEF IInv, HistoryIsRead, WindowIsCursor, WindowIsTaken,
                            QueueIsKept, WithinCaps, Accounted
  <1> QED BY <1>5, <1>6, <1>7, <1>8 DEF IInv

\* The position moves to what has been handled; what an early stop left unread
\* is exempt, and otherwise nothing behind it is older than the execution.
LEMMA AdvancePositionStep ==
    ASSUME IInv, AdvancePosition
    PROVE  IInv'
  <1>1. /\ pc = "advance" /\ pc' = "work"
        /\ position' = IF handled = position.historyId THEN position
                       ELSE [historyId |-> handled, savedAt |-> now]
        /\ left' = CASE handled = position.historyId -> left
                     [] handled # position.historyId /\ early -> handled + 1..Len(mail)
                     [] OTHER -> {}
        /\ expired' = (expired /\ early) /\ began' = 0 /\ handled' = 0 /\ early' = FALSE
        /\ UNCHANGED <<now, mail, stored, cursor, queue, resumeId, window, accounted, faults>>
    BY DEF AdvancePosition
  <1>2. TypeOK /\ Len(mail) \in Nat /\ DOMAIN mail = 1..Len(mail) /\ now \in Nat
        /\ handled \in Nat /\ began \in Nat /\ position.historyId \in Nat
        /\ position.savedAt \in Nat /\ RunTicks \in Nat
        /\ \A i \in DOMAIN mail : mail[i].at \in Nat
    BY MailFields, FallbackAssumption DEF IInv, TypeOK
  <1>3. cursor = NoCursor BY <1>1 DEF IInv, HistoryIsRead
  <1>4. handled <= Len(mail) /\ position.historyId <= handled
    BY <1>1 DEF IInv, MailIsPast, HistoryIsRead
  <1>5. position'.historyId = handled /\ position'.savedAt \in {position.savedAt, now}
    BY <1>1
  <1>6. TypeOK'
    <2>1. position' \in Positions BY <1>1, <1>2 DEF TypeOK, Positions
    <2>2. left' \in SUBSET Nat BY <1>1, <1>2 DEF TypeOK
    <2>3. expired' \in BOOLEAN BY <1>1
    <2> QED BY <1>1, <1>2, <2>1, <2>2, <2>3 DEF TypeOK
  <1>7. MailIsPast'
    BY <1>1, <1>2, <1>4, <1>5 DEF IInv, MailIsPast
  <1>8. PositionIsInTime'
    <2>1. CASE handled = position.historyId
      BY <1>1, <2>1 DEF IInv, PositionIsInTime
    <2>2. CASE handled # position.historyId /\ early
      BY <1>1, <1>2, <2>2 DEF PositionIsInTime
    <2>3. CASE handled # position.historyId /\ ~early
      <3>1. /\ position'.historyId = handled /\ position'.savedAt = now
            /\ now <= began + RunTicks
            /\ \A i \in DOMAIN mail : i > handled => mail[i].at >= began
        BY <1>1, <2>3 DEF IInv, RunIsShort
      <3> QED BY <1>1, <1>2, <3>1 DEF PositionIsInTime
    <2> QED BY <2>1, <2>2, <2>3
  <1>9. MailIsAccountedFor'
    <2>1. queue = stored /\ \A i \in 1..handled : Accounted(i, queue)
      BY <1>1 DEF IInv, QueueIsKept, HistoryIsRead
    <2>2. \A i \in DOMAIN mail : i <= handled => Accounted(i, stored)
      BY <1>2, <2>1
    <2> QED BY <1>1, <1>5, <2>2 DEF MailIsAccountedFor, Accounted
  <1>10. CursorIsSound' BY <1>1, <1>3 DEF CursorIsSound
  <1>11. RunIsShort' /\ HistoryIsRead' /\ WindowIsCursor' /\ WindowIsTaken' /\ QueueIsKept'
    BY <1>1 DEF IInv, RunIsShort, HistoryIsRead, WindowIsCursor, WindowIsTaken,
                QueueIsKept, WithinCaps
  <1> QED BY <1>6, <1>7, <1>8, <1>9, <1>10, <1>11 DEF IInv

-----------------------------------------------------------------------------
(* The fallback.                                                           *)

LEMMA ReadProfileStep ==
    ASSUME IInv, ReadProfile
    PROVE  IInv'
  <1>1. /\ pc = "history" /\ pc' = "start" /\ stored' = queue
        /\ resumeId' = Len(mail) /\ handled' = 0
        /\ UNCHANGED <<world, position, cursor, began, queue, early, window, observed,
                       faults>>
    BY DEF ReadProfile
  <1>2. UNCHANGED <<now, mail, left, accounted, expired>> BY <1>1 DEF world, observed
  <1>3. TypeOK /\ Len(mail) \in Nat /\ DOMAIN mail = 1..Len(mail) BY MailFields DEF IInv
  <1>4. QueuedThreads(stored) \subseteq QueuedThreads(stored') /\ WithinCaps(queue)
    BY <1>1 DEF IInv, QueueIsKept
  <1>5. TypeOK' BY <1>1, <1>2, <1>3, <1>4 DEF TypeOK, WithinCaps
  <1>6. MailIsPast' /\ PositionIsInTime' /\ CursorIsSound' /\ MailIsAccountedFor'
    BY <1>1, <1>2, <1>3, <1>4, AccountedKept, QuietStep
  <1>7. RunIsShort'
    BY <1>1, <1>2, <1>3 DEF IInv, RunIsShort, MailIsPast
  <1>8. HistoryIsRead' /\ WindowIsCursor' /\ WindowIsTaken' /\ QueueIsKept'
    BY <1>1, <1>2, <1>4 DEF IInv, HistoryIsRead, WindowIsCursor, WindowIsTaken,
                            QueueIsKept, WithinCaps, Accounted
  <1> QED BY <1>5, <1>6, <1>7, <1>8 DEF IInv

\* The first window begins early enough for all that the position has not
\* passed, but for what an early stop left behind.
LEMMA StartFallbackStep ==
    ASSUME IInv, StartFallback
    PROVE  IInv'
  <1> DEFINE c == Started(resumeId, position.savedAt, now)
  <1>1. /\ pc = "start" /\ pc' = "window" /\ cursor' = c /\ window' = c
        /\ accounted' = accounted \cup
             {i \in left : i <= resumeId /\ Second(mail[i].at) < c.nextAfter}
        /\ began' = 0 /\ resumeId' = 0
        /\ UNCHANGED <<world, stored, position, queue, handled, early, left, faults>>
    BY DEF StartFallback
  <1>2. /\ TypeOK /\ Len(mail) \in Nat /\ DOMAIN mail = 1..Len(mail) /\ now \in Nat
        /\ resumeId \in Nat /\ began \in Nat /\ RunTicks \in Nat
        /\ position.historyId \in Nat /\ position.savedAt \in Nat /\ left \in SUBSET Nat
        /\ \A i \in DOMAIN mail : mail[i].at \in Nat /\ Second(mail[i].at) \in Nat
    BY MailFields, FallbackAssumption DEF IInv, TypeOK
  <1>3. /\ c \in Cursors /\ c.historyId = resumeId /\ c.startedAt = now
        /\ c.until = Second(now)
        /\ \A s \in Nat : s + LookbackSeconds >= Second(position.savedAt) =>
              ~(s < c.nextAfter)
    BY <1>2, StartedFacts
  <1> HIDE DEF c
  <1>4. c # NoCursor /\ c.windowSeconds \in Nat BY <1>3, NoCursorFacts
  <1>5. UNCHANGED <<now, mail, expired>> BY <1>1 DEF world
  <1>6. TypeOK'
    <2>1. accounted' \in SUBSET Nat BY <1>1, <1>2 DEF TypeOK
    <2> QED BY <1>1, <1>2, <1>3, <1>5, <2>1 DEF TypeOK
  <1>7. MailIsPast' /\ PositionIsInTime' /\ MailIsAccountedFor'
    BY <1>1, <1>2, <1>5 DEF IInv, MailIsPast, PositionIsInTime, MailIsAccountedFor
  <1>8. CursorIsSound'
    <2>1. InTime(cursor)'
      BY <1>1, <1>2, <1>3, <1>5 DEF IInv, InTime, MailIsPast, RunIsShort, Second
    <2>2. ASSUME NEW i \in DOMAIN mail, i <= c.historyId,
                 Second(mail[i].at) < c.nextAfter
          PROVE  Accounted(i, stored)'
      <3>1. CASE i <= position.historyId
        <4>1. Accounted(i, stored) BY <3>1 DEF IInv, MailIsAccountedFor, Accounted
        <4> QED BY <1>1, <1>5, <4>1 DEF Accounted
      <3>2. CASE i \in left
        BY <1>1, <1>3, <2>2, <3>2 DEF Accounted
      <3>3. CASE i > position.historyId /\ i \notin left
        <4>1. mail[i].at + RunTicks >= position.savedAt
          BY <3>3 DEF IInv, PositionIsInTime
        <4>2. Second(mail[i].at) + LookbackSeconds >= Second(position.savedAt)
          BY <1>2, <4>1, SecondFacts
        <4> QED BY <1>2, <1>3, <2>2, <4>2
      <3> QED BY <1>2, <3>1, <3>2, <3>3
    <2>3. Searched(cursor, stored)' BY <1>1, <1>5, <2>2 DEF Searched, Accounted, Second
    <2> QED BY <1>1, <2>1, <2>3 DEF CursorIsSound
  <1>9. RunIsShort' /\ HistoryIsRead' /\ WindowIsTaken' /\ QueueIsKept'
    BY <1>1, <1>5 DEF IInv, RunIsShort, HistoryIsRead, WindowIsTaken, QueueIsKept,
                      WithinCaps
  <1>10. WindowIsCursor' BY <1>1, <1>4 DEF WindowIsCursor
  <1> QED BY <1>6, <1>7, <1>8, <1>9, <1>10 DEF IInv

\* What a window in memory has in common with the stored cursor.
LEMMA WindowFacts ==
    ASSUME IInv,
           pc \in {"window", "saveWindow", "saveCursor", "keep", "deleteCursor"}
    PROVE  /\ window \in Cursors /\ cursor \in Cursors /\ cursor # NoCursor
           /\ InTime(window) /\ Searched(window, stored)
           /\ window.windowSeconds <= cursor.windowSeconds
           /\ window.nextAfter = cursor.nextAfter /\ window.historyId = cursor.historyId
           /\ window.historyId \in Nat /\ window.nextAfter \in Nat
           /\ window.startedAt \in Nat
  <1>1. TypeOK /\ WindowIsCursor /\ CursorIsSound BY DEF IInv
  <1>2. window \in Cursors /\ cursor \in Cursors /\ cursor # NoCursor
    BY <1>1 DEF TypeOK, WindowIsCursor
  <1>3. InTime(window) /\ Searched(window, stored)
    BY <1>1, <1>2 DEF WindowIsCursor, CursorIsSound, InTime, Searched
  <1> QED BY <1>1, <1>2, <1>3, NoCursorFacts DEF WindowIsCursor

\* A search that has queued, or accounted for, what is in the window.
LEMMA WindowSearched ==
    ASSUME IInv, Searching, NEW take \in SUBSET Threads, pc' = "saveWindow",
           Cardinality(take \ QueuedThreads(queue)) <= Room(queue),
           queue' = EnqueuedScheduled(queue, take),
           accounted \subseteq accounted', accounted' \subseteq Nat,
           \A i \in DOMAIN mail : InWindow(window, mail[i]) =>
                mail[i].thread \in take \/ i \in accounted',
           UNCHANGED <<world, persistent, began, handled, early, resumeId, window, left,
                       faults>>
    PROVE  IInv'
  <1>1. UNCHANGED <<now, mail, expired, position, cursor, stored>>
    BY DEF world, persistent
  <1>2. /\ TypeOK /\ pc = "window" /\ ~IsDone(window) /\ queue = stored
        /\ queue \in Queues /\ WithinCaps(queue)
        /\ \A i \in DOMAIN mail : Second(mail[i].at) \in Nat
    BY MailFields DEF IInv, TypeOK, QueueIsKept, Searching
  <1>3. /\ queue' \in Queues /\ WithinCaps(queue')
        /\ QueuedThreads(queue') = QueuedThreads(queue) \cup take
    BY <1>2, EnqueuedFacts
  <1>4. TypeOK' BY <1>1, <1>2, <1>3 DEF TypeOK, WithinCaps
  <1>5. MailIsPast' /\ PositionIsInTime' /\ CursorIsSound' /\ MailIsAccountedFor'
    BY <1>1, AccountedKept, QuietStep DEF IInv, MailIsPast
  <1>6. RunIsShort' /\ HistoryIsRead' BY DEF RunIsShort, HistoryIsRead
  <1>7. WindowIsCursor'
    BY <1>1, <1>2 DEF IInv, WindowIsCursor
  <1>8. WindowIsTaken'
    <2>1. ASSUME NEW i \in DOMAIN mail, i <= window.historyId,
                 Second(mail[i].at) <= LastSecond(window)
          PROVE  Accounted(i, queue)'
      <3>1. CASE Second(mail[i].at) < window.nextAfter
        <4>1. Accounted(i, stored) BY <1>2, <2>1, <3>1, WindowFacts DEF Searched
        <4> QED BY <1>1, <1>2, <1>3, <4>1 DEF Accounted
      <3>2. CASE Second(mail[i].at) >= window.nextAfter
        <4>1. window.nextAfter \in Nat BY <1>2, WindowFacts
        <4>2. LastSecond(window) \in Nat BY <1>2, WindowFacts, AdvancedFacts
        <4>3. InWindow(window, mail[i])
          BY <1>2, <2>1, <3>2, <4>1, <4>2 DEF InWindow
        <4> QED BY <1>1, <1>3, <4>3 DEF Accounted
      <3> QED BY <1>2, <3>1, <3>2, WindowFacts
    <2> QED BY <1>1, <1>2, <2>1
            DEF WindowIsTaken, Accounted, IsDone, LastSecond, Second
  <1>9. QueueIsKept' BY <1>1, <1>2, <1>3 DEF QueueIsKept, WithinCaps
  <1> QED BY <1>4, <1>5, <1>6, <1>7, <1>8, <1>9 DEF IInv

\* What a search finds is in the window, and its threads are threads.
LEMMA SearchFacts ==
    ASSUME TypeOK, NEW search \in Searches(window, queue)
    PROVE  /\ search.matches = {mail[i].thread :
                                   i \in {j \in DOMAIN mail : InWindow(window, mail[j])}}
           /\ search.found \in SUBSET search.matches
           /\ search.matches \in SUBSET Threads
  <1> DEFINE M == {mail[i].thread : i \in {j \in DOMAIN mail : InWindow(window, mail[j])}}
  <1>1. PICK F \in SUBSET M : search = [found |-> F, matches |-> M] BY DEF Searches
  <1>2. \A i \in DOMAIN mail : mail[i].thread \in Threads BY MailFields
  <1>3. M \in SUBSET Threads BY <1>2
  <1>4. search.found = F /\ search.matches = M BY <1>1
  <1> QED BY <1>1, <1>3, <1>4

LEMMA TakeWindowStep ==
    ASSUME IInv, TakeWindow
    PROVE  IInv'
  <1>1. PICK search \in Searches(window, queue) :
            /\ Fits(window, queue, search.found, search.matches)
            /\ queue' = EnqueuedScheduled(queue, search.found)
    BY DEF TakeWindow
  <1>2. /\ Searching /\ pc' = "saveWindow"
        /\ UNCHANGED <<world, persistent, began, handled, early, resumeId, window,
                       accounted, left, faults>>
    BY DEF TakeWindow, observed
  <1>3. TypeOK /\ accounted \subseteq Nat BY DEF IInv, TypeOK
  <1>4. /\ search.found = search.matches
        /\ Cardinality(search.found \ QueuedThreads(queue)) <= Room(queue)
    BY <1>1 DEF Fits
  <1>5. search.found \in SUBSET Threads BY <1>3, <1>4, SearchFacts
  <1>6. \A i \in DOMAIN mail : InWindow(window, mail[i]) => mail[i].thread \in search.found
    BY <1>3, <1>4, SearchFacts
  <1> QED BY <1>1, <1>2, <1>3, <1>4, <1>5, <1>6, WindowSearched

LEMMA TakeSomeStep ==
    ASSUME IInv, TakeSome
    PROVE  IInv'
  <1>1. PICK search \in Searches(window, queue) :
          LET fresh == search.found \ QueuedThreads(queue)
              fitting == AtMost(Cardinality(fresh), Room(queue))
          IN  \E dropped \in SUBSET fresh :
                LET take == search.found \ dropped
                IN  /\ Cardinality(fresh \ dropped) = fitting
                    /\ queue' = EnqueuedScheduled(queue, take)
                    /\ accounted' = accounted \cup
                          {i \in DOMAIN mail :
                             InWindow(window, mail[i]) /\ mail[i].thread \notin take}
    BY DEF TakeSome
  <1> DEFINE fresh == search.found \ QueuedThreads(queue)
  <1>2. PICK dropped \in SUBSET fresh :
          LET take == search.found \ dropped
          IN  /\ Cardinality(fresh \ dropped) = AtMost(Cardinality(fresh), Room(queue))
              /\ queue' = EnqueuedScheduled(queue, take)
              /\ accounted' = accounted \cup
                    {i \in DOMAIN mail :
                       InWindow(window, mail[i]) /\ mail[i].thread \notin take}
    BY <1>1
  <1> DEFINE take == search.found \ dropped
  <1>3. /\ Searching /\ pc' = "saveWindow"
        /\ UNCHANGED <<world, persistent, began, handled, early, resumeId, window,
                       left, faults>>
    BY DEF TakeSome
  <1>4. /\ TypeOK /\ accounted \subseteq Nat /\ queue \in Queues
        /\ DOMAIN mail \in SUBSET Nat
    BY MailFields DEF IInv, TypeOK
  <1>5. search.found \in SUBSET Threads BY <1>4, SearchFacts
  <1>6. take \in SUBSET Threads BY <1>5
  <1>7. Cardinality(take \ QueuedThreads(queue)) <= Room(queue)
    <2>1. take \ QueuedThreads(queue) = fresh \ dropped OBVIOUS
    <2>2. fresh \in SUBSET Threads /\ QueuedThreads(queue) \in SUBSET Threads
      BY <1>4, <1>5 DEF Queues, QueuedThreads
    <2>3. Cardinality(fresh) \in Nat /\ Cardinality(QueuedThreads(queue)) \in Nat
      BY <2>2, ThreadSets
    <2>4. Room(queue) \in Int BY <2>3, FallbackAssumption DEF Room
    <2> HIDE DEF fresh
    <2> QED BY <1>2, <2>1, <2>3, <2>4 DEF AtMost
  <1>8. /\ queue' = EnqueuedScheduled(queue, take)
        /\ accounted' = accounted \cup
              {i \in DOMAIN mail : InWindow(window, mail[i]) /\ mail[i].thread \notin take}
    BY <1>2
  <1> HIDE DEF take
  <1>9. accounted \subseteq accounted' /\ accounted' \subseteq Nat BY <1>4, <1>8
  <1>10. \A i \in DOMAIN mail : InWindow(window, mail[i]) =>
            mail[i].thread \in take \/ i \in accounted'
    BY <1>8
  <1> QED BY <1>3, <1>6, <1>7, <1>8, <1>9, <1>10, WindowSearched

\* A smaller window, or one that waits, is still the stored one.
LEMMA WaitingSteps ==
    ASSUME IInv, ShrinkWindow \/ WaitForRoom \/ StopFallback
    PROVE  IInv'
  <1>1. /\ pc = "window" /\ pc' \in {"window", "keep"}
        /\ window' = window
             \/ (window.windowSeconds > MinWindowSeconds /\ window' = Shrunk(window))
        /\ UNCHANGED <<world, persistent, began, queue, handled, early, resumeId, observed>>
        /\ faults' \in Nat
    BY DEF ShrinkWindow, WaitForRoom, StopFallback, Searching, Fault, IInv, TypeOK
  <1>2. UNCHANGED <<now, mail, expired, position, cursor, stored, accounted, left>>
    BY <1>1 DEF world, persistent, observed
  <1>3. TypeOK /\ window \in Cursors /\ cursor \in Cursors BY <1>1, WindowFacts DEF IInv
  <1>4. /\ window' \in Cursors
        /\ window'.historyId = window.historyId /\ window'.oldSavedAt = window.oldSavedAt
        /\ window'.nextAfter = window.nextAfter /\ window'.until = window.until
        /\ window'.startedAt = window.startedAt
        /\ window'.windowSeconds <= window.windowSeconds
        /\ window'.windowSeconds \in Nat
    BY <1>1, <1>3, ShrunkFacts, NoCursorFacts
  <1>5. TypeOK' BY <1>1, <1>2, <1>3, <1>4 DEF TypeOK
  <1>6. MailIsPast' /\ PositionIsInTime' /\ CursorIsSound' /\ MailIsAccountedFor'
    BY <1>1, <1>2, AccountedKept, QuietStep DEF IInv, MailIsPast
  <1>7. WindowIsCursor'
    <2>1. window.windowSeconds \in Nat /\ cursor.windowSeconds \in Nat
          /\ window' # NoCursor
      BY <1>3, <1>4, NoCursorFacts
    <2> QED BY <1>1, <1>2, <1>4, <2>1 DEF IInv, WindowIsCursor
  <1>8. RunIsShort' /\ HistoryIsRead' /\ WindowIsTaken'
    BY <1>1 DEF RunIsShort, HistoryIsRead, WindowIsTaken
  <1>9. QueueIsKept' BY <1>1, <1>2 DEF IInv, QueueIsKept, WithinCaps
  <1> QED BY <1>5, <1>6, <1>7, <1>8, <1>9 DEF IInv

LEMMA SaveWindowStep ==
    ASSUME IInv, SaveWindow
    PROVE  IInv'
  <1>1. /\ pc = "saveWindow" /\ pc' = "saveCursor" /\ stored' = queue
        /\ UNCHANGED <<world, position, cursor, began, queue, handled, early, resumeId,
                       window, observed, faults>>
    BY DEF SaveWindow
  <1>2. UNCHANGED <<now, mail, left, accounted, expired>> BY <1>1 DEF world, observed
  <1>3. TypeOK BY DEF IInv
  <1>4. QueuedThreads(stored) \subseteq QueuedThreads(stored') /\ WithinCaps(queue)
    BY <1>1 DEF IInv, QueueIsKept
  <1>5. TypeOK' BY <1>1, <1>2, <1>3, <1>4 DEF TypeOK, WithinCaps
  <1>6. MailIsPast' /\ PositionIsInTime' /\ CursorIsSound' /\ MailIsAccountedFor'
    BY <1>1, <1>2, <1>4, AccountedKept, QuietStep DEF IInv, MailIsPast
  <1>7. RunIsShort' /\ HistoryIsRead' BY <1>1 DEF RunIsShort, HistoryIsRead
  <1>8. WindowIsCursor' /\ WindowIsTaken' /\ QueueIsKept'
    BY <1>1, <1>2, <1>4 DEF IInv, WindowIsCursor, WindowIsTaken, QueueIsKept, WithinCaps,
                            Accounted, Second
  <1> QED BY <1>5, <1>6, <1>7, <1>8 DEF IInv

\* The cursor passes the window it has just saved the queue of.
LEMMA SaveCursorStep ==
    ASSUME IInv, SaveCursor
    PROVE  IInv' /\ cursor'.nextAfter > cursor.nextAfter
  <1> DEFINE c == Advanced(window)
  <1>1. /\ pc = "saveCursor" /\ pc' = "window" /\ cursor' = c /\ window' = c
        /\ UNCHANGED <<world, stored, position, began, queue, handled, early, resumeId,
                       observed, faults>>
    BY DEF SaveCursor
  <1>2. UNCHANGED <<now, mail, left, accounted, expired>> BY <1>1 DEF world, observed
  <1>3. /\ TypeOK /\ window \in Cursors /\ InTime(window) /\ ~IsDone(window)
        /\ queue = stored
        /\ window.nextAfter = cursor.nextAfter
        /\ \A i \in DOMAIN mail : Second(mail[i].at) \in Nat
        /\ \A i \in DOMAIN mail :
              i <= window.historyId /\ Second(mail[i].at) <= LastSecond(window) =>
                  Accounted(i, queue)
    BY <1>1, MailFields, WindowFacts DEF IInv, WindowIsTaken, QueueIsKept
  <1>4. /\ c \in Cursors /\ c.historyId = window.historyId
        /\ c.until = window.until /\ c.startedAt = window.startedAt
        /\ c.nextAfter = LastSecond(window) + 1 /\ c.nextAfter > window.nextAfter
        /\ LastSecond(window) \in Nat
    BY <1>3, AdvancedFacts
  <1> HIDE DEF c
  <1>5. c # NoCursor /\ c.windowSeconds \in Nat BY <1>4, NoCursorFacts
  <1>6. TypeOK' BY <1>1, <1>2, <1>3, <1>4 DEF TypeOK
  <1>7. MailIsPast' /\ PositionIsInTime' /\ MailIsAccountedFor'
    BY <1>1, <1>2 DEF IInv, MailIsPast, PositionIsInTime, MailIsAccountedFor
  <1>8. CursorIsSound'
    <2>1. InTime(cursor)' BY <1>1, <1>2, <1>3, <1>4 DEF InTime, Second
    <2>2. Searched(cursor, stored)'
      BY <1>1, <1>2, <1>3, <1>4 DEF Searched, Accounted, Second
    <2> QED BY <2>1, <2>2 DEF CursorIsSound
  <1>9. WindowIsCursor' BY <1>1, <1>5 DEF WindowIsCursor
  <1>10. RunIsShort' /\ HistoryIsRead' /\ WindowIsTaken'
    BY <1>1 DEF RunIsShort, HistoryIsRead, WindowIsTaken
  <1>11. QueueIsKept' BY <1>1 DEF IInv, QueueIsKept, WithinCaps
  <1> QED BY <1>1, <1>3, <1>4, <1>6, <1>7, <1>8, <1>9, <1>10, <1>11 DEF IInv

\* A cursor that waits is saved with its size, which is no larger.
LEMMA KeepCursorStep ==
    ASSUME IInv, KeepCursor
    PROVE  /\ IInv'
           /\ cursor'.nextAfter = cursor.nextAfter
           /\ cursor'.windowSeconds < cursor.windowSeconds \/ cursor' = cursor
  <1>1. /\ pc = "keep" /\ pc' = "work" /\ cursor' = window /\ window' = NoCursor
        /\ UNCHANGED <<world, stored, position, began, queue, handled, early, resumeId,
                       observed, faults>>
    BY DEF KeepCursor
  <1>2. UNCHANGED <<now, mail, left, accounted, expired>> BY <1>1 DEF world, observed
  <1>3. /\ TypeOK /\ window \in Cursors /\ cursor \in Cursors /\ InTime(window)
        /\ Searched(window, stored) /\ window.windowSeconds <= cursor.windowSeconds
        /\ window.nextAfter = cursor.nextAfter
    BY <1>1, WindowFacts DEF IInv
  <1>4. TypeOK' BY <1>1, <1>2, <1>3 DEF TypeOK
  <1>5. MailIsPast' /\ PositionIsInTime' /\ MailIsAccountedFor'
    BY <1>1, <1>2 DEF IInv, MailIsPast, PositionIsInTime, MailIsAccountedFor
  <1>6. CursorIsSound'
    BY <1>1, <1>2, <1>3 DEF CursorIsSound, InTime, Searched, Accounted, Second
  <1>7. RunIsShort' /\ HistoryIsRead' /\ WindowIsCursor' /\ WindowIsTaken'
    BY <1>1 DEF RunIsShort, HistoryIsRead, WindowIsCursor, WindowIsTaken
  <1>8. QueueIsKept' BY <1>1 DEF IInv, QueueIsKept, WithinCaps
  <1>9. window.windowSeconds = cursor.windowSeconds => window = cursor
    BY <1>1, <1>3 DEF IInv, WindowIsCursor, Cursors
  <1>10. window.windowSeconds \in Nat /\ cursor.windowSeconds \in Nat
    BY <1>3, NoCursorFacts
  <1> QED BY <1>1, <1>3, <1>4, <1>5, <1>6, <1>7, <1>8, <1>9, <1>10 DEF IInv

\* The position resumes from the moment the expiry was seen: all the seconds
\* up to then have been searched.
LEMMA FinishFallbackStep ==
    ASSUME IInv, FinishFallback
    PROVE  IInv' /\ position'.historyId >= position.historyId
  <1>1. /\ pc = "window" /\ pc' = "deleteCursor" /\ IsDone(window) /\ expired' = FALSE
        /\ position' = [historyId |-> window.historyId, savedAt |-> window.startedAt]
        /\ UNCHANGED <<now, mail, stored, cursor, began, queue, handled, early, resumeId,
                       window, observed, faults>>
    BY DEF FinishFallback, ResumePosition
  <1>2. /\ TypeOK /\ window \in Cursors /\ cursor \in Cursors /\ InTime(window)
        /\ Searched(window, stored) /\ Len(mail) \in Nat
        /\ window.historyId = cursor.historyId
        /\ window.historyId \in Nat /\ window.startedAt \in Nat /\ window.nextAfter \in Nat
        /\ window.until \in Nat /\ now \in Nat
        /\ \A i \in DOMAIN mail : mail[i].at \in Nat /\ Second(mail[i].at) \in Nat
        /\ position.historyId \in Nat
    BY <1>1, MailFields, WindowFacts, NoCursorFacts DEF IInv
  <1>3. UNCHANGED <<accounted, left>> BY <1>1 DEF observed
  <1>4. position'.historyId = window.historyId /\ position'.savedAt = window.startedAt
        /\ position' \in Positions
    BY <1>1, <1>2 DEF Positions
  <1>5. TypeOK' BY <1>1, <1>2, <1>3, <1>4 DEF TypeOK
  <1>6. MailIsPast' BY <1>1, <1>2, <1>4 DEF IInv, MailIsPast, InTime
  <1>7. PositionIsInTime'
    BY <1>1, <1>2, <1>4 DEF PositionIsInTime, InTime
  <1>8. MailIsAccountedFor'
    <2>1. ASSUME NEW i \in DOMAIN mail, i <= window.historyId
          PROVE  Accounted(i, stored)
      <3>1. mail[i].at <= window.startedAt /\ window.until = Second(window.startedAt)
        BY <2>1, <1>2 DEF InTime
      <3>2. Second(mail[i].at) <= window.until BY <1>2, <3>1, SecondFacts
      <3>3. Second(mail[i].at) < window.nextAfter BY <1>1, <1>2, <3>2 DEF IsDone
      <3> QED BY <1>2, <2>1, <3>3 DEF Searched
    <2> QED BY <1>1, <1>3, <1>4, <2>1 DEF MailIsAccountedFor, Accounted
  <1>9. CursorIsSound'
    <2>1. InTime(cursor) /\ Searched(cursor, stored)
      BY <1>1 DEF IInv, CursorIsSound, WindowIsCursor
    <2>2. InTime(cursor)' BY <1>1, <1>2, <1>4, <2>1 DEF InTime, Second
    <2>3. Searched(cursor, stored)' BY <1>1, <1>3, <2>1 DEF Searched, Accounted, Second
    <2> QED BY <2>2, <2>3 DEF CursorIsSound
  <1>10. WindowIsCursor' BY <1>1 DEF IInv, WindowIsCursor
  <1>11. RunIsShort' /\ HistoryIsRead' /\ WindowIsTaken'
    BY <1>1 DEF RunIsShort, HistoryIsRead, WindowIsTaken
  <1>12. QueueIsKept' BY <1>1 DEF IInv, QueueIsKept, WithinCaps
  <1>13. position'.historyId >= position.historyId
    BY <1>2, <1>4 DEF InTime
  <1> QED BY <1>5, <1>6, <1>7, <1>8, <1>9, <1>10, <1>11, <1>12, <1>13 DEF IInv

LEMMA DeleteCursorStep ==
    ASSUME IInv, DeleteCursor
    PROVE  IInv'
  <1>1. /\ pc = "deleteCursor" /\ pc' = "work" /\ cursor' = NoCursor /\ window' = NoCursor
        /\ UNCHANGED <<world, stored, position, began, queue, handled, early, resumeId,
                       observed, faults>>
    BY DEF DeleteCursor
  <1>2. UNCHANGED <<now, mail, left, accounted, expired>> BY <1>1 DEF world, observed
  <1>3. TypeOK' BY <1>1, <1>2 DEF IInv, TypeOK
  <1>4. MailIsPast' /\ PositionIsInTime' /\ CursorIsSound' /\ MailIsAccountedFor'
    BY <1>1, <1>2, QuietStep DEF IInv, MailIsPast, Accounted
  <1>5. RunIsShort' /\ HistoryIsRead' /\ WindowIsCursor' /\ WindowIsTaken'
    BY <1>1 DEF RunIsShort, HistoryIsRead, WindowIsCursor, WindowIsTaken
  <1>6. QueueIsKept' BY <1>1 DEF IInv, QueueIsKept, WithinCaps
  <1> QED BY <1>3, <1>4, <1>5, <1>6 DEF IInv

-----------------------------------------------------------------------------
(* The rest of a run, and the reset.                                       *)

LEMMA WorkStep ==
    ASSUME IInv, NEW t \in Threads, Work(t)
    PROVE  IInv'
  <1>1. /\ pc = "work" /\ pc' = pc /\ queue' = WithoutThread(queue, t) /\ stored' = queue'
        /\ accounted' = accounted \cup {i \in DOMAIN mail : mail[i].thread = t}
        /\ UNCHANGED <<world, position, cursor, began, handled, early, resumeId, window,
                       left, faults>>
    BY DEF Work
  <1>2. UNCHANGED <<now, mail, expired>> BY <1>1 DEF world
  <1>3. /\ TypeOK /\ queue = stored /\ queue \in Queues /\ WithinCaps(queue)
        /\ DOMAIN mail \in SUBSET Nat
    BY <1>1, MailFields DEF IInv, TypeOK, QueueIsKept
  <1>4. /\ queue' \in Queues /\ WithinCaps(queue')
        /\ QueuedThreads(queue') = QueuedThreads(queue) \ {t}
    BY <1>1, <1>3, WithoutThreadFacts
  <1>5. TypeOK'
    <2>1. accounted' \in SUBSET Nat BY <1>1, <1>3 DEF TypeOK
    <2> QED BY <1>1, <1>2, <1>3, <1>4, <2>1 DEF TypeOK, WithinCaps
  <1>6. \A i \in DOMAIN mail : Accounted(i, stored) => Accounted(i, stored)'
    BY <1>1, <1>2, <1>3, <1>4 DEF Accounted
  <1>7. MailIsPast' /\ PositionIsInTime' /\ CursorIsSound' /\ MailIsAccountedFor'
    BY <1>1, <1>2, <1>6, QuietStep DEF IInv, MailIsPast
  <1>8. RunIsShort' /\ HistoryIsRead' /\ WindowIsCursor' /\ WindowIsTaken'
    BY <1>1 DEF RunIsShort, HistoryIsRead, WindowIsCursor, WindowIsTaken
  <1>9. QueueIsKept' BY <1>1, <1>4 DEF QueueIsKept, WithinCaps
  <1> QED BY <1>5, <1>7, <1>8, <1>9 DEF IInv

LEMMA StartResetStep ==
    ASSUME IInv, StartReset
    PROVE  IInv'
  <1>1. /\ pc = "idle" /\ pc' = "reset" /\ began' = now /\ resumeId' = Len(mail)
        /\ faults' \in Nat
        /\ UNCHANGED <<world, persistent, queue, handled, early, window, observed>>
    BY DEF StartReset, Fault, IInv, TypeOK
  <1>2. UNCHANGED <<now, mail, expired, position, cursor, stored, accounted, left>>
    BY <1>1 DEF world, persistent, observed
  <1>3. TypeOK /\ Len(mail) \in Nat /\ DOMAIN mail = 1..Len(mail) BY MailFields DEF IInv
  <1>4. TypeOK' BY <1>1, <1>2, <1>3 DEF TypeOK
  <1>5. MailIsPast' /\ PositionIsInTime' /\ CursorIsSound' /\ MailIsAccountedFor'
    BY <1>1, <1>2, <1>3, QuietStep DEF IInv, MailIsPast, Accounted
  <1>6. RunIsShort' BY <1>1, <1>2, <1>3 DEF IInv, RunIsShort, MailIsPast
  <1>7. HistoryIsRead' /\ WindowIsCursor' /\ WindowIsTaken' /\ QueueIsKept'
    BY <1>1 DEF IInv, HistoryIsRead, WindowIsCursor, WindowIsTaken, QueueIsKept,
                WithinCaps
  <1> QED BY <1>4, <1>5, <1>6, <1>7 DEF IInv

LEMMA ResetCursorStep ==
    ASSUME IInv, ResetCursor
    PROVE  IInv'
  <1>1. /\ pc = "reset" /\ pc' = "resetPosition" /\ cursor' = NoCursor
        /\ UNCHANGED <<world, stored, position, began, queue, handled, early, resumeId,
                       window, observed, faults>>
    BY DEF ResetCursor
  <1>2. UNCHANGED <<now, mail, expired, accounted, left>> BY <1>1 DEF world, observed
  <1>3. TypeOK' BY <1>1, <1>2 DEF IInv, TypeOK
  <1>4. MailIsPast' /\ PositionIsInTime' /\ CursorIsSound' /\ MailIsAccountedFor'
    BY <1>1, <1>2, QuietStep DEF IInv, MailIsPast, Accounted
  <1>5. RunIsShort' BY <1>1, <1>2 DEF IInv, RunIsShort
  <1>6. HistoryIsRead' /\ WindowIsCursor' /\ WindowIsTaken' /\ QueueIsKept'
    BY <1>1 DEF IInv, HistoryIsRead, WindowIsCursor, WindowIsTaken, QueueIsKept,
                WithinCaps
  <1> QED BY <1>3, <1>4, <1>5, <1>6 DEF IInv

LEMMA ResetPositionStep ==
    ASSUME IInv, ResetPosition
    PROVE  IInv' /\ position'.historyId >= position.historyId
  <1>1. /\ pc = "resetPosition" /\ pc' = "idle" /\ expired' = FALSE
        /\ position' = [historyId |-> resumeId, savedAt |-> now]
        /\ accounted' = accounted \cup 1..resumeId
        /\ queue' = EmptyQueue /\ handled' = 0 /\ resumeId' = 0 /\ began' = 0
        /\ early' = FALSE /\ window' = NoCursor
        /\ UNCHANGED <<now, mail, stored, cursor, left, faults>>
    BY DEF ResetPosition, Ended
  <1>2. /\ TypeOK /\ Len(mail) \in Nat /\ DOMAIN mail = 1..Len(mail) /\ now \in Nat
        /\ resumeId \in Nat /\ RunTicks \in Nat /\ position.historyId \in Nat
        /\ \A i \in DOMAIN mail : mail[i].at \in Nat
    BY MailFields, FallbackAssumption DEF IInv, TypeOK
  <1>3. cursor = NoCursor /\ began = now /\ position.historyId <= resumeId
        /\ resumeId <= Len(mail)
        /\ \A i \in DOMAIN mail : i > resumeId => mail[i].at >= began
    BY <1>1 DEF IInv, HistoryIsRead, RunIsShort, MailIsPast
  <1>4. position'.historyId = resumeId /\ position'.savedAt = now /\ position' \in Positions
    BY <1>1, <1>2 DEF Positions
  <1>5. TypeOK'
    <2>1. accounted' \in SUBSET Nat BY <1>1, <1>2 DEF TypeOK
    <2> QED BY <1>1, <1>2, <1>4, <2>1, EmptyQueueFacts DEF TypeOK
  <1>6. MailIsPast' BY <1>1, <1>2, <1>3, <1>4 DEF IInv, MailIsPast
  <1>7. PositionIsInTime' BY <1>1, <1>2, <1>3, <1>4 DEF PositionIsInTime
  <1>8. MailIsAccountedFor' BY <1>1, <1>2, <1>4 DEF MailIsAccountedFor
  <1>9. CursorIsSound' BY <1>1, <1>3 DEF CursorIsSound
  <1>10. RunIsShort' /\ HistoryIsRead' /\ WindowIsCursor' /\ WindowIsTaken'
    BY <1>1 DEF RunIsShort, HistoryIsRead, WindowIsCursor, WindowIsTaken
  <1>11. QueueIsKept' BY <1>1, EmptyQueueFacts DEF QueueIsKept, WithinCaps
  <1>12. position'.historyId >= position.historyId BY <1>2, <1>3, <1>4
  <1> QED BY <1>5, <1>6, <1>7, <1>8, <1>9, <1>10, <1>11, <1>12 DEF IInv

-----------------------------------------------------------------------------
(* The theorems.                                                           *)

LEMMA InitIInv ==
    ASSUME Init
    PROVE  IInv
  <1>1. /\ now = 0 /\ mail = <<>> /\ expired = FALSE /\ stored = EmptyQueue
        /\ position = [historyId |-> 0, savedAt |-> 0]
        /\ cursor = NoCursor /\ pc = "idle" /\ began = 0 /\ queue = EmptyQueue
        /\ handled = 0 /\ early = FALSE /\ resumeId = 0 /\ window = NoCursor
        /\ accounted = {} /\ left = {} /\ faults = 0
    BY DEF Init
  <1>2. TypeOK
    <2>1. position \in Positions BY <1>1 DEF Positions
    <2>2. mail \in Seq([thread : Threads, at : Nat]) BY <1>1
    <2>3. stored \in Queues /\ queue \in Queues /\ WithinCaps(stored)
      BY <1>1, EmptyQueueFacts
    <2> QED BY <1>1, <2>1, <2>2, <2>3 DEF TypeOK, WithinCaps
  <1>3. DOMAIN mail = {} /\ Len(mail) = 0 BY <1>1
  <1>4. MailIsPast /\ PositionIsInTime /\ CursorIsSound /\ RunIsShort /\ HistoryIsRead
        /\ WindowIsCursor /\ WindowIsTaken /\ MailIsAccountedFor
    BY <1>1, <1>3 DEF MailIsPast, PositionIsInTime, CursorIsSound, RunIsShort,
                      HistoryIsRead, WindowIsCursor, WindowIsTaken, MailIsAccountedFor
  <1>5. QueueIsKept BY <1>1, EmptyQueueFacts DEF QueueIsKept
  <1> QED BY <1>2, <1>4, <1>5 DEF IInv

LEMMA IInvStep ==
    ASSUME IInv, [Next]_vars
    PROVE  IInv'
  <1>1. CASE Tick BY <1>1, TickStep
  <1>2. CASE \E t \in Threads : ReceiveMail(t) BY <1>2, ReceiveMailStep
  <1>3. CASE ExpireHistory \/ \E t \in Threads : QueueManual(t) BY <1>3, MinorSteps
  <1>4. CASE StartRun BY <1>4, StartRunStep
  <1>5. CASE IngestRecord BY <1>5, IngestRecordStep
  <1>6. CASE StopIngest \/ FinishHistory BY <1>6, HistoryEndSteps
  <1>7. CASE SaveIngested BY <1>7, SaveIngestedStep
  <1>8. CASE AdvancePosition BY <1>8, AdvancePositionStep
  <1>9. CASE ReadProfile BY <1>9, ReadProfileStep
  <1>10. CASE StartFallback BY <1>10, StartFallbackStep
  <1>11. CASE TakeWindow BY <1>11, TakeWindowStep
  <1>12. CASE TakeSome BY <1>12, TakeSomeStep
  <1>13. CASE ShrinkWindow \/ WaitForRoom \/ StopFallback BY <1>13, WaitingSteps
  <1>14. CASE SaveWindow BY <1>14, SaveWindowStep
  <1>15. CASE SaveCursor BY <1>15, SaveCursorStep
  <1>16. CASE KeepCursor BY <1>16, KeepCursorStep
  <1>17. CASE FinishFallback BY <1>17, FinishFallbackStep
  <1>18. CASE DeleteCursor BY <1>18, DeleteCursorStep
  <1>19. CASE \E t \in Threads : Work(t) BY <1>19, WorkStep
  <1>20. CASE Crash \/ FinishRun \/ ProfileFails BY <1>20, EndingSteps
  <1>21. CASE StartReset BY <1>21, StartResetStep
  <1>22. CASE ResetCursor BY <1>22, ResetCursorStep
  <1>23. CASE ResetPosition BY <1>23, ResetPositionStep
  <1>24. CASE UNCHANGED vars
    BY <1>24 DEF vars, world, persistent, runVars, observed, IInv, TypeOK, MailIsPast,
                 PositionIsInTime, CursorIsSound, InTime, Searched, Accounted, Second,
                 RunIsShort, HistoryIsRead, WindowIsCursor, WindowIsTaken, QueueIsKept,
                 WithinCaps, MailIsAccountedFor
  <1> QED BY <1>1, <1>2, <1>3, <1>4, <1>5, <1>6, <1>7, <1>8, <1>9, <1>10, <1>11, <1>12,
             <1>13, <1>14, <1>15, <1>16, <1>17, <1>18, <1>19, <1>20, <1>21, <1>22,
             <1>23, <1>24
          DEF Next, Environment, RunStep, FallbackStep

\* The inductive invariant holds of every behaviour.
THEOREM Invariant == Spec => []IInv
  <1>1. Init => IInv BY InitIInv
  <1>2. IInv /\ [Next]_vars => IInv' BY IInvStep
  <1> QED BY <1>1, <1>2, PTL DEF Spec

\* Every cursor and position that is saved can be loaded again, and the queue
\* that ingest and the fallback fill stays within both caps.
THEOREM TypeCorrectness == Spec => []TypeOK
  <1>1. IInv => TypeOK BY DEF IInv
  <1> QED BY <1>1, Invariant, PTL

\* No mail is lost by an expiry of Gmail's history, wherever executions end,
\* for any lookback that is as long as an execution, any window sizes and
\* caps: what the position has passed is queued, or was settled, logged as
\* missed, dismissed by a reset, or left behind by an early stop.
THEOREM NoMailIsLost == Spec => []MailIsAccountedFor
  <1>1. IInv => MailIsAccountedFor BY DEF IInv
  <1> QED BY <1>1, Invariant, PTL

\* The position never goes back, whether history, a fallback or a reset
\* writes it.
THEOREM PositionAdvances == Spec => PositionNeverGoesBack
  <1>1. ASSUME IInv, Next
        PROVE  position'.historyId >= position.historyId
    <2>1. position.historyId \in Nat BY <1>1, MailFields DEF IInv
    <2>2. CASE position' = position BY <2>1, <2>2
    <2>3. CASE AdvancePosition
      <3>1. position.historyId <= handled /\ handled \in Nat
        BY <1>1, <2>3 DEF AdvancePosition, IInv, HistoryIsRead, TypeOK
      <3> QED BY <2>1, <2>3, <3>1 DEF AdvancePosition
    <2>4. CASE FinishFallback BY <1>1, <2>4, FinishFallbackStep
    <2>5. CASE ResetPosition BY <1>1, <2>5, ResetPositionStep
    <2>6. position' = position \/ AdvancePosition \/ FinishFallback \/ ResetPosition
      BY <1>1 DEF Next, Environment, RunStep, FallbackStep, Tick, ReceiveMail,
                  ExpireHistory, QueueManual, StartRun, IngestRecord, StopIngest,
                  FinishHistory, SaveIngested, ReadProfile, ProfileFails, StartFallback,
                  TakeWindow, ShrinkWindow, WaitForRoom, TakeSome, SaveWindow, SaveCursor,
                  StopFallback, KeepCursor, DeleteCursor, Work, FinishRun, StartReset,
                  ResetCursor, Crash, persistent
    <2> QED BY <2>2, <2>3, <2>4, <2>5, <2>6
  <1>2. IInv /\ [Next]_vars => [position'.historyId >= position.historyId]_vars
    BY <1>1
  <1> QED BY <1>2, Invariant, PTL DEF Spec, PositionNeverGoesBack

\* Each write of the cursor passes a window or tries a smaller one, so no run
\* repeats a window that was taken or a size that was too large.
THEOREM FallbackProgresses == Spec => FallbackAdvances
  <1> DEFINE Advances ==
        cursor # NoCursor /\ cursor' \notin {NoCursor, cursor} =>
          \/ cursor'.nextAfter > cursor.nextAfter
          \/ /\ cursor'.nextAfter = cursor.nextAfter
             /\ cursor'.windowSeconds < cursor.windowSeconds
  <1>1. ASSUME IInv, Next
        PROVE  Advances
    <2>1. CASE cursor' \in {cursor, NoCursor} BY <2>1
    <2>2. CASE StartFallback BY <1>1, <2>2 DEF StartFallback, IInv, HistoryIsRead
    <2>3. CASE SaveCursor BY <1>1, <2>3, SaveCursorStep
    <2>4. CASE KeepCursor BY <1>1, <2>4, KeepCursorStep
    <2>5. cursor' \in {cursor, NoCursor} \/ StartFallback \/ SaveCursor \/ KeepCursor
      BY <1>1 DEF Next, Environment, RunStep, FallbackStep, Tick, ReceiveMail,
                  ExpireHistory, QueueManual, StartRun, IngestRecord, StopIngest,
                  FinishHistory, SaveIngested, AdvancePosition, ReadProfile, ProfileFails,
                  TakeWindow, ShrinkWindow, WaitForRoom, TakeSome, SaveWindow,
                  StopFallback, FinishFallback, DeleteCursor, Work, FinishRun, StartReset,
                  ResetCursor, ResetPosition, Crash, persistent
    <2> QED BY <2>1, <2>2, <2>3, <2>4, <2>5
  <1>2. IInv /\ [Next]_vars => [Advances]_vars BY <1>1
  <1> QED BY <1>2, Invariant, PTL DEF Spec, FallbackAdvances

=============================================================================
