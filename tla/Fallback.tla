------------------------------- MODULE Fallback -------------------------------
(***************************************************************************)
(* Catching up after Gmail has discarded the history at the saved position:*)
(* src/core/history-fallback.ts, the fallback half of src/app/ingest.ts,   *)
(* and the position that src/app/install.ts writes.                        *)
(*                                                                         *)
(* From the second of the expired position's savedAt, less a lookback, up  *)
(* to the second the expiry was seen, time windows are searched oldest     *)
(* first.  A window that does not fit the queue is halved; the smallest    *)
(* waits, or takes what fits.  A cursor carries this over runs and crashes.*)
(*                                                                         *)
(* A history ID is an index of `mail`.  Clocks are in ticks, the           *)
(* milliseconds of the code, and TicksPerSecond of them are what a search  *)
(* can tell apart.  Of a work item only its source matters here.           *)
(***************************************************************************)
EXTENDS Integers, FiniteSets, Sequences

CONSTANTS
    Threads,
    QueueMaxItems,        \* QUEUE_MAX_ITEMS (1000)
    QueueMaxManualItems,  \* QUEUE_MAX_MANUAL_ITEMS (200)
    LookbackSeconds,      \* FALLBACK_LOOKBACK_SECONDS (3600)
    MaxWindowSeconds,     \* FALLBACK_MAX_WINDOW_SECONDS (86400)
    MinWindowSeconds,     \* FALLBACK_MIN_WINDOW_SECONDS (60)
    MaxMatches,           \* what FALLBACK_MAX_PAGES pages hold (20 of 500)
    TicksPerSecond,       \* 1000
    RunTicks,             \* the longest an execution lasts (6 minutes)
    MaxMail,              \* bound: messages in a behaviour
    MaxNow,               \* bound: the clock
    MaxFaults             \* bound: failures of Gmail and of the execution

ASSUME FallbackAssumption ==
    /\ IsFiniteSet(Threads)
    /\ QueueMaxManualItems \in Nat /\ QueueMaxItems \in Nat
    /\ QueueMaxManualItems < QueueMaxItems
    /\ LookbackSeconds \in Nat
    /\ MinWindowSeconds \in Nat \ {0} /\ MaxWindowSeconds \in Nat
    /\ MinWindowSeconds <= MaxWindowSeconds
    /\ MaxMatches \in Nat \ {0}
    /\ TicksPerSecond \in Nat \ {0}
    /\ RunTicks \in Nat /\ RunTicks <= LookbackSeconds * TicksPerSecond
    /\ MaxMail \in Nat /\ MaxNow \in Nat /\ MaxFaults \in Nat

VARIABLES
    \* The world.
    now,        \* ClockPort.now()
    mail,       \* messages: thread and arrival
    expired,    \* Gmail has discarded history after the saved position
    \* Script Properties.
    stored,     \* state.queue
    position,   \* state.position
    cursor,     \* state.fallback, or NoCursor
    \* The execution.
    pc,
    began,      \* when it started
    queue,      \* the queue in memory
    handled,    \* the last history record handled
    early,      \* ingest stopped before the end of history
    resumeId,   \* historyId of getProfile
    window,     \* the cursor in memory
    \* History variables.
    accounted,  \* messages settled, logged as missed, dismissed by a reset, or
                \* left by an early stop and older than the first window
    left,       \* messages an early stop left unread behind a newer savedAt
    faults

world == <<now, mail, expired>>
persistent == <<stored, position, cursor>>
runVars == <<pc, began, queue, handled, early, resumeId, window>>
observed == <<accounted, left>>
vars == <<world, persistent, runVars, observed, faults>>

-----------------------------------------------------------------------------
(* The cursor and its windows.                                             *)

NoCursor == [historyId |-> -1]

Second(ticks) == ticks \div TicksPerSecond

AtLeast(n, low) == IF n < low THEN low ELSE n
AtMost(n, high) == IF n > high THEN high ELSE n

Started(historyId, oldSavedAt, at) ==
    [historyId |-> historyId,
     oldSavedAt |-> oldSavedAt,
     nextAfter |-> AtLeast(Second(oldSavedAt) - LookbackSeconds, 0),
     until |-> Second(at),
     windowSeconds |-> MaxWindowSeconds,
     startedAt |-> at]

IsDone(c) == c.nextAfter > c.until

\* Both bounds of a window are searched.
LastSecond(c) == AtMost(c.nextAfter + c.windowSeconds - 1, c.until)

InWindow(c, message) == Second(message.at) \in c.nextAfter..LastSecond(c)

Shrunk(c) == [c EXCEPT !.windowSeconds = AtLeast(@ \div 2, MinWindowSeconds)]

\* Fault: the next window begins with the last second of this one.
AdvancedToLast(c) ==
    [c EXCEPT !.nextAfter = LastSecond(c),
              !.windowSeconds = AtMost(@ * 2, MaxWindowSeconds)]

\* Fault: the size is not capped.
AdvancedUncapped(c) ==
    [c EXCEPT !.nextAfter = LastSecond(c) + 1, !.windowSeconds = @ * 2]

Advanced(c) ==
    [c EXCEPT !.nextAfter = LastSecond(c) + 1,
              !.windowSeconds = AtMost(@ * 2, MaxWindowSeconds)]

-----------------------------------------------------------------------------
(* The queue: the threads queued from each source.                         *)

QueuedThreads(q) == q.scheduled \cup q.manual
Room(q) == QueueMaxItems - Cardinality(QueuedThreads(q))

\* New items are scheduled, and so is a manual item that one merges into.
EnqueuedScheduled(q, S) == [scheduled |-> q.scheduled \cup S, manual |-> q.manual \ S]

WithoutThread(q, t) == [scheduled |-> q.scheduled \ {t}, manual |-> q.manual \ {t}]

EmptyQueue == [scheduled |-> {}, manual |-> {}]

Fault == faults < MaxFaults /\ faults' = faults + 1

-----------------------------------------------------------------------------
(* Around the runs.                                                        *)

\* Time passes between executions, and in one before the clock is read for a
\* time that is stored.  An execution lasts RunTicks at most.
Tick ==
    /\ now < MaxNow
    /\ \/ pc = "idle"
       \/ pc \in {"advance", "start"} /\ now < began + RunTicks
    /\ now' = now + 1
    /\ UNCHANGED <<mail, expired, persistent, runVars, observed, faults>>

ReceiveMail(t) ==
    /\ Len(mail) < MaxMail
    /\ mail' = Append(mail, [thread |-> t, at |-> now])
    /\ UNCHANGED <<now, expired, persistent, runVars, observed, faults>>

\* Gmail discards history: it shows when history is read, on any page.
ExpireHistory ==
    /\ pc \in {"idle", "history"}
    /\ position.historyId < Len(mail)
    /\ ~expired
    /\ expired' = TRUE
    /\ UNCHANGED <<now, mail, persistent, runVars, observed, faults>>

\* A manual run has queued a thread that is not queued yet.
QueueManual(t) ==
    /\ pc = "idle"
    /\ t \notin QueuedThreads(stored)
    /\ Room(stored) > 0
    /\ Cardinality(stored.manual) < QueueMaxManualItems
    /\ stored' = [stored EXCEPT !.manual = @ \cup {t}]
    /\ UNCHANGED <<world, position, cursor, runVars, observed, faults>>

Ended ==
    /\ pc' = "idle"
    /\ began' = 0
    /\ queue' = EmptyQueue
    /\ handled' = 0
    /\ early' = FALSE
    /\ resumeId' = 0
    /\ window' = NoCursor

Crash ==
    /\ pc # "idle"
    /\ Fault
    /\ Ended
    /\ UNCHANGED <<world, persistent, observed>>

-----------------------------------------------------------------------------
(* Reading history, as far as the position it leaves is concerned.         *)

\* A cursor takes the place of history: the position is not read.
StartRun ==
    /\ pc = "idle"
    /\ began' = now
    /\ queue' = stored
    /\ IF cursor # NoCursor
       THEN pc' = "window" /\ window' = cursor /\ UNCHANGED handled
       ELSE pc' = "history" /\ handled' = position.historyId /\ UNCHANGED window
    /\ UNCHANGED <<world, persistent, early, resumeId, observed, faults>>

IngestRecord ==
    /\ pc = "history"
    /\ ~expired
    /\ handled < Len(mail)
    /\ LET t == mail[handled + 1].thread
       IN  /\ t \in QueuedThreads(queue) \/ Room(queue) > 0
           /\ queue' = EnqueuedScheduled(queue, {t})
    /\ handled' = handled + 1
    /\ UNCHANGED <<world, persistent, pc, began, early, resumeId, window, observed, faults>>

\* The queue is full, the run has no time left, or Gmail refuses a page.
StopIngest ==
    /\ pc = "history"
    /\ handled < Len(mail)
    /\ IF Room(queue) = 0 /\ mail[handled + 1].thread \notin QueuedThreads(queue)
       THEN UNCHANGED faults
       ELSE Fault
    /\ pc' = "saveIngested"
    /\ early' = TRUE
    /\ UNCHANGED <<world, persistent, began, queue, handled, resumeId, window, observed>>

FinishHistory ==
    /\ pc = "history"
    /\ ~expired
    /\ handled = Len(mail)
    /\ pc' = "saveIngested"
    /\ UNCHANGED <<world, persistent, began, queue, handled, early, resumeId, window,
                   observed, faults>>

SaveIngested ==
    /\ pc = "saveIngested"
    /\ stored' = queue
    /\ pc' = "advance"
    /\ UNCHANGED <<world, position, cursor, began, queue, handled, early, resumeId,
                   window, observed, faults>>

AdvancePosition ==
    /\ pc = "advance"
    /\ position' = IF handled = position.historyId THEN position
                   ELSE [historyId |-> handled, savedAt |-> now]
    /\ left' = CASE handled = position.historyId -> left
                 [] handled # position.historyId /\ early -> handled + 1..Len(mail)
                 [] OTHER -> {}
    /\ pc' = "work"
    /\ expired' = (expired /\ early)
    /\ began' = 0 /\ handled' = 0 /\ early' = FALSE
    /\ UNCHANGED <<now, mail, stored, cursor, queue, resumeId, window, accounted, faults>>

-----------------------------------------------------------------------------
(* The fallback.                                                           *)

\* A 404 on any page: getProfile before any search, then the queue is saved,
\* with what earlier pages queued.
ReadProfile ==
    /\ pc = "history"
    /\ expired
    /\ stored' = queue
    /\ resumeId' = Len(mail)
    /\ handled' = 0
    /\ pc' = "start"
    /\ UNCHANGED <<world, position, cursor, began, queue, early, window, observed, faults>>

\* getProfile fails, or there is no time for it: no cursor is written.
ProfileFails ==
    /\ pc = "history"
    /\ expired
    /\ Fault
    /\ stored' = queue
    /\ Ended
    /\ UNCHANGED <<world, position, cursor, observed>>

StartFallback ==
    /\ pc = "start"
    /\ cursor' = Started(resumeId, position.savedAt, now)
    /\ window' = cursor'
    /\ accounted' = accounted \cup
          {i \in left : i <= resumeId /\ Second(mail[i].at) < cursor'.nextAfter}
    /\ pc' = "window"
    /\ began' = 0 /\ resumeId' = 0
    /\ UNCHANGED <<world, stored, position, queue, handled, early, left, faults>>

\* Fault: what a search found before it was cut short counts as all.
TakesEverything(c, q, found, matches) == Cardinality(found \ QueuedThreads(q)) <= Room(q)

\* Every match is there, and the new ones fit.
Fits(c, q, found, matches) ==
    found = matches /\ Cardinality(found \ QueuedThreads(q)) <= Room(q)

\* Nothing that is left would make room: manual items wait for scheduled ones.
MayTakeSome(q) == q.scheduled = {}

\* What the pages show of a window's matches.  Paging stops early once the new
\* ones exceed the room, and at the bound on pages.
Searches(c, q) ==
    LET matches == {mail[i].thread : i \in {j \in DOMAIN mail : InWindow(c, mail[j])}}
    IN  {[found |-> found, matches |-> matches] : found \in
            {F \in SUBSET matches :
                \/ F = matches
                \/ Cardinality(F \ QueuedThreads(q)) > Room(q)
                \/ Cardinality(F) >= MaxMatches}}

Searching == pc = "window" /\ ~IsDone(window) /\ Room(queue) > 0

TakeWindow ==
    /\ Searching
    /\ \E search \in Searches(window, queue) :
          /\ Fits(window, queue, search.found, search.matches)
          /\ queue' = EnqueuedScheduled(queue, search.found)
    /\ pc' = "saveWindow"
    /\ UNCHANGED <<world, persistent, began, handled, early, resumeId, window, observed,
                   faults>>

ShrinkWindow ==
    /\ Searching
    /\ \E search \in Searches(window, queue) :
          ~Fits(window, queue, search.found, search.matches)
    /\ window.windowSeconds > MinWindowSeconds
    /\ window' = Shrunk(window)
    /\ UNCHANGED <<world, persistent, pc, began, queue, handled, early, resumeId, observed,
                   faults>>

\* The smallest window, and processing will make room for it.
WaitForRoom ==
    /\ Searching
    /\ \E search \in Searches(window, queue) :
          ~Fits(window, queue, search.found, search.matches)
    /\ window.windowSeconds <= MinWindowSeconds
    /\ ~MayTakeSome(queue)
    /\ pc' = "keep"
    /\ UNCHANGED <<world, persistent, began, queue, handled, early, resumeId, window,
                   observed, faults>>

\* The smallest window, and no room to wait for: the queued matches and the
\* first new ones that fit, in the order the search gave them.
TakeSome ==
    /\ Searching
    /\ window.windowSeconds <= MinWindowSeconds
    /\ MayTakeSome(queue)
    /\ \E search \in Searches(window, queue) :
          LET fresh == search.found \ QueuedThreads(queue)
              fitting == AtMost(Cardinality(fresh), Room(queue))
          IN  /\ ~Fits(window, queue, search.found, search.matches)
              /\ \E dropped \in SUBSET fresh :
                    LET take == search.found \ dropped
                    IN  /\ Cardinality(fresh \ dropped) = fitting
                        /\ queue' = EnqueuedScheduled(queue, take)
                        /\ accounted' = accounted \cup
                              {i \in DOMAIN mail :
                                 InWindow(window, mail[i]) /\ mail[i].thread \notin take}
    /\ pc' = "saveWindow"
    /\ UNCHANGED <<world, persistent, began, handled, early, resumeId, window, left, faults>>

\* The queue before the cursor.
SaveWindow ==
    /\ pc = "saveWindow"
    /\ stored' = queue
    /\ pc' = "saveCursor"
    /\ UNCHANGED <<world, position, cursor, began, queue, handled, early, resumeId, window,
                   observed, faults>>

SaveCursor ==
    /\ pc = "saveCursor"
    /\ cursor' = Advanced(window)
    /\ window' = cursor'
    /\ pc' = "window"
    /\ UNCHANGED <<world, stored, position, began, queue, handled, early, resumeId,
                   observed, faults>>

\* A full queue is not searched for at all; time runs out or Gmail refuses.
StopFallback ==
    /\ pc = "window"
    /\ ~IsDone(window)
    /\ IF Room(queue) = 0 THEN UNCHANGED faults ELSE Fault
    /\ pc' = "keep"
    /\ UNCHANGED <<world, persistent, began, queue, handled, early, resumeId, window,
                   observed>>

\* A cursor that only shrank since it was saved is written.
KeepCursor ==
    /\ pc = "keep"
    /\ cursor' = window
    /\ pc' = "work"
    /\ window' = NoCursor
    /\ UNCHANGED <<world, stored, position, began, queue, handled, early, resumeId,
                   observed, faults>>

\* The position as of the moment the expiry was seen.
ResumePosition(c) == [historyId |-> c.historyId, savedAt |-> c.startedAt]

\* The position, and in a step of its own the cursor's delete.
FinishFallback ==
    /\ pc = "window"
    /\ IsDone(window)
    /\ position' = ResumePosition(window)
    /\ expired' = FALSE
    /\ pc' = "deleteCursor"
    /\ UNCHANGED <<now, mail, stored, cursor, began, queue, handled, early, resumeId, window,
                   observed, faults>>

DeleteCursor ==
    /\ pc = "deleteCursor"
    /\ cursor' = NoCursor
    /\ pc' = "work"
    /\ window' = NoCursor
    /\ UNCHANGED <<world, stored, position, began, queue, handled, early, resumeId,
                   observed, faults>>

-----------------------------------------------------------------------------
(* The rest of a run, and install.                                         *)

\* A thread is read, classified and leaves the queue, which is saved; manual
\* work has only the time that scheduled work leaves.
Work(t) ==
    /\ pc = "work"
    /\ t \in (IF queue.scheduled = {} THEN queue.manual ELSE queue.scheduled)
    /\ queue' = WithoutThread(queue, t)
    /\ stored' = queue'
    /\ accounted' = accounted \cup {i \in DOMAIN mail : mail[i].thread = t}
    /\ UNCHANGED <<world, position, cursor, pc, began, handled, early, resumeId, window,
                   left, faults>>

FinishRun ==
    /\ pc = "work"
    /\ \/ QueuedThreads(queue) = {} /\ UNCHANGED faults
       \/ Fault
    /\ Ended
    /\ UNCHANGED <<world, persistent, observed>>

\* install with RESET_POSITION: the position of the present, read first.
StartReset ==
    /\ pc = "idle"
    /\ Fault
    /\ pc' = "reset"
    /\ began' = now
    /\ resumeId' = Len(mail)
    /\ UNCHANGED <<world, persistent, queue, handled, early, window, observed>>

\* Fault: the fallback under way is left alone.
ResetsPositionOnly ==
    /\ pc = "reset"
    /\ pc' = "resetPosition"
    /\ UNCHANGED <<world, persistent, began, queue, handled, early, resumeId, window,
                   observed, faults>>

\* The fallback goes first.
ResetCursor ==
    /\ pc = "reset"
    /\ cursor' = NoCursor
    /\ pc' = "resetPosition"
    /\ UNCHANGED <<world, stored, position, began, queue, handled, early, resumeId, window,
                   observed, faults>>

ResetPosition ==
    /\ pc = "resetPosition"
    /\ position' = [historyId |-> resumeId, savedAt |-> now]
    /\ expired' = FALSE
    /\ accounted' = accounted \cup 1..resumeId
    /\ Ended
    /\ UNCHANGED <<now, mail, stored, cursor, left, faults>>

-----------------------------------------------------------------------------

Init ==
    /\ now = 0 /\ mail = <<>> /\ expired = FALSE
    /\ stored = EmptyQueue
    /\ position = [historyId |-> 0, savedAt |-> 0]
    /\ cursor = NoCursor
    /\ pc = "idle" /\ began = 0 /\ queue = EmptyQueue
    /\ handled = 0 /\ early = FALSE /\ resumeId = 0 /\ window = NoCursor
    /\ accounted = {} /\ left = {} /\ faults = 0

Environment ==
    \/ Tick \/ ExpireHistory
    \/ \E t \in Threads : ReceiveMail(t) \/ QueueManual(t)

FallbackStep ==
    \/ ReadProfile \/ StartFallback
    \/ TakeWindow \/ ShrinkWindow \/ WaitForRoom \/ TakeSome
    \/ SaveWindow \/ SaveCursor \/ KeepCursor
    \/ StopFallback \/ FinishFallback \/ DeleteCursor

RunStep ==
    \/ StartRun \/ IngestRecord \/ FinishHistory \/ SaveIngested \/ AdvancePosition
    \/ FallbackStep
    \/ \E t \in Threads : Work(t)
    \/ FinishRun

Next ==
    \/ Environment \/ RunStep
    \/ StopIngest \/ ProfileFails \/ Crash
    \/ StartReset \/ ResetCursor \/ ResetPosition

Spec == Init /\ [][Next]_vars

-----------------------------------------------------------------------------
(* Properties.                                                             *)

Queues == [scheduled : SUBSET Threads, manual : SUBSET Threads]

Positions == [historyId : Nat, savedAt : Nat]

\* What fallbackCursorCodec accepts: a cursor that is saved can be loaded.
Cursors ==
    [historyId : Nat, oldSavedAt : Nat, nextAfter : Nat, until : Nat,
     windowSeconds : MinWindowSeconds..MaxWindowSeconds, startedAt : Nat]

TypeOK ==
    /\ now \in Nat /\ expired \in BOOLEAN
    /\ mail \in Seq([thread : Threads, at : Nat])
    /\ stored \in Queues /\ queue \in Queues
    /\ Cardinality(QueuedThreads(stored)) <= QueueMaxItems
    /\ Cardinality(stored.manual) <= QueueMaxManualItems
    /\ position \in Positions
    /\ cursor \in Cursors \cup {NoCursor} /\ window \in Cursors \cup {NoCursor}
    /\ pc \in {"idle", "history", "saveIngested", "advance", "start", "window", "saveWindow",
               "saveCursor", "keep", "deleteCursor", "work", "reset", "resetPosition"}
    /\ began \in Nat /\ handled \in Nat /\ resumeId \in Nat /\ early \in BOOLEAN
    /\ accounted \subseteq Nat /\ left \subseteq Nat /\ faults \in Nat

\* Every message that the position has passed is queued or was settled, or its
\* loss was logged, over expiries, halved and waiting windows, crashes between
\* any two writes and installs in between.  The one exception is what an early
\* stop left unread: its savedAt is newer than that mail, and the search starts
\* from savedAt.
MailIsAccountedFor ==
    \A i \in DOMAIN mail :
        i <= position.historyId =>
            mail[i].thread \in QueuedThreads(stored) \/ i \in accounted

\* The position never goes back: a fallback that was under way when install
\* reset the position does not bring its older one back.
PositionNeverGoesBack == [][position'.historyId >= position.historyId]_vars

\* No write of the cursor, by this run or a later one, repeats a window already
\* taken or a size already found too large: a fallback cannot go on for ever.
FallbackAdvances ==
    [][cursor # NoCursor /\ cursor' \notin {NoCursor, cursor} =>
          \/ cursor'.nextAfter > cursor.nextAfter
          \/ /\ cursor'.nextAfter = cursor.nextAfter
             /\ cursor'.windowSeconds < cursor.windowSeconds]_vars
=============================================================================
