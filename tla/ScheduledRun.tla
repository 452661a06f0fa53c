----------------------------- MODULE ScheduledRun -----------------------------
(***************************************************************************)
(* Scheduled runs over one mailbox: src/app/run-controller.ts with the     *)
(* handlers it calls, ingest.ts (while history has not expired),           *)
(* screen-chunk.ts, process-chunk.ts, settle-thread.ts and jev-error.ts.   *)
(*                                                                         *)
(* One run at a time holds the script lock.  It reads the history after    *)
(* the saved position into the queue, saves the queue, moves the position, *)
(* then takes chunks of the queue, screens, reads, sends and settles each  *)
(* thread and saves the queue after each chunk.  Between any two of these  *)
(* steps mail arrives, the user acts, and the execution may be killed;     *)
(* only the stored queue and the stored position survive.                  *)
(*                                                                         *)
(* A Gmail history ID is an index of `history`.  Mail of record i arrives  *)
(* at time i, and the time between records i and i+1 reads i+1, so "at or  *)
(* after" compares as it does on the epoch milliseconds of the code.       *)
(***************************************************************************)
EXTENDS WorkItems, StoredLists, Sequences

CONSTANTS
    Threads,        \* threads of the mailbox
    OldThreads,     \* those with mail from before the first position
    ChunkSize,      \* limits.chunkSize
    PageSize,       \* INGEST_PAGE_SIZE (100)
    MaxRecords,     \* bound: history records in a behaviour
    RecordThreads,  \* bound: threads that get mail in one record
    MaxFaults       \* bound: failures of Gmail, of Jev and of the execution

ASSUME RunAssumption ==
    /\ OldThreads \subseteq Threads
    /\ ChunkSize \in Nat \ {0}
    /\ PageSize \in Nat \ {0}
    /\ MaxRecords \in Nat
    /\ RecordThreads \in Nat
    /\ MaxFaults \in Nat

VARIABLES
    \* The mailbox.
    history,      \* records: threads with new mail, threads freed of Jev/Error
    marked,       \* threads that carry Jev/Error
    gone,         \* threads deleted, or with nothing left to classify
    moved,        \* threads the classifier has moved
    \* Script Properties.
    stored,       \* state.queue: thread |-> the versions stored of its item
    position,     \* state.position
    \* The execution.
    pc,
    queue,        \* the queue in memory
    handledId,    \* the last history record fully handled
    pageEnd,      \* the last record of the page being read
    mailboxId,    \* that page's historyId: the mailbox's when it was listed
    stop,         \* why ingest or the chunk loop stops
    taken,        \* threads taken in this run
    chunk,        \* threads the current step of the chunk has still to handle
    screened,     \* thread |-> what screening found
    built,        \* thread |-> its answer, of the threads read and built
    \* History variables.
    limited,       \* Gmail has reported its rate limit to this run
    loadedStrikes, \* strikes of the queued threads when the run began, or 0
                   \* once the run has ingested the user's request for a retry
    readUpTo,      \* newest record a thread's latest read in this run includes
    settledUpTo,   \* newest record a thread's settlement has covered
    faults

mailbox == <<history, marked, gone, moved>>
persistent == <<stored, position>>
ingestVars == <<handledId, pageEnd, mailboxId>>
chunkVars == <<chunk, screened, built>>
runVars == <<pc, queue, ingestVars, stop, taken, chunkVars, limited, loadedStrikes,
             readUpTo>>
vars == <<mailbox, persistent, runVars, settledUpTo, faults>>

-----------------------------------------------------------------------------

Now == Len(history) + 1

Record == [added : SUBSET Threads, unmarked : SUBSET Threads]

\* The threads a record asks to be classified.
Wanted(record) == record.added \cup record.unmarked

Empty == [t \in {} |-> 0]

NoReads == [t \in Threads |-> 0]

Fault == faults < MaxFaults /\ faults' = faults + 1

\* The execution ends, or is killed: nothing in memory survives.
Reset ==
    /\ pc' = "idle"
    /\ queue' = Empty
    /\ handledId' = 0 /\ pageEnd' = 0 /\ mailboxId' = 0
    /\ stop' = "none"
    /\ taken' = {}
    /\ chunk' = {} /\ screened' = Empty /\ built' = Empty
    /\ limited' = FALSE
    /\ loadedStrikes' = Empty
    /\ readUpTo' = NoReads

EndRun == Reset /\ UNCHANGED <<mailbox, persistent, settledUpTo>>

\* The threads in S leave the queue, settled by what was read of them.
Settled(S) ==
    settledUpTo' = [t \in Threads |->
        IF t \in S /\ readUpTo[t] > settledUpTo[t] THEN readUpTo[t] ELSE settledUpTo[t]]

\* The threads of S that come first in the queue.
Foremost(S) == {t \in S : \A u \in S : ~Before(queue[u], queue[t])}

-----------------------------------------------------------------------------
(* The mailbox, changed by other people and by the user.                   *)

ReceiveMail(S) ==
    /\ Len(history) < MaxRecords
    /\ history' = Append(history, [added |-> S, unmarked |-> {}])
    /\ gone' = gone \ S
    /\ UNCHANGED <<marked, moved, persistent, runVars, settledUpTo, faults>>

\* Of a thread with nothing left to classify, ingest ignores the removal.
RemoveJevError(t) ==
    /\ Len(history) < MaxRecords
    /\ t \in marked
    /\ marked' = marked \ {t}
    /\ history' = Append(history, [added |-> {}, unmarked |-> {t} \ gone])
    /\ UNCHANGED <<gone, moved, persistent, runVars, settledUpTo, faults>>

DeleteThread(t) ==
    /\ t \notin gone
    /\ gone' = gone \cup {t}
    /\ UNCHANGED <<history, marked, moved, persistent, runVars, settledUpTo, faults>>

-----------------------------------------------------------------------------
(* Ingest: history to the queue, then the position.                        *)

StartRun ==
    /\ pc = "idle"
    /\ pc' = "list"
    /\ queue' \in Loads(stored)
    /\ handledId' = position.historyId
    /\ pageEnd' = position.historyId
    /\ loadedStrikes' = [t \in DOMAIN queue' |-> queue'[t].strikes]
    /\ UNCHANGED <<mailbox, persistent, mailboxId, stop, taken, chunkVars, limited,
                   readUpTo, settledUpTo, faults>>

\* One page of history.list, and the mailbox's history ID as it is then.
ListHistory ==
    /\ pc = "list"
    /\ pc' = "records"
    /\ mailboxId' = Len(history)
    /\ pageEnd' = IF handledId + PageSize < Len(history)
                  THEN handledId + PageSize ELSE Len(history)
    /\ UNCHANGED <<mailbox, persistent, queue, handledId, stop, taken, chunkVars,
                   limited, loadedStrikes, readUpTo, settledUpTo, faults>>

\* The deadline or the unit budget is reached, or Gmail refuses the page: the
\* records handled so far are kept.
StopIngest ==
    /\ pc = "list"
    /\ Fault
    /\ stop' \in {"deadline", "gmail"}
    /\ limited' = (stop' = "gmail")
    /\ pc' = "save"
    /\ UNCHANGED <<mailbox, persistent, queue, ingestVars, taken, chunkVars,
                   loadedStrikes, readUpTo, settledUpTo>>

NewMailRequest ==
    [source |-> "scheduled", enqueuedAt |-> Now, positionSavedAt |-> position.savedAt,
     firstClassification |-> "unset", applyMoves |-> FALSE, resetStrikes |-> FALSE]

\* A thread the user freed of Jev/Error: labels only, with three new strikes.
RetryRequest ==
    [source |-> "scheduled", enqueuedAt |-> Now, positionSavedAt |-> NoTime,
     firstClassification |-> "notFirst", applyMoves |-> FALSE, resetStrikes |-> TRUE]

\* The queue after each thread of S has been queued, or merged, with a request.
EnqueuedAll(q, S, request) ==
    [t \in DOMAIN q \cup S |-> IF t \in S THEN Enqueued(q, t, request)[t] ELSE q[t]]

\* S in its order, as far as the cap lets it: P is queued, and when that is not
\* all of S the next thread is new and finds the queue full.
FitsUpTo(q, S, P) ==
    LET held == DOMAIN q \cup P
    IN  /\ P \subseteq S
        /\ P \subseteq DOMAIN q \/ Cardinality(held) <= QueueMaxItems
        /\ P # S => /\ Cardinality(held) >= QueueMaxItems
                    /\ \E t \in S \ P : t \notin DOMAIN q

\* One record: its new mail, then its Jev/Error removals.  At the cap it stays
\* unhandled, and what it has queued so far stays queued.
IngestRecord ==
    /\ pc = "records"
    /\ handledId < pageEnd
    /\ LET record == history[handledId + 1]
       IN  \E P \in SUBSET record.added, R \in SUBSET record.unmarked :
             LET mail == EnqueuedAll(queue, P, NewMailRequest)
             IN /\ FitsUpTo(queue, record.added, P)
                /\ IF P = record.added THEN FitsUpTo(mail, record.unmarked, R) ELSE R = {}
                /\ queue' = EnqueuedAll(mail, R, RetryRequest)
                /\ IF P = record.added /\ R = record.unmarked
                   THEN handledId' = handledId + 1 /\ UNCHANGED <<pc, stop>>
                   ELSE pc' = "save" /\ stop' = "cap" /\ UNCHANGED handledId
                /\ loadedStrikes' = [t \in DOMAIN loadedStrikes |->
                                       IF t \in R THEN 0 ELSE loadedStrikes[t]]
    /\ UNCHANGED <<mailbox, persistent, pageEnd, mailboxId, taken, chunkVars,
                   limited, readUpTo, settledUpTo, faults>>

\* A page without a next token ends the history; otherwise the next is listed.
FinishPage ==
    /\ pc = "records"
    /\ handledId = pageEnd
    /\ pc' = IF pageEnd = mailboxId THEN "save" ELSE "list"
    /\ UNCHANGED <<mailbox, persistent, queue, ingestVars, stop, taken, chunkVars,
                   limited, loadedStrikes, readUpTo, settledUpTo, faults>>

\* The queue is saved before the position moves.  With nothing enqueued the
\* save is skipped: the queue in memory is then the one loaded.
SaveIngested ==
    /\ pc = "save"
    /\ pc' = "advance"
    /\ \/ stored' = Exactly(queue)
       \/ queue \in Loads(stored) /\ UNCHANGED stored
    /\ UNCHANGED <<mailbox, position, queue, ingestVars, stop, taken, chunkVars,
                   limited, loadedStrikes, readUpTo, settledUpTo, faults>>

\* Fault: an early stop takes over the page's historyId.
ReachedMailboxId == mailboxId

\* Fault: an early stop does not move the position at all.
ReachedOnlyAtEnd == IF stop = "none" THEN mailboxId ELSE position.historyId

\* Never the page's historyId when stopping early: it is the mailbox's, and
\* would skip the records not yet read.
ReachedId == IF stop = "none" THEN mailboxId ELSE handledId

\* An unchanged history ID is not written, and keeps its savedAt.  A Gmail refusal
\* ends the run; out of time or units, it has none for a chunk either.
AdvancePosition ==
    /\ pc = "advance"
    /\ position' = IF ReachedId = position.historyId THEN position
                   ELSE [historyId |-> ReachedId, savedAt |-> Now]
    /\ IF stop \in {"gmail", "deadline"}
       THEN Reset
       ELSE /\ pc' = "take"
            /\ stop' = "none"
            /\ handledId' = 0 /\ pageEnd' = 0 /\ mailboxId' = 0
            /\ UNCHANGED <<queue, taken, chunkVars, limited, loadedStrikes, readUpTo>>
    /\ UNCHANGED <<mailbox, stored, settledUpTo, faults>>

-----------------------------------------------------------------------------
(* The chunk loop.  A thread is taken at most once in a run.               *)

\* Fault: takes threads the run has already taken.
TakeChunkAgain ==
    /\ pc = "take"
    /\ stop = "none"
    /\ \E C \in Chunks(queue, ChunkSize, {}, "scheduled") \ {{}} :
          /\ chunk' = C
          /\ taken' = taken \cup C
    /\ pc' = "screen"
    /\ UNCHANGED <<mailbox, persistent, queue, ingestVars, stop, screened, built,
                   limited, loadedStrikes, readUpTo, settledUpTo, faults>>

TakeChunk ==
    /\ pc = "take"
    /\ stop = "none"
    /\ \E C \in Chunks(queue, ChunkSize, taken, "scheduled") \ {{}} :
          /\ chunk' = C
          /\ taken' = taken \cup C
    /\ pc' = "screen"
    /\ UNCHANGED <<mailbox, persistent, queue, ingestVars, stop, screened, built,
                   limited, loadedStrikes, readUpTo, settledUpTo, faults>>

\* The queue is drained, or the last chunk stopped the loop.
FinishRun ==
    /\ pc = "take"
    /\ stop # "none" \/ {} \in Chunks(queue, ChunkSize, taken, "scheduled")
    /\ UNCHANGED faults
    /\ EndRun

\* No time or units for another chunk; no scope or no budget to classify.
StopTaking ==
    /\ pc = "take"
    /\ stop = "none"
    /\ Fault
    /\ EndRun

\* The metadata read of one thread: it is a first classification when all of
\* its mail arrived at or after the savedAt it was queued against.
IsFirstClassification(t, savedAt) ==
    /\ t \notin OldThreads
    /\ \A i \in DOMAIN history : t \in history[i].added => i >= savedAt

\* Fault: does not look for Jev/Error.
ScreeningIgnoresJevError(t) ==
    CASE t \in gone -> "skip"
      [] t \notin gone /\ queue[t].positionSavedAt # NoTime
            /\ IsFirstClassification(t, queue[t].positionSavedAt) -> "first"
      [] OTHER -> "notFirst"

Screening(t) ==
    CASE t \in gone \cup marked -> "skip"
      [] t \notin gone \cup marked /\ queue[t].positionSavedAt # NoTime
            /\ IsFirstClassification(t, queue[t].positionSavedAt) -> "first"
      [] OTHER -> "notFirst"

ScreenThread ==
    /\ pc = "screen"
    /\ \E t \in Foremost(chunk) :
          /\ chunk' = chunk \ {t}
          /\ screened' = [u \in DOMAIN screened \cup {t} |->
                             IF u = t THEN Screening(t) ELSE screened[u]]
          /\ readUpTo' = [readUpTo EXCEPT ![t] = Len(history)]
    /\ UNCHANGED <<mailbox, persistent, pc, queue, ingestVars, stop, taken, built,
                   limited, loadedStrikes, settledUpTo, faults>>

\* A failed read or exclusion search: nothing is kept, nothing is saved.
ScreenFails ==
    /\ pc = "screen"
    /\ Fault
    /\ EndRun

\* Fault: the threads screening skips stay in the chunk.
NothingSkipped == {}

SkippedThreads == {t \in DOMAIN screened : screened[t] = "skip"}

\* The exclusion search has answered: the skipped and the excluded threads
\* leave the queue, and the others know whether they may be moved.
FinishScreening ==
    /\ pc = "screen"
    /\ chunk = {}
    /\ \E excluded \in SUBSET (DOMAIN screened \ SkippedThreads) :
          LET finished == SkippedThreads \cup excluded
          IN  /\ queue' = [t \in DOMAIN queue \ finished |->
                             IF t \in DOMAIN screened
                             THEN Decided(queue, t, screened[t])[t] ELSE queue[t]]
              /\ Settled(finished)
              /\ chunk' = DOMAIN screened \ finished
    /\ screened' = Empty
    /\ pc' = "read"
    /\ UNCHANGED <<mailbox, persistent, ingestVars, stop, taken, built,
                   limited, loadedStrikes, readUpTo, faults>>

-----------------------------------------------------------------------------
(* What a failure does to one thread (jev-error.ts).                       *)

\* Adding Jev/Error, then the item leaves the queue; so it does when the thread
\* is gone for good, which a thread with nothing left to classify is not.
JevErrorAdded(t) ==
    /\ marked' \in {marked \cup {t}} \cup (IF t \in gone THEN {marked} ELSE {})
    /\ queue' = Without(queue, {t})
    /\ Settled({t})
    /\ UNCHANGED <<limited, faults>>

\* It cannot be added: no strike is recorded, and the item stays queued.  When
\* `limit`, Gmail's rate limit is the reason.
JevErrorRefused(limit) ==
    /\ Fault
    /\ limited' = (limited \/ limit)
    /\ UNCHANGED <<marked, queue, settledUpTo>>

\* Fault: the item leaves the queue whether or not the label was added.
StrikeOrDrop(t, cause, limit) ==
    IF cause = "strike" /\ queue[t].strikes < MaxStoredStrikes
    THEN /\ ~limit
         /\ queue' = Struck(queue, t)
         /\ UNCHANGED <<marked, limited, settledUpTo, faults>>
    ELSE \/ ~limit /\ JevErrorAdded(t)
         \/ /\ Fault
            /\ queue' = Without(queue, {t})
            /\ UNCHANGED <<marked, limited, settledUpTo>>

StrikeOrError(t, cause, limit) ==
    IF cause = "strike" /\ queue[t].strikes < MaxStoredStrikes
    THEN /\ ~limit
         /\ queue' = Struck(queue, t)
         /\ UNCHANGED <<marked, limited, settledUpTo, faults>>
    ELSE (~limit /\ JevErrorAdded(t)) \/ JevErrorRefused(limit)

-----------------------------------------------------------------------------
(* Reading, sending and settling the threads kept.                         *)

\* The full read of the next thread succeeds and its request is built.
ReadThread(t) ==
    /\ t \notin gone
    /\ built' = [u \in DOMAIN built \cup {t} |-> "unsent"]
    /\ readUpTo' = [readUpTo EXCEPT ![t] = Len(history)]
    /\ UNCHANGED <<marked, queue, limited, settledUpTo, faults>>

ReadMissing(t) ==
    /\ t \in gone
    /\ queue' = Without(queue, {t})
    /\ Settled({t})
    /\ UNCHANGED <<marked, limited, built, readUpTo, faults>>

\* An exception while reading the thread or building its request.  The strike's
\* own stopGmail is not looked at here.
ReadThrows(t) ==
    /\ \E limit \in BOOLEAN : StrikeOrError(t, "strike", limit)
    /\ UNCHANGED <<built, readUpTo>>

ReadNext ==
    /\ pc = "read"
    /\ \E t \in Foremost(chunk) :
          /\ chunk' = chunk \ {t}
          /\ ReadThread(t) \/ ReadMissing(t) \/ ReadThrows(t)
    /\ UNCHANGED <<history, gone, moved, persistent, pc, ingestVars, stop, taken,
                   screened, loadedStrikes>>

\* Gmail refuses a read: nothing is sent, and screening's queue is saved.
ReadRefused ==
    /\ pc = "read"
    /\ chunk # {}
    /\ Fault
    /\ stop' = "gmail" /\ limited' = TRUE
    /\ chunk' = {} /\ built' = Empty
    /\ pc' = "saveChunk"
    /\ UNCHANGED <<mailbox, persistent, queue, ingestVars, taken, screened,
                   loadedStrikes, readUpTo, settledUpTo>>

Answers == {"ok", "retryable", "invalid", "unanswered"}

\* One call sends every request.  "unanswered" stands for what is left for the
\* next run: not sent, not retried in time, or a refused key or model.
SendRequests ==
    /\ pc = "read"
    /\ chunk = {}
    /\ IF DOMAIN built # {}
       THEN /\ \E answers \in [DOMAIN built -> Answers] :
                  /\ built' = answers
                  /\ IF \E t \in DOMAIN built : answers[t] = "unanswered"
                     THEN Fault /\ stop' \in {"none", "sending"}
                     ELSE UNCHANGED <<faults, stop>>
            /\ chunk' = DOMAIN built
            /\ pc' = "settle"
       ELSE /\ pc' = "saveChunk"
            /\ built' = Empty
            /\ UNCHANGED <<chunk, stop, faults>>
    /\ UNCHANGED <<mailbox, persistent, queue, ingestVars, taken, screened,
                   limited, loadedStrikes, readUpTo, settledUpTo>>

MovesAllowed(item) == item.firstClassification = "first" \/ item.applyMoves

\* The labels of the rules that fired, and at most one move.  A missing scope
\* drops the move or the labels and does not fail the thread.
ApplyDecision(t) ==
    /\ moved' \in {moved} \cup (IF MovesAllowed(queue[t]) THEN {moved \cup {t}} ELSE {})
    /\ queue' = Without(queue, {t})
    /\ Settled({t})
    /\ UNCHANGED <<marked, limited, faults>>

ApplyMissing(t) ==
    /\ t \in gone
    /\ queue' = Without(queue, {t})
    /\ Settled({t})
    /\ UNCHANGED <<marked, moved, limited, faults>>

\* Gmail's rate limit: the answer is lost, and nothing more is settled.
ApplyRateLimited ==
    /\ Fault
    /\ limited' = TRUE
    /\ UNCHANGED <<marked, moved, queue, settledUpTo>>

\* `limit`: this settlement meets Gmail's rate limit.
SettleThread(t, limit) ==
    \/ /\ built[t] = "ok"
       /\ \/ ~limit /\ (ApplyDecision(t) \/ ApplyMissing(t))
          \/ limit /\ ApplyRateLimited
          \* failed_precondition, or an exception
          \/ StrikeOrError(t, "strike", limit) /\ UNCHANGED moved
    \/ built[t] = "retryable" /\ StrikeOrError(t, "strike", limit) /\ UNCHANGED moved
    \/ built[t] = "invalid" /\ StrikeOrError(t, "invalid", limit) /\ UNCHANGED moved
    \/ /\ built[t] = "unanswered"
       /\ ~limit
       /\ UNCHANGED <<marked, moved, queue, limited, settledUpTo, faults>>

\* In request order, until a settlement meets Gmail's rate limit.
SettleNext ==
    /\ pc = "settle"
    /\ \E t \in Foremost(chunk), limit \in BOOLEAN :
          /\ SettleThread(t, limit)
          /\ chunk' = IF limit THEN {} ELSE chunk \ {t}
          /\ stop' = IF limit THEN "gmail" ELSE stop
    /\ UNCHANGED <<history, gone, persistent, pc, ingestVars, taken, screened, built,
                   loadedStrikes, readUpTo>>

FinishSettling ==
    /\ pc = "settle"
    /\ chunk = {}
    /\ pc' = "saveChunk"
    /\ built' = Empty
    /\ UNCHANGED <<mailbox, persistent, queue, ingestVars, stop, taken, chunk, screened,
                   limited, loadedStrikes, readUpTo, settledUpTo, faults>>

\* Once for the chunk, whatever happened.
SaveChunk ==
    /\ pc = "saveChunk"
    /\ pc' = "take"
    /\ stored' = Exactly(queue)
    /\ UNCHANGED <<mailbox, position, queue, ingestVars, stop, taken, chunkVars,
                   limited, loadedStrikes, readUpTo, settledUpTo, faults>>

-----------------------------------------------------------------------------
(* The execution is killed, or an exception ends the run.                  *)

Saving == pc \in {"save", "saveChunk"}

Crash ==
    /\ pc # "idle"
    /\ Fault
    /\ IF Saving THEN stored' \in PartlySaved(stored, queue) ELSE UNCHANGED stored
    /\ Reset
    /\ UNCHANGED <<mailbox, position, settledUpTo>>

-----------------------------------------------------------------------------

Init ==
    /\ history = <<>>
    /\ marked = {} /\ gone = {} /\ moved = {}
    /\ stored = Empty
    /\ position = [historyId |-> 0, savedAt |-> 1]
    /\ pc = "idle"
    /\ queue = Empty
    /\ handledId = 0 /\ pageEnd = 0 /\ mailboxId = 0
    /\ stop = "none"
    /\ taken = {}
    /\ chunk = {} /\ screened = Empty /\ built = Empty
    /\ limited = FALSE
    /\ loadedStrikes = Empty
    /\ readUpTo = NoReads
    /\ settledUpTo = NoReads
    /\ faults = 0

Environment ==
    \/ \E S \in SUBSET Threads : Cardinality(S) <= RecordThreads /\ ReceiveMail(S)
    \/ \E t \in Threads : RemoveJevError(t) \/ DeleteThread(t)

\* The steps of a run when nothing outside it fails.
RunStep ==
    \/ StartRun \/ ListHistory \/ IngestRecord \/ FinishPage
    \/ SaveIngested \/ AdvancePosition
    \/ TakeChunk \/ FinishRun
    \/ ScreenThread \/ FinishScreening
    \/ ReadNext \/ SendRequests \/ SettleNext \/ FinishSettling \/ SaveChunk

\* What stops a run early, at a place the code has for it.
EarlyStop == StopIngest \/ StopTaking \/ ScreenFails \/ ReadRefused

Next == Environment \/ RunStep \/ EarlyStop \/ Crash

Spec == Init /\ [][Next]_vars

FairSpec == Spec /\ WF_vars(RunStep)

-----------------------------------------------------------------------------
(* Properties.                                                             *)

IsStored(s) ==
    DOMAIN s \subseteq Threads /\ \A t \in DOMAIN s : s[t] \subseteq WorkItem /\ s[t] # {}

IsQueue(q) == DOMAIN q \subseteq Threads /\ \A t \in DOMAIN q : q[t] \in WorkItem

TypeOK ==
    /\ history \in Seq(Record)
    /\ marked \subseteq Threads /\ gone \subseteq Threads /\ moved \subseteq Threads
    /\ IsStored(stored) /\ IsQueue(queue)
    /\ position \in [historyId : Nat, savedAt : Nat]
    /\ pc \in {"idle", "list", "records", "save", "advance", "take", "screen",
               "read", "settle", "saveChunk"}
    /\ handledId \in Nat /\ pageEnd \in Nat /\ mailboxId \in Nat
    /\ stop \in {"none", "cap", "deadline", "gmail", "sending"}
    /\ taken \subseteq Threads /\ chunk \subseteq Threads
    /\ DOMAIN screened \subseteq Threads
    /\ \A t \in DOMAIN screened : screened[t] \in {"skip", "first", "notFirst"}
    /\ DOMAIN built \subseteq Threads
    /\ \A t \in DOMAIN built : built[t] \in Answers \cup {"unsent"}
    /\ limited \in BOOLEAN
    /\ DOMAIN loadedStrikes \subseteq Threads
    /\ \A t \in DOMAIN loadedStrikes : loadedStrikes[t] \in 0..MaxStoredStrikes
    /\ readUpTo \in [Threads -> Nat] /\ settledUpTo \in [Threads -> Nat]
    /\ faults \in Nat

\* Every thread that history up to the saved position asks for is still in the
\* stored queue, or was settled by a read that included that history: a crash,
\* a full queue, an early stop or a half-written save never loses mail.
NoMailLost ==
    \A i \in 1..position.historyId, t \in Threads :
        t \in Wanted(history[i]) => t \in DOMAIN stored \/ settledUpTo[t] >= i

\* A thread that carries Jev/Error is never sent again until the user removes
\* the label, also when the run that added it died before it could save.
MarkedThreadsAreNotSent == \A t \in DOMAIN built : pc = "read" => t \notin marked

\* Jev/Error for repeated failures needs a failure in each of three runs: the
\* strikes of one run never add up, and a retry asked for by the user starts
\* again from none.
JevErrorIsEarned ==
    [][\A t \in marked' \ marked :
          \/ t \in DOMAIN built /\ built[t] = "invalid"
          \/ t \in DOMAIN loadedStrikes /\ loadedStrikes[t] = MaxStoredStrikes]_vars

\* A thread that Jev failed leaves the queue only with Jev/Error on it, or
\* because it is gone: an error that cannot be shown to the user stays queued.
FailuresStayVisible ==
    [][\A t \in DOMAIN queue \ DOMAIN queue' :
          pc = "settle" /\ pc' = "settle" /\ built[t] # "ok"
             => t \in marked' \cup gone]_vars

\* Once Gmail has reported its rate limit, the run makes no further Gmail call.
RateLimitStopsGmailWork ==
    [][limited /\ history' = history /\ pc' # "idle" =>
          pc' # "screen" /\ UNCHANGED <<readUpTo, marked, moved>>]_vars

\* All mail that has arrived is eventually settled: a backlog larger than the
\* queue is worked off, and no failure that ends keeps a thread waiting.  Only a
\* record that asks for more threads than the queue holds is never passed: each
\* run fills the queue with its first threads and reads it again.
MailIsSettled ==
    \A i \in 1..MaxRecords, t \in Threads :
        (i <= Len(history) /\ t \in Wanted(history[i]))
            ~> \/ settledUpTo[t] >= i
               \/ \E j \in DOMAIN history :
                     Cardinality(Wanted(history[j])) > QueueMaxItems
=============================================================================
