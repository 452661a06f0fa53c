------------------------------ MODULE ManualJob -------------------------------
(***************************************************************************)
(* The manual job: started from the MANUAL_* inputs, cancelled or replaced *)
(* by the user, and worked on by editor runs and in the spare time of      *)
(* scheduled runs, from src/app/manual-start.ts, manual-cancel.ts,         *)
(* manual-run.ts, manual-refill.ts and src/core/manual-job.ts.             *)
(*                                                                         *)
(* Each page of the job search is queued, chunks of the queued items are   *)
(* classified, and the job is done when its search is and no manual item   *)
(* is left.  Executions hold the script lock, so one runs at a time; any   *)
(* of them may end between two of its writes.  Of a work item its source   *)
(* and its applyMoves matter here, and of a job no counts.                 *)
(*                                                                         *)
(* Gmail lists the threads that match, the newest first, and a page token  *)
(* stands for the place after the last thread of the page it came with.    *)
(***************************************************************************)
EXTENDS Integers, FiniteSets, Sequences

CONSTANTS
    Threads,
    QueueMaxItems,        \* QUEUE_MAX_ITEMS (1000)
    QueueMaxManualItems,  \* QUEUE_MAX_MANUAL_ITEMS (200)
    PageSize,             \* MANUAL_PAGE_SIZE (100)
    ChunkSize,            \* of the run's limits
    MaxDate,              \* bound: messages that change the search
    MaxFaults             \* bound: executions that end early, rejected tokens, ...

ASSUME ManualJobAssumption ==
    /\ IsFiniteSet(Threads)
    /\ PageSize \in Nat \ {0} /\ ChunkSize \in Nat \ {0}
    /\ QueueMaxManualItems \in Nat /\ QueueMaxManualItems >= PageSize
    /\ QueueMaxItems \in Nat /\ QueueMaxItems >= PageSize
    /\ MaxDate \in Nat /\ MaxFaults \in Nat

VARIABLES
    date,      \* Gmail: of each thread's newest match, 0 without one
    inputs,    \* the MANUAL_* Script Properties
    queue,     \* state.queue
    job,       \* state.manual, or NoJob
    pc, run,   \* the execution that holds the lock, and its memory
    \* History variables.
    owed,      \* threads in the job's search since its start, not yet queued
    left,      \* a thread left the search since the job started
    slipped,   \* a walk counted on a search whose threads had left or moved
    wanted,    \* the user set MANUAL_APPLY_MOVES together with the query
    strays,    \* state.manual was deleted by hand, with items queued
    faults

vars == <<date, inputs, queue, job, pc, run, owed, left, slipped, wanted, strays,
          faults>>
world == <<date, owed, left>>
observed == <<slipped, wanted, strays>>

-----------------------------------------------------------------------------
(* The inputs and the queue.                                               *)

Inputs == {"query", "moves", "replace"}

NotQueued == [source |-> "none", moves |-> FALSE]
Item(source, moves) == [source |-> source, moves |-> moves]
Items == {NotQueued} \cup [source : {"scheduled", "manual"}, moves : BOOLEAN]

From(q, source) == {t \in Threads : q[t].source = source}
Queued(q) == {t \in Threads : q[t] # NotQueued}

\* enqueue, of an item for each of S.  A thread already queued merges: its
\* source is scheduled if either is, and moves apply if either asks for them.
Enqueued(q, S, item) ==
    [t \in Threads |->
        CASE t \notin S -> q[t]
          [] t \in S /\ q[t] = NotQueued -> item
          [] OTHER -> Item(IF "scheduled" \in {q[t].source, item.source}
                           THEN "scheduled" ELSE "manual",
                           q[t].moves \/ item.moves)]

Dequeued(q, S) == [t \in Threads |-> IF t \in S THEN NotQueued ELSE q[t]]

\* Fault: keeps the manual items.
ClearMovesOnly(q) == [t \in Threads |-> [q[t] EXCEPT !.moves = FALSE]]

DropManualWork(q) ==
    [t \in Threads |-> IF q[t].source = "manual" THEN NotQueued
                       ELSE [q[t] EXCEPT !.moves = FALSE]]

-----------------------------------------------------------------------------
(* The job, its cursor and its search.                                     *)

NoToken == 0
NoJob == [moves |-> FALSE, seen |-> -1, token |-> NoToken, done |-> FALSE]
NewJob(moves) == [moves |-> moves, seen |-> 0, token |-> NoToken, done |-> FALSE]

Advanced(j, ids, next) ==
    [j EXCEPT !.seen = @ + ids, !.token = next, !.done = next = NoToken]

DropPageToken(j) == [j EXCEPT !.token = NoToken]

NeedsCursorWalk(j) == ~j.done /\ j.token = NoToken /\ j.seen > 0

Restored(j, passed, next, done) ==
    [j EXCEPT !.seen = passed, !.token = next, !.done = done]

\* Fault: asks for room for one item only.
HasRoomForItem(j, q) ==
    /\ ~j.done
    /\ Cardinality(Queued(q)) < QueueMaxItems
    /\ Cardinality(From(q, "manual")) < QueueMaxManualItems

HasRoomForPage(j, q) ==
    /\ ~j.done
    /\ Cardinality(Queued(q)) <= QueueMaxItems - PageSize
    /\ Cardinality(From(q, "manual")) <= QueueMaxManualItems - PageSize

\* What is left of the search behind a token.
Remaining(token) ==
    {t \in Threads : date[t] > 0 /\ (token = NoToken \/ date[t] < token)}

\* The pages Gmail may answer with: the newest of what remains, down to one of
\* its threads, and that thread's place as the token if there are more.  An
\* empty page with a token leads back to the same place, at most
\* REFILL_MAX_EMPTY_PAGES times, and is left out.
Pages(token) ==
    LET rest == Remaining(token)
        DownTo(last) == {t \in rest : date[t] >= date[last]}
    IN  IF rest = {} THEN {[ids |-> {}, next |-> NoToken]}
        ELSE {[ids |-> DownTo(last),
               next |-> IF DownTo(last) = rest THEN NoToken ELSE date[last]] :
                  last \in {t \in rest : Cardinality(DownTo(t)) <= PageSize}}

-----------------------------------------------------------------------------
(* The execution.  What it writes next, in order, is run.todo.  run.moved  *)
(* is history: a thread that the walk had yet to pass moved to the front.  *)

Idle == [queue |-> [t \in Threads |-> NotQueued], job |-> NoJob, taken |-> {},
         fresh |-> FALSE, passed |-> 0, token |-> NoToken, moved |-> FALSE,
         todo |-> <<>>, after |-> "idle"]

Faulty == faults < MaxFaults /\ faults' = faults + 1
Faultless == UNCHANGED faults
Holds(step) == pc = step /\ UNCHANGED <<inputs, queue, job>>

Goes(step, memory) == pc' = step /\ run' = memory
Ends == Goes("idle", Idle)
Writes(memory, todo, after) ==
    Goes("writing", [memory EXCEPT !.todo = todo, !.after = after])

\* Fault: the cursor is saved before the queue.
CursorFirst == <<"job", "queue">>

\* After a page, and after a chunk.
PageWrites == <<"queue", "job">>

\* Fault: the job goes before its items.
JobFirst == <<"delete", "queue">>

CancelWrites == <<"queue", "delete">>

\* Fault: the inputs go before the job is stored.
InputsFirst == <<"query", "moves", "replace", "new">>

StartWrites == <<"new", "query", "moves", "replace">>

Init ==
    /\ date = [t \in Threads |-> 0]
    /\ inputs = [input \in Inputs |-> FALSE]
    /\ queue = [t \in Threads |-> NotQueued]
    /\ job = NoJob
    /\ pc = "idle" /\ run = Idle
    /\ owed = {} /\ left = FALSE /\ slipped = FALSE
    /\ wanted = FALSE /\ strays = FALSE
    /\ faults = 0

-----------------------------------------------------------------------------
(* The mailbox, the user, and the scheduled work of other executions.      *)

\* A matching message arrives; the thread's newer mail is scheduled work.
MailArrives(t) ==
    /\ pc \in {"idle", "refill", "walk"}
    /\ \E now \in 1..MaxDate :
          /\ \A u \in Threads : date[u] < now
          /\ now = 1 \/ \E u \in Threads : date[u] = now - 1
          /\ date' = [date EXCEPT ![t] = now]
    /\ run' = [run EXCEPT !.moved = @ \/ date[t] \in 1..(run.token - 1)]
    /\ owed' = owed \ {t}
    /\ UNCHANGED <<inputs, queue, job, pc, left>> /\ UNCHANGED observed
    /\ Faultless

ThreadLeavesSearch(t) ==
    /\ pc \in {"idle", "refill", "walk"}
    /\ date[t] > 0
    /\ date' = [date EXCEPT ![t] = 0]
    /\ owed' = owed \ {t}
    /\ left' = TRUE
    /\ UNCHANGED <<inputs, queue, job, pc, run>> /\ UNCHANGED observed
    /\ Faultless

\* The user sets a query, and either of the flags or neither.
SetInputs(moves, replace) ==
    /\ pc = "idle"
    /\ inputs' = [inputs EXCEPT !.query = TRUE, !.moves = @ \/ moves,
                                !.replace = @ \/ replace]
    /\ wanted' = (moves \/ (inputs.query /\ wanted))
    /\ UNCHANGED <<queue, job, pc, run, slipped, strays>> /\ UNCHANGED world
    /\ Faultless

\* state.manual is deleted in the editor.
DeletedByHand ==
    /\ pc = "idle" /\ job # NoJob
    /\ job' = NoJob
    /\ strays' = (From(queue, "manual") # {})
    /\ UNCHANGED <<inputs, queue, pc, run, slipped, wanted>> /\ UNCHANGED world
    /\ Faulty

\* A scheduled run: ScheduledRun models it.
Scheduled(t) ==
    /\ pc = "idle"
    /\ queue' = IF queue[t].source = "scheduled"
                THEN Dequeued(queue, {t})
                ELSE Enqueued(queue, {t}, Item("scheduled", FALSE))
    /\ Cardinality(Queued(queue')) <= QueueMaxItems
    /\ owed' = owed \ Queued(queue')
    /\ UNCHANGED <<inputs, job, pc, run, date, left>> /\ UNCHANGED observed
    /\ Faultless

-----------------------------------------------------------------------------
(* Start and cancel.                                                       *)

\* A request that is not refused (no_input, job_unfinished).
StartManualRun ==
    LET dropped == DropManualWork(queue)
        first == CASE job # NoJob -> CancelWrites
                   [] job = NoJob /\ dropped # queue -> <<"queue">>
                   [] OTHER -> <<>>
    IN  /\ Holds("idle")
        /\ inputs.query
        /\ job # NoJob => inputs.replace
        /\ Writes([Idle EXCEPT !.queue = dropped, !.job = NewJob(inputs.moves)],
                  first \o StartWrites, "load")
        /\ UNCHANGED world /\ UNCHANGED observed /\ Faultless

CancelManualRun ==
    /\ Holds("idle")
    /\ Writes([Idle EXCEPT !.queue = DropManualWork(queue)],
              IF job = NoJob THEN <<"queue">> ELSE CancelWrites, "idle")
    /\ UNCHANGED world /\ UNCHANGED observed /\ Faultless

-----------------------------------------------------------------------------
(* Work on the job.                                                        *)

\* An editor run, or the spare time of a scheduled run that took `taken`.
BeginWork(taken) ==
    /\ pc \in {"idle", "load"}
    /\ pc = "load" => taken = {}
    /\ taken \cap From(queue, "manual") = {}
    /\ job # NoJob
    /\ Goes("refill", [Idle EXCEPT !.queue = queue, !.job = job, !.taken = taken])
    /\ UNCHANGED <<inputs, queue, job>> /\ UNCHANGED world /\ UNCHANGED observed
    /\ Faultless

\* The preflight leaves the job for another execution.
LeaveJob ==
    /\ Holds("load")
    /\ Ends
    /\ UNCHANGED world /\ UNCHANGED observed /\ Faultless

\* No room for a page, or neither time nor units left for one.
EndRefill ==
    /\ pc \in {"refill", "walk"}
    /\ Goes("chunk", [run EXCEPT !.fresh = FALSE, !.passed = 0, !.token = NoToken,
                                 !.moved = FALSE])
    /\ UNCHANGED <<inputs, queue, job>> /\ UNCHANGED world /\ UNCHANGED observed
    /\ Faultless

ReadPage ==
    /\ Holds("refill")
    /\ HasRoomForPage(run.job, run.queue) /\ ~NeedsCursorWalk(run.job)
    /\ \E page \in Pages(run.job.token) :
          Writes([run EXCEPT
                     !.queue = Enqueued(@, page.ids, Item("manual", run.job.moves)),
                     !.job = Advanced(@, Cardinality(page.ids), page.next),
                     !.fresh = TRUE],
                 PageWrites, "refill")
    /\ UNCHANGED world /\ UNCHANGED observed /\ Faultless

\* Gmail no longer knows a token of an earlier execution.
RejectToken ==
    /\ Holds("refill")
    /\ HasRoomForPage(run.job, run.queue)
    /\ run.job.token # NoToken /\ ~run.fresh
    /\ Writes([run EXCEPT !.job = DropPageToken(@)], <<"job">>, "refill")
    /\ UNCHANGED world /\ UNCHANGED observed /\ Faulty

StartWalk ==
    /\ Holds("refill")
    /\ HasRoomForPage(run.job, run.queue) /\ NeedsCursorWalk(run.job)
    /\ Goes("walk", run)
    /\ UNCHANGED world /\ UNCHANGED observed /\ Faultless

\* The walk is over: `passed` threads lie before the restored cursor.
WalkEnds(passed, next, done) ==
    /\ Writes([run EXCEPT !.job = Restored(@, passed, next, done), !.fresh = TRUE,
                          !.passed = 0, !.token = NoToken, !.moved = FALSE],
              <<"job">>, "refill")
    /\ slipped' = (slipped \/ left \/ run.moved)
    /\ UNCHANGED <<wanted, strays>>

FitsTarget(passed, ids) == passed + ids <= run.job.seen

Walk ==
    /\ Holds("walk")
    /\ \/ /\ run.passed = run.job.seen
          /\ WalkEnds(run.passed, run.token, FALSE)
       \/ /\ run.passed # run.job.seen
          /\ \E page \in Pages(run.token) :
                LET passed == run.passed + Cardinality(page.ids)
                IN  CASE ~FitsTarget(run.passed, Cardinality(page.ids)) ->
                            WalkEnds(run.passed, run.token, FALSE)
                      [] FitsTarget(run.passed, Cardinality(page.ids))
                         /\ page.next = NoToken ->
                            WalkEnds(passed, NoToken, TRUE)
                      [] OTHER ->
                            /\ Goes("walk", [run EXCEPT !.passed = passed,
                                                        !.token = page.next])
                            /\ UNCHANGED observed
    /\ UNCHANGED world /\ Faultless

IsComplete ==
    /\ From(run.queue, "manual") = {}
    /\ run.job.done

ProcessChunk ==
    LET manual == From(run.queue, "manual") \ run.taken
    IN  /\ Holds("chunk")
        /\ \E chunk \in SUBSET manual \ {{}} :
              /\ Cardinality(chunk) <= ChunkSize
              /\ chunk # manual => Cardinality(chunk) = ChunkSize
              \* Classified, excluded, errored or gone; the others stay queued.
              /\ \E settled \in SUBSET chunk, after \in {"refill", "idle"} :
                    Writes([run EXCEPT !.queue = Dequeued(@, settled),
                                       !.taken = @ \cup chunk],
                           PageWrites, after)
        /\ UNCHANGED world /\ UNCHANGED observed /\ Faultless

\* Nothing that may be taken now, no time for a chunk, or Gmail refused.
StopWork ==
    /\ \/ pc \in {"refill", "walk"}
       \/ pc = "chunk" /\ ~IsComplete
    /\ Writes(run, <<"job">>, "idle")
    /\ UNCHANGED <<inputs, queue, job>> /\ UNCHANGED world /\ UNCHANGED observed
    /\ Faultless

CompleteJob ==
    /\ Holds("chunk")
    /\ IsComplete
    /\ Writes(run, <<"delete">>, "idle")
    /\ UNCHANGED world /\ UNCHANGED observed /\ Faultless

\* The next of the execution's writes.
Write ==
    LET key == Head(run.todo)
        rest == Tail(run.todo)
    IN  /\ pc = "writing"
        /\ queue' = IF key = "queue" THEN run.queue ELSE queue
        /\ job' = CASE key \in {"job", "new"} -> run.job
                    [] key = "delete" -> NoJob
                    [] OTHER -> job
        /\ inputs' = IF key \in Inputs
                     THEN [inputs EXCEPT ![key] = FALSE] ELSE inputs
        /\ IF rest # <<>> THEN Goes("writing", [run EXCEPT !.todo = rest])
           ELSE IF run.after \in {"idle", "load"} THEN Goes(run.after, Idle)
           ELSE Goes(run.after, [run EXCEPT !.todo = <<>>, !.after = "idle"])
        /\ strays' = (strays /\ From(queue', "manual") # {})
        /\ IF key = "new"
           THEN /\ owed' = {t \in Threads : date[t] > 0}
                /\ left' = FALSE /\ slipped' = FALSE
           ELSE /\ owed' = owed \ Queued(queue')
                /\ UNCHANGED <<left, slipped>>
        /\ UNCHANGED wanted
        /\ UNCHANGED date /\ Faultless

\* Apps Script ends the execution, or an exception does.
Crash ==
    /\ pc # "idle"
    /\ Ends
    /\ UNCHANGED <<inputs, queue, job>> /\ UNCHANGED world /\ UNCHANGED observed
    /\ Faulty

Next ==
    \/ \E t \in Threads : MailArrives(t) \/ ThreadLeavesSearch(t) \/ Scheduled(t)
    \/ \E moves, replace \in BOOLEAN : SetInputs(moves, replace)
    \/ DeletedByHand
    \/ StartManualRun \/ CancelManualRun
    \/ \E taken \in SUBSET Threads : BeginWork(taken)
    \/ LeaveJob \/ EndRefill \/ ReadPage \/ RejectToken \/ StartWalk \/ Walk
    \/ ProcessChunk \/ StopWork \/ CompleteJob
    \/ Write \/ Crash

Spec == Init /\ [][Next]_vars

-----------------------------------------------------------------------------
(* Properties.                                                             *)

\* What manualJobCodec accepts: a finished search has no token.
Jobs == {j \in [moves : BOOLEAN, seen : Nat, token : 0..MaxDate, done : BOOLEAN] :
            j.done => j.token = NoToken}

WithinCaps(q) ==
    /\ Cardinality(Queued(q)) <= QueueMaxItems
    /\ Cardinality(From(q, "manual")) <= QueueMaxManualItems

Keys == {"queue", "job", "new", "delete"} \cup Inputs

Memories ==
    [queue : [Threads -> Items], job : Jobs \cup {NoJob}, taken : SUBSET Threads,
     fresh : BOOLEAN, passed : Nat, token : 0..MaxDate, moved : BOOLEAN,
     todo : Seq(Keys), after : {"idle", "load", "refill"}]

\* Type invariant: also that a job that is saved can be loaded, and that the
\* caps hold, of the stored queue and of the one that is saved next.
TypeOK ==
    /\ date \in [Threads -> 0..MaxDate]
    /\ inputs \in [Inputs -> BOOLEAN]
    /\ queue \in [Threads -> Items] /\ WithinCaps(queue)
    /\ job \in Jobs \cup {NoJob}
    /\ pc \in {"idle", "load", "refill", "walk", "chunk", "writing"}
    /\ run \in Memories /\ WithinCaps(run.queue)
    /\ owed \subseteq Threads
    /\ {left, slipped, wanted, strays} \subseteq BOOLEAN
    /\ faults \in 0..MaxFaults

\* There are never queued manual items without a job to finish them, whichever
\* write an execution ends after, except when the user deleted the job by hand
\* (cancelManualJob and refillManualQueue save the queue first, and a job
\* completes with none queued).
ManualWorkHasAJob ==
    From(queue, "manual") # {} => job # NoJob \/ strays

\* Items of a replaced, cancelled or deleted job are never run with another
\* job's applyMoves (startManualJob drops what it finds first).
MovesFollowTheJob ==
    job # NoJob => \A t \in From(queue, "manual") : queue[t].moves = job.moves

\* A job completes only when every thread that was in its search all along has
\* been queued, whatever crashed and whichever token Gmail rejected; a thread
\* can be missed only by a walk after another one left the search, or during
\* which new mail moved one that the walk had yet to pass to the front.
JobCoversItsSearch ==
    (pc = "writing" /\ run.todo = <<"delete">> /\ run.job.done)
        => owed = {} \/ slipped

\* An accepted request is deleted only when the job it asks for is stored.
RequestsBecomeJobs ==
    [][inputs.query /\ ~inputs'.query => job # NoJob /\ job' = job]_vars

\* As README.md says: a MANUAL_APPLY_MOVES left over from an earlier start
\* does not act on a later run, so a job that is about to be stored moves
\* threads only if the user set that input together with its query.
LeftoversAreNotUsed ==
    (pc = "writing" /\ Head(run.todo) = "new" /\ run.job.moves) => wanted
=============================================================================
