------------------------------ MODULE JevSender ------------------------------
(***************************************************************************)
(* Sending a chunk's requests to Jev: src/app/jev-sender.ts with its retry *)
(* policy (src/core/jev-status.ts, retry-delay.ts), the daily token budget *)
(* (src/core/token-budget.ts), and what src/app/settle-thread.ts and       *)
(* src/app/run-controller.ts make of the entries.                          *)
(*                                                                         *)
(* A call sends batches; a batch is sent in rounds, each with the requests *)
(* still to be retried.  processChunk passes one batch at most; the code   *)
(* takes more and so does this module.  Threads are numbers, in the order  *)
(* of the queue.  Reading and applying always succeed here (ScheduledRun   *)
(* has their failures), and every thread is queued at the start.           *)
(***************************************************************************)
EXTENDS Integers, FiniteSets, Sequences, FiniteSetsExt

CONSTANTS
    Threads,
    ChunkSize,          \* the most requests of a call
    BatchSize,          \* MAX_REQUESTS_PER_FETCHALL
    MaxAttempts,        \* MAX_ATTEMPTS
    MaxStrikes,         \* the strike that earns Jev/Error
    DailyTokenBudget,   \* config.dailyTokenBudget
    MaxTokens,          \* the most input tokens of one request
    InitialEstimate,    \* INITIAL_ROUND_ESTIMATE_MS
    BaseDelay,          \* BASE_DELAY_MS
    MaxBackoff,         \* MAX_BACKOFF_MS
    MaxRetryAfter,      \* MAX_RETRY_AFTER_MS
    Waits,              \* waits that a response may ask for; 0 when it does not
    SoftLimit,          \* softLimitMs of the run
    MinChunkStart,      \* minChunkStartMs: the reads of a chunk and a round
    MaxRead,            \* bound: the time to read a chunk
    MaxRound,           \* bound: the longest round
    MaxDay,             \* bound: days
    MaxFaults           \* bound: executions that die

ASSUME SenderAssumption ==
    /\ Threads \subseteq Nat /\ IsFiniteSet(Threads)
    /\ {ChunkSize, BatchSize, MaxAttempts, MaxStrikes, DailyTokenBudget, MaxTokens,
        InitialEstimate, BaseDelay, MaxBackoff, SoftLimit, MaxRound} \subseteq Nat \ {0}
    /\ {MinChunkStart, MaxRetryAfter, MaxRead, MaxDay, MaxFaults} \subseteq Nat
    /\ Waits \subseteq Nat /\ 0 \in Waits

VARIABLES
    day,        \* today(clock)
    \* Script Properties and labels.
    stored,     \* state.budget
    strikes,    \* of the queued threads
    errored,    \* threads with Jev/Error
    \* The run.
    pc,
    remaining,  \* deadline.remaining(), before it is cut off at 0
    taken,      \* threads taken in this run
    \* The call of sendJevRequests.
    requests,
    from,       \* the first request of the batch
    pending,    \* requests of the next round
    attempt,
    entries,    \* of the requests that have one
    estimate,   \* roundEstimate
    budget,     \* the budget in memory
    stopped,    \* why the call stops, or None
    \* History variables.
    billed,     \* by day: the tokens of the batches begun on it
    tries,      \* the last try of each request of the call
    slow,       \* a round took longer than was estimated
    over,       \* a response or a missing scope has ended sending in this run
    faults

persistent == <<stored, strikes, errored>>
callVars == <<requests, from, pending, attempt, entries, estimate, budget, stopped>>
vars == <<day, persistent, pc, remaining, taken, callVars, billed, tries, slow, over, faults>>

None == "none"
Queued == DOMAIN strikes

-----------------------------------------------------------------------------
(* One request's outcome in a round.                                       *)

\* A 200: a malformed one carries its usage, or it counts as `failed`.
Answered == [kind : {"success", "malformed"}, tokens : 1..MaxTokens, wait : {0}]

\* `failed` and `error500` are the exceptional statuses below 500 and from 500.
Final == [kind : {"invalid", "auth", "config", "failed", "error500", "scope"}, tokens : {0},
          wait : {0}]

\* 502, 503, 504 and 529; 408 and 429; no response at all, and so no header.
Retryable ==
    [kind : {"unavailable", "limited"}, tokens : {0}, wait : Waits]
        \cup [kind : {"transport"}, tokens : {0}, wait : {0}]

Outcomes == Answered \cup Final \cup Retryable

\* Whose failure an outcome is: nobody's or the account's, the thread's for
\* good, or perhaps only this attempt's.
Class(outcome) ==
    CASE outcome.kind \in {"success", "auth", "config", "scope"} -> "other"
      [] outcome \in Retryable -> "retryable"
      [] OTHER -> "final"

ServerErrors == {"error500", "unavailable", "transport"}

Kinds(round) == {round[t].kind : t \in DOMAIN round}

IsOutageRound(round) ==
    Cardinality(DOMAIN round) >= 2 /\ Kinds(round) \subseteq ServerErrors

\* The stop a round causes, the first one of several.
RoundStop(round) ==
    IF "auth" \in Kinds(round) THEN "auth"
    ELSE IF "config" \in Kinds(round) THEN "config"
    ELSE IF "scope" \in Kinds(round) THEN "scope" ELSE None

\* min(MAX_BACKOFF, BASE_DELAY * 2^(n - 1)), less up to a quarter, rounded up.
Backoffs(n) ==
    LET doubled == BaseDelay * 2 ^ (n - 1)
    IN  {b \in 1..MaxBackoff :
            b <= doubled /\ (4 * b > 3 * MaxBackoff \/ 4 * b > 3 * doubled)}

-----------------------------------------------------------------------------
(* The daily budget.                                                       *)

BudgetForDay(b, d) == IF b.day = d THEN b ELSE [day |-> d, tokens |-> 0]

IsBudgetReached(b) == b.tokens >= DailyTokenBudget

\* The sum of the tokens that `f` has for the threads of S: one pair for each.
Tokens(f, S) == Cardinality({c \in S \X (1..MaxTokens) : c[2] <= f[c[1]].tokens})

\* Fault: only answers that were usable are paid for.
UsableTokens(S) == Tokens(entries, {t \in S : entries[t].outcome = "classified"})

\* What the batch's 200s cost, also those that cannot be used.
BatchTokens(S) == Tokens(entries, S)

-----------------------------------------------------------------------------
(* Around the calls.                                                       *)

\* An entry is what settleThread makes of it, and the tokens it cost.
NoEntry == [outcome |-> None, tokens |-> 0]
NoTry == [count |-> 0, class |-> None, alone |-> FALSE, down |-> FALSE]
NotSent == [outcome |-> "untouched", tokens |-> 0]

Batch == {requests[i] : i \in from..Min({from + BatchSize - 1, Len(requests)})}
InCall == {requests[i] : i \in DOMAIN requests}

Fault == faults < MaxFaults /\ faults' = faults + 1

\* The day is read when a call begins and before each batch.
Midnight ==
    /\ pc \in {"idle", "chunk", "batch"}
    /\ day < MaxDay
    /\ day' = day + 1
    /\ UNCHANGED <<persistent, pc, remaining, taken, callVars, billed, tries, slow, over,
                   faults>>

StartRun ==
    /\ pc = "idle"
    /\ pc' = "chunk"
    /\ remaining' = SoftLimit
    /\ UNCHANGED <<day, persistent, taken, callVars, billed, tries, slow, over, faults>>

CallEnded ==
    /\ requests' = <<>> /\ from' = 1 /\ pending' = {} /\ attempt' = 1
    /\ entries' = <<>> /\ estimate' = 0 /\ stopped' = None
    /\ budget' = [day |-> 0, tokens |-> 0]
    /\ tries' = <<>>

RunEnded ==
    /\ pc' = "idle" /\ remaining' = SoftLimit /\ taken' = {}
    /\ slow' = FALSE /\ over' = FALSE
    /\ CallEnded

Die ==
    /\ pc # "idle"
    /\ Fault
    /\ RunEnded
    /\ UNCHANGED <<day, persistent, billed>>

\* The time half of the check; a run that is out of Gmail units ends at any
\* chunk (FinishRun).
CanStartChunk == remaining >= MinChunkStart

\* A chunk of the queue is taken and read, which takes time, perhaps more than
\* was planned; the call begins.
TakeChunk ==
    /\ pc = "chunk"
    /\ CanStartChunk
    /\ Queued \ taken # {}
    /\ \E n \in {Min({ChunkSize, Cardinality(Queued \ taken)})} :
       \E chunk \in [1..n -> Queued \ taken] :
          /\ \A i, j \in 1..n : i < j => chunk[i] < chunk[j]
          /\ \A t \in Queued \ taken :
                (\E i \in 1..n : chunk[i] = t) \/ \A i \in 1..n : chunk[i] < t
          /\ requests' = chunk
          /\ entries' = [t \in {chunk[i] : i \in 1..n} |-> NoEntry]
          /\ tries' = [t \in {chunk[i] : i \in 1..n} |-> NoTry]
          /\ taken' = taken \cup {chunk[i] : i \in 1..n}
    /\ \E spent \in 0..Min({MaxRead, remaining}) : remaining' = remaining - spent
    /\ estimate' = InitialEstimate
    /\ budget' = BudgetForDay(stored, day)
    /\ pc' = "batch"
    /\ UNCHANGED <<day, persistent, from, pending, attempt, stopped, billed, slow, over, faults>>

FinishRun ==
    /\ pc = "chunk"
    /\ RunEnded
    /\ UNCHANGED <<day, persistent, billed, faults>>

-----------------------------------------------------------------------------
(* sendJevRequests.                                                        *)

\* Requests without an entry when the call stops.
MarkedNotSent == [t \in DOMAIN entries |-> IF entries[t] = NoEntry THEN NotSent ELSE entries[t]]

StartBatch ==
    /\ pc = "batch"
    /\ from <= Len(requests)
    /\ budget' = BudgetForDay(budget, day)
    /\ ~IsBudgetReached(budget')
    /\ remaining >= estimate
    /\ pending' = Batch
    /\ attempt' = 1
    /\ pc' = "round"
    /\ UNCHANGED <<day, persistent, remaining, taken, requests, from, entries, estimate,
                   stopped, billed, tries, slow, over, faults>>

\* The budget comes first, so that it is the reason given.
HoldBatch ==
    /\ pc = "batch"
    /\ from <= Len(requests)
    /\ budget' = BudgetForDay(budget, day)
    /\ \/ IsBudgetReached(budget') /\ stopped' = "budget"
       \/ ~IsBudgetReached(budget') /\ remaining < estimate /\ stopped' = "deadline"
    /\ entries' = MarkedNotSent
    /\ pc' = "settle"
    /\ UNCHANGED <<day, persistent, remaining, taken, requests, from, pending, attempt,
                   estimate, billed, tries, slow, over, faults>>

\* Fault: a stop of the round is forgotten, and what is retryable sent again.
AgainAfterStop(round) ==
    IF IsOutageRound(round) \/ attempt >= MaxAttempts THEN {}
    ELSE {t \in DOMAIN round : round[t] \in Retryable /\ round[t].wait <= MaxRetryAfter}

\* The requests of a round that may be sent once more.
Again(round) ==
    IF RoundStop(round) # None \/ IsOutageRound(round) \/ attempt >= MaxAttempts THEN {}
    ELSE {t \in DOMAIN round : round[t] \in Retryable /\ round[t].wait <= MaxRetryAfter}

\* Fault: what is cut short has failed.
NothingIsCut(round, t) == FALSE

\* A retryable request that was cut short: it could have been sent again but for
\* the time, a stop of the round, or the wait it asked for.
IsCut(round, t) == attempt < MaxAttempts \/ RoundStop(round) # None

\* How a request that is not sent again ends.
Outcome(round, t) ==
    IF RoundStop(round) = None /\ IsOutageRound(round) THEN "untouched"
    ELSE CASE round[t].kind = "success" -> "classified"
           [] round[t].kind = "invalid" -> "marked"
           [] round[t].kind \in {"malformed", "failed", "error500"} -> "struck"
           [] round[t] \in Retryable /\ ~IsCut(round, t) -> "struck"
           [] OTHER -> "untouched"

EntryAfter(round, t) == [outcome |-> Outcome(round, t), tokens |-> round[t].tokens]

\* Fault: the sleep is left out.
FitsRound(left, sleep, longest) == left >= longest

\* Is there time to sleep and for a round as long as the longest so far?
FitsRetry(left, sleep, longest) == left >= sleep + longest

Round ==
    /\ pc = "round"
    /\ \E round \in [pending -> Outcomes], took \in 1..MaxRound, backoff \in Backoffs(attempt) :
          LET again == Again(round)
              timed == \E t \in InCall : tries[t] # NoTry
              longest == IF timed THEN Max({estimate, took}) ELSE took
              sleep == Max({backoff} \cup {round[t].wait : t \in again})
              left == remaining - took
              next == IF FitsRetry(left, sleep, longest) THEN again ELSE {}
              stop == RoundStop(round)
          IN  /\ entries' = [t \in DOMAIN entries |->
                    IF t \in pending \ next THEN EntryAfter(round, t) ELSE entries[t]]
              /\ estimate' = longest
              /\ pending' = next
              /\ stopped' = CASE stop # None -> stop
                              [] stop = None /\ IsOutageRound(round) -> "outage"
                              [] stop = None /\ again # next -> "deadline"
                              [] OTHER -> stopped
              /\ IF next = {}
                 THEN pc' = "after" /\ remaining' = left /\ UNCHANGED attempt
                 ELSE pc' = "round" /\ remaining' = left - sleep /\ attempt' = attempt + 1
              /\ tries' = [t \in DOMAIN tries |->
                    IF t \in pending
                    THEN [count |-> attempt, class |-> Class(round[t]), alone |-> pending = {t},
                          down |-> Kinds(round) \subseteq ServerErrors]
                    ELSE tries[t]]
              /\ billed' = [billed EXCEPT ![budget.day] =
                               @ + Tokens(round, pending)]
              /\ slow' = (slow \/ took > estimate)
              /\ over' = (over \/ stop # None \/ IsOutageRound(round))
    /\ UNCHANGED <<day, persistent, taken, requests, from, budget, faults>>

\* The batch's tokens are saved at once.  A stop ends the call; a retry round
\* that was skipped for time does not.
AfterBatch ==
    /\ pc = "after"
    /\ budget' = [budget EXCEPT !.tokens = @ + BatchTokens(Batch)]
    /\ stored' = IF BatchTokens(Batch) > 0 THEN budget' ELSE stored
    /\ IF stopped \in {None, "deadline"} /\ from + BatchSize <= Len(requests)
       THEN pc' = "batch" /\ from' = from + BatchSize /\ UNCHANGED entries
       ELSE pc' = "settle" /\ entries' = MarkedNotSent /\ UNCHANGED from
    /\ UNCHANGED <<day, strikes, errored, remaining, taken, requests, pending, attempt,
                   estimate, stopped, billed, tries, slow, over, faults>>

-----------------------------------------------------------------------------
(* Settling.                                                               *)

\* What would fail again is marked at once; the last strike marks too.
IsMarked(t) ==
    \/ entries[t].outcome = "marked"
    \/ entries[t].outcome = "struck" /\ strikes[t] + 1 >= MaxStrikes

LeavesQueue(t) == IsMarked(t) \/ entries[t].outcome = "classified"

StopsRun(stop) == stop # None

\* Every entry in turn, one save of the queue, and the controller's decision.
SettleChunk ==
    /\ pc = "settle"
    /\ errored' = errored \cup {t \in InCall : IsMarked(t)}
    /\ strikes' = [t \in Queued \ {u \in InCall : LeavesQueue(u)} |->
                      IF t \in InCall /\ entries[t].outcome = "struck" THEN strikes[t] + 1
                      ELSE strikes[t]]
    /\ IF StopsRun(stopped)
       THEN RunEnded
       ELSE pc' = "chunk" /\ CallEnded /\ UNCHANGED <<remaining, taken, slow, over>>
    /\ UNCHANGED <<day, stored, billed, faults>>

-----------------------------------------------------------------------------

Init ==
    /\ day = 0
    /\ stored = [day |-> 0, tokens |-> 0]
    /\ strikes = [t \in Threads |-> 0]
    /\ errored = {}
    /\ pc = "idle" /\ remaining = SoftLimit /\ taken = {}
    /\ requests = <<>> /\ from = 1 /\ pending = {} /\ attempt = 1 /\ entries = <<>>
    /\ estimate = 0 /\ budget = [day |-> 0, tokens |-> 0] /\ stopped = None
    /\ billed = [d \in 0..MaxDay |-> 0]
    /\ tries = <<>> /\ slow = FALSE /\ over = FALSE /\ faults = 0

Next ==
    \/ Midnight \/ Die
    \/ StartRun \/ TakeChunk \/ FinishRun
    \/ StartBatch \/ HoldBatch \/ Round \/ AfterBatch \/ SettleChunk

Spec == Init /\ [][Next]_vars

-----------------------------------------------------------------------------
(* Properties.                                                             *)

Budgets == [day : 0..MaxDay, tokens : Nat]

TypeOK ==
    /\ day \in 0..MaxDay
    /\ stored \in Budgets /\ stored.day <= day
    /\ Queued \subseteq Threads /\ errored \subseteq Threads \ Queued
    /\ \A t \in Queued : strikes[t] \in 0..MaxStrikes - 1
    /\ pc \in {"idle", "chunk", "batch", "round", "after", "settle"}
    /\ remaining \in Int /\ taken \subseteq Threads
    /\ InCall \subseteq Queued /\ pending \subseteq InCall
    /\ DOMAIN entries = InCall /\ DOMAIN tries = InCall
    /\ pc = "settle" => \A t \in InCall : entries[t] # NoEntry
    /\ attempt \in 1..MaxAttempts /\ from \in Nat /\ estimate \in Nat
    /\ budget \in Budgets
    /\ stopped \in {None, "budget", "deadline", "auth", "config", "scope", "outage"}
    /\ billed \in [0..MaxDay -> Nat]

\* The batches begun on a day cost less than the day's budget and one batch,
\* and one more batch for every execution that died before it saved its tokens:
\* over retries, days that end during a call, and answers that cannot be used.
DailyBudgetHolds ==
    \A d \in 0..MaxDay :
        billed[d] < DailyTokenBudget + (1 + faults) * BatchSize * MaxTokens

\* A strike, or Jev/Error, is earned by the thread's own last outcome: one that
\* is never retried, or the last of all the attempts.  Nothing that was cut
\* short or not sent counts, and nothing in a round that was an outage.
FailuresAreEarned ==
    [][\A t \in InCall :
          t \in errored' \/ (t \in DOMAIN strikes' /\ strikes'[t] > strikes[t]) =>
              /\ tries[t].class \in {"final", "retryable"}
              /\ tries[t].class = "retryable" => tries[t].count = MaxAttempts
              /\ tries[t].down => tries[t].alone]_vars

\* Once the key, the model or the permission is refused, or Jev is down, a run
\* sends nothing more, neither as a retry nor in a later batch or chunk.
RefusalEndsSending == [][over => billed' = billed /\ tries' \in {tries, <<>>}]_vars

\* A call leaves the time that its run has, unless a round took longer than
\* every round before it (or the first longer than was assumed).
DeadlineHolds == remaining >= 0 \/ slow
=============================================================================
