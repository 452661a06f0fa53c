# Verification of the Jev Gmail Classifier

TLA+ models of the classifier in `src/`, checked with TLC on small instances,
and theorems about them checked with TLAPS. Paths below are relative to the
repository root, so `src/app/ingest.ts` is the file of that name there. The
references SD are to `output/solution-design.md`.

## The system

A Google Apps Script project runs every few minutes. One execution at a time
(a script lock) reads what is new in the mailbox into a work queue, asks Jev
about each queued thread and applies labels and moves. Everything that survives
an execution is in Script Properties, a key-value store without transactions:
each key is written on its own. Apps Script may end an execution at any point,
Gmail and Jev may refuse any call, and mail arrives and the user acts all the
time.

| Component | State | Operations | Interacts with |
|---|---|---|---|
| Work queue, `core/work-queue.ts` | an array of items, one per thread, in canonical order | enqueue/merge, takeChunk, dequeue, addStrike, setFirstClassification, dropManualWork | pure; called by ingest, screening, settlement, manual jobs |
| Queue store, `app/queue-store.ts`, `app/sharded-state.ts`, `core/sharding.ts` | `state.queue.<n>` shards | load, save (an ordered plan of shard writes) | everything that changes the queue |
| Ingest, `app/ingest.ts` | `state.position` | page through history, queue, save, move the position | Gmail history, queue store |
| Fallback, `core/history-fallback.ts` | `state.fallback` | windowed searches after history expired | ingest, queue store, position |
| Screening, `app/screen-chunk.ts`, `app/exclusion-search.ts` | none of its own | metadata reads, skips, exclusion, first-classification flag | queue, Gmail |
| Process chunk, `app/process-chunk.ts` | the chunk's tally | screen, read, send, settle, save | all of these |
| Settlement, `app/settle-thread.ts`, `apply-decision.ts`, `jev-error.ts` | Gmail labels, `state.jevErrorLabel` | apply, strike, mark `Jev/Error` | queue, Gmail, label cache |
| Run controller, `app/run-controller.ts` | the run's taken set | ingest, chunk loop, spare time | all of these |
| Run entry, `app/run-entry.ts` | lock, `state.runs`, `state.gmailCalls` | heartbeat, failure count, alerts | every entry point |
| Jev sender, `app/jev-sender.ts` | `state.budget` | batches, retry rounds, outage, deadline | Jev |
| Manual jobs, `app/manual-*.ts` | `state.manual`, `MANUAL_*` inputs | start, refill, run, cancel, replace | queue, Gmail search, spare time of runs |
| Alerts, `app/alert-mailer.ts` | `state.alerts` | one email per condition and day | run entry |
| Install/uninstall, `app/install.ts` | trigger, first position, install time | install, reset, uninstall | position, fallback |
| Adapters, entry points, config, body conversion, truncation, codecs, logging | none that lasts | translations | the ports |

What is hard here: writes to several keys with a crash between any two; the
mailbox changing between two reads of the same thread; failures of one step out
of several on one thread; back-pressure at the queue's cap; work that must be
repeated after a crash without undoing what the user did in between; failures
that must be counted per run and never lost. `PROJECT.json` lists each hazard
at its line with the properties that cover it.

## Modules

`WorkItems` holds the data and operations of the work queue on a function from
thread to item. "One item per thread" is then part of the type.

`QueueContract` is the abstract specification of the queue: a set of items that
changes only by those operations, and the answer each of them gives (queued,
merged, refused by which cap, the count of strikes, the number of items
dropped). Without the answers a lost item would pass for a dequeued one.

`WorkQueue` is the queue as the code keeps it, an array that every operation
rebuilds and sorts. It implements `QueueContract` under the mapping of the
array to the function it represents. That justifies the use of the function
in the modules that come next.

`StoredLists` and `ListStore` are the abstract specification of a list kept in
Script Properties: a function from ID to the set of stored versions. A save that
ends leaves exactly the list; one that is interrupted may leave any version that
was stored or was being saved, and loses no item that was stored and is still
wanted. More than one version can be there, because an item is copied before it
is overwritten, and after two interrupted saves in a row the next load may give
one older than the last load did. `ScheduledRun` keeps the queue this way, with
the operators of `StoredLists`.

`ShardedList` is the code behind it: shards by number, the cut of a list into
shards (`Cuts`; sizes are open), and the order of the writes of
`planShardWrites`, one step at a time: `WriteShard` takes the lowest pending
shard that puts nothing at risk, `ParkItems` writes a temporary shard when there
is none, `DeleteShard` removes what is past the end. `InterruptSave` may come
after any of them. The code works the plan out before its first write; nothing
else writes the shards meanwhile, so deciding step by step is the same. It
implements `ListStore`.

`ScheduledRun` is a mailbox and its scheduled runs. Variables are the mailbox
(history records, threads that carry `Jev/Error`, threads that are gone,
threads that were moved), the two properties that survive a run (`stored`,
`position`), the execution (`pc` and everything in memory) and history
variables that only properties read. One action stands for a stretch of code
between two points where something else may be seen to happen: a Gmail call, a
write of a property, an answer.

| Code | Actions |
|---|---|
| `runScheduled` | `StartRun`, `FinishRun`, `StopTaking` |
| `readHistory`, `ingestRecord` | `ListHistory`, `IngestRecord`, `FinishPage`, `StopIngest` |
| `ingest`, its two writes | `SaveIngested`, `AdvancePosition` |
| `processQueue`, `takeChunk` | `TakeChunk` |
| `screenChunk` | `ScreenThread`, `FinishScreening`, `ScreenFails` |
| `readAndBuild` | `ReadNext` (`ReadThread`, `ReadMissing`, `ReadThrows`), `ReadRefused` |
| `sendJevRequests`, seen from the chunk | `SendRequests` |
| `settleEntries`, `settleThread`, `strikeOrError` | `SettleNext`, `FinishSettling` |
| `processChunk`'s one save | `SaveChunk` |
| Apps Script, or an exception that ends the run | `Crash` |
| other people and the user | `ReceiveMail`, `RemoveJevError`, `DeleteThread` |

A history ID is an index of the record; mail of record *i* arrives at time *i*,
and the clock between two records reads the number of the next one. So "at or
after `savedAt`", the comparison in `isFirstClassification`, comes out as it
does on milliseconds, the tie included.

Abstractions: messages are the records that added them. What a rule decides is
left open. The exclusion search may find any thread. A save is one step, or a
crash that leaves what `PartlySaved` allows. A Gmail call that fails is taken to have had no effect. Reasons to stop
that do the same to state are one reason (`scope` and `rate_limited` refusals,
time and units). A run that stops ingest for time or units has none for a chunk
either (`canStartChunk`), so the model ends it there; one stopped by the cap
goes on. Manual items do not appear in scheduled runs: the runs take scheduled
items only, and the spare-time hook comes with the manual jobs.

`MoveHistory` runs `ScheduledRun` together with a user who moves threads back,
and records what the moves are judged by: the threads the stored queue has shown as
handled, and whether the run is stuck at the cap, its position unmoved.

The other modules each take one part of an execution that `ScheduledRun` shows
as a single step or leaves out, with the state that part keeps and the
environment it has to survive. They share no variables; what one assumes of
another is said in its header.

`Fallback` is ingest when Gmail has discarded the history at the saved position.
`ReadProfile` and `StartFallback` write the cursor, `TakeWindow`, `ShrinkWindow`,
`WaitForRoom` and `TakeSome` are the four answers of `classifyMatches`, and each
of the writes (`SaveWindow`, `SaveCursor`, `FinishFallback`, `DeleteCursor`, and
`SaveIngested`, `AdvancePosition` of a normal run) is a step that a crash may
precede. `ResetCursor` and `ResetPosition` are `install`. Clocks run in ticks,
several of which make one of the seconds that a search can tell apart, so
messages, `savedAt` and window bounds fall into one second or next to each
other. The pages of one window are one step.

`JevSender` is `sendJevRequests` with the run around it. A `Round` draws an
outcome for each pending request, the time it took and a back-off, and does what
the code does with the response array: stop, outage, retry or entries.
`AfterBatch` adds the tokens to the budget and saves it, `SettleChunk` makes
strikes, `Jev/Error` and dequeues of the entries. `Midnight` may pass before any
batch.

`RunEntry` is `runEntry` for overlapping executions of three kinds of entry point:
with a heartbeat, without, and with neither heartbeat nor tally. Each step of
the boundary is an action, `Kill` may come at any of them. The mailer's emails are sent
one at a time, and marked one at a time.

`ManualJob` is the life of a manual job, from the `MANUAL_*` inputs to its
completion, beside scheduled work. An execution computes what it will write and
then writes it key by key (`Write`, from `run.todo`), so that a crash may come
between any two. `Pages` is the search: newest first, tokens stand for a place
in it, and threads move to the front as mail arrives. `RejectToken`,
`StartWalk` and `Walk` are the walk back to the cursor. The spare-time hook of a
scheduled run is an execution like any other here.

`Settlement` is `settleThread` call by call: resolving names with the run's label
cache, creating what is missing, parents first, modifying the thread, refreshing
the cache once when Gmail refuses a label, and marking with `Jev/Error`, whose ID is
remembered before any thread gets it. The user deletes and creates labels at any
time, so IDs go stale. `install` and `uninstall` are here as well, write by write,
since they bring the IDs back and delete them.

`JevState` is what is sent of a thread: order, estimates, the reserve for the
questions, and truncation. `Screening` extends it with `screenChunk`, the exclusion search
and its window, and the full reads, while mail arrives and threads are trashed
or deleted. A search asks for one page after the other, and each lists what is
`Ahead` when it is asked for; a thread that gets mail in between may be past the
place where the next page starts. It sends what `JevState` makes of the full reads.

| Code | Module: actions |
|---|---|
| `ingest`, 404 branch; `startFallback`; `runFallback` | `Fallback`: `ReadProfile`, `ProfileFails`, `StartFallback`, `TakeWindow` ... `DeleteCursor`, `StopFallback` |
| `install` | `Fallback`: `StartReset`, `ResetCursor`, `ResetPosition`; `Settlement`: `BeginInstall` ... `CreateTrigger` |
| `uninstall` | `Settlement`: `BeginUninstall`, `DeleteKey`, `FinishUninstall` |
| `sendJevRequests`, `runBatch` | `JevSender`: `StartBatch`, `HoldBatch`, `Round`, `AfterBatch` |
| `runEntry`, `deliver` | `RunEntry`: `Acquire`, `Heartbeat`, `LoadConfig`, `LoadCalls`, `Body`, `Success`, `Failure`, `SaveCalls`, `Deliver`, `Send`, `Mark`, `Unlock` |
| `startManualJob`, `cancelManualJob` | `ManualJob`: `StartManualRun`, `CancelManualRun`, `Write` |
| `refillManualQueue`, `continueManualJob` | `ManualJob`: `BeginWork`, `ReadPage`, `RejectToken`, `StartWalk`, `Walk`, `EndRefill`, `ProcessChunk`, `StopWork`, `CompleteJob`, `Write` |
| `settleThread`, `applyDecision`, `markJevError`, `strikeOrError` | `Settlement`: `StartSettlement`, `ResolveMissing`, `Reload`, `Modify`, `Refresh` |
| `screenChunk`, `searchExcludedThreads` | `Screening`: `Start`, `ReadMetadata`, `SearchChunk`, `ReadPage`, `EndChunkSearch`, `SearchOwn`, `EndOwnSearch` |
| `readAndBuild`, `buildState`, `truncateState` | `Screening`: `ReadFull`, `ReadThrows`, `StopReading`, `Send` with the operators of `JevState` |

The `MC...` modules give the constants of the runs; the eight `...Proofs` modules
hold the proofs about the modules they are named after (`QueueProofs` those about
`WorkQueue` and `ShardedList`). Definitions that
begin with "Fault:" in their comment are deliberate bugs, each one a change
somebody could make to the code; substituted for the operator they precede, they
show that the property which guards against them can fail.

Where a module has a type invariant over a stored value (`Cursors`, `Records`,
`Jobs`, `Budgets`, `LabelIds`, `WorkItem` ...), that set is what the value's state
codec accepts. The codecs throw on anything else and never reset a value, so a
value outside the set would stop every later run.

## Properties and runs

| Run | Properties | What it shows |
|---|---|---|
| `work_queue` | `QueueOK`, `ChunksAreOldestFirst`, `NoOvertaking`, `DecisionsStick`, `ImplementsContract` | any sequence of operations keeps the array sorted, one item to a thread, within both caps (`QueueOK`) and fair; decided flags stay; the array implements the contract |
| `sharded_list` | `TypeOK`, `SurvivorsStay`, `ImplementsListStore` | saves interrupted after any step keep every survivor; the shards implement the store that `ScheduledRun` assumes |
| `scheduled_run` | `TypeOK`, `NoMailLost`, `MailIsSettled` | no crash, half-written save, full queue or early stop loses mail that the position covers, and all mail is settled once failures stop |
| `move_history` | `MarkedThreadsAreNotSent`, `JevErrorIsEarned`, `FailuresStayVisible`, `OnlyNewConversationsMove` | a marked thread is not sent; `Jev/Error` for repeated failures needs one in each of several runs; a failed thread leaves the queue only marked or gone; once the stored queue shows a thread as handled no run moves it again, but for a run that is stuck at the cap (below) |
| `fallback` | `TypeOK`, `MailIsAccountedFor`, `PositionNeverGoesBack`, `FallbackAdvances` | mail the position has passed is queued, settled, or its loss was logged; the position never goes back, whatever `install` meets; the search cannot go on for ever |
| `jev_sender` | `DailyBudgetHolds`, `DeadlineHolds`, `FailuresAreEarned`, `RefusalEndsSending` | the day's overshoot is below one batch, plus one for each death; a run overruns only if a round was longer than all before it; nobody is struck for a cut-short or account-wide failure; a refusal ends all sending |
| `run_entry` | `FailuresAreCounted`, `OneMailADay`, `CallsAreTallied`, `FailuresAreMailed` | each failed or killed run is counted once, the owner gets the email it earns, and no second one that day unless its mark was lost |
| `manual_job` | `TypeOK`, `ManualWorkHasAJob`, `MovesFollowTheJob`, `JobCoversItsSearch`, `RequestsBecomeJobs` | queued manual items always have a job, and its `applyMoves`; a job completes only with its search queued; a request is deleted only once its job is stored |
| `settlement` | `TypeOK`, `JevErrorIsRecognised`, `TriggerHasPosition`, `ChangedLabelsCostNoStrike`, `AnswersAreApplied` | labels that come and go cost a thread nothing; `Jev/Error` is recognised across deletions, crashes and reinstallation; a trigger always has a position |
| `screening` | `TypeOK`, `ExcludedMailIsNotSent`, `RequestsAreFitted` | no thread is sent that matched `excludeQuery` when it was screened, but for one that slips between two pages (below); every request fits, and no more was cut than a one-piece-at-a-time reference cuts |

Two runs end in a violation of what the repository says of itself:

* `rate_limit`, `RateLimitStopsGmailWork`. `readAndBuild`
  (`src/app/process-chunk.ts:296`) strikes a thread whose read throws. If that is
  the third strike and adding `Jev/Error` meets Gmail's rate limit, the
  `stopGmail` it is handed back is dropped, and the run takes further chunks.
  `src/app/jev-error.ts:110` and `README.md:38` say the run stops.
* `manual_inputs`, `LeftoversAreNotUsed`. `startManualJob` deletes the inputs one
  by one, the query first (`src/app/manual-start.ts:90`). If the execution ends in
  between, `MANUAL_APPLY_MOVES` stays and acts on the next query.
  `README.md:128` says a leftover can't act on a later run; SD:487 considers
  other crash points of the start and calls them harmless.

### Where a property makes an exception

The models meet these behaviours of the code. They are deliberate, bounded or
accepted in the documents, and the properties leave them out in so many words.

* The queue is saved once per chunk (`src/app/process-chunk.ts:202`). An
  execution that ends after a move and before that save repeats the move in the
  next run, also over a correction made in between. `OnlyNewConversationsMove`
  counts a thread as handled when the stored queue says so.
* A run that meets the cap inside the first record after the position keeps the
  position and its `savedAt` (`src/app/ingest.ts:345`). It settles the threads of
  that record that fitted; the next run reads the record again, queues them against
  the old `savedAt`, and takes them for first classifications once more. A move
  is then repeated, also over a correction made in between, where `README.md:53`
  says the classifier "never undoes your own correction" and `README.md:503` that it
  "won't repeat a move you corrected". `OnlyNewConversationsMove` leaves out what
  such a run settles (`stuck` in `MoveHistory`), and nothing else: not the runs whose cap
  is met in a later record, and not threads with mail behind the position.
* When ingest stops early the position moves to the last handled record, but
  `savedAt` is the present (`src/app/ingest.ts:200`). Conversations left for the
  next run then look old and are not moved (a lost move is the safe direction,
  SD:367), and a fallback that starts from that `savedAt` begins its search an hour
  before it and does not reach older unread mail (`MailIsAccountedFor`).
* A search window of the smallest size that does not fit and cannot be waited
  for takes what it can and logs the rest (`TakeSome`); that counts as accounted for.
* A record with more new threads than the whole queue has places is never passed
  (`MailIsSettled`). With a cap of 1000 and Gmail's few messages per record it
  does not arise.
* In a retry round with a single request left, an outage cannot be told from the
  thread's own failure, and the thread is struck (`isOutageRound` asks for two
  requests; `alone` in `FailuresAreEarned`).
* An execution that dies after a batch was answered and before its tokens are
  saved leaves the budget short by that batch (`DailyBudgetHolds`).
* A walk back to the cursor counts threads; one that left the search since makes
  it stop too late and miss another (`slipped` in `JobCoversItsSearch`). So does
  mail that arrives between two of its pages in a thread it has not reached: the
  thread moves to the front, where no later page of the walk lists it
  (`src/app/manual-refill.ts:289`), and the walk counts another one in its place.
  Nothing was deleted then; `README.md:142` tells of a missed thread when "earlier
  matches were deleted meanwhile". It takes four dates to see, and the attempt to
  prove `JobCoversItsSearch` without the exception is what found it.
* A thread of a manual search that gets newer matching mail while the job runs is no
  longer the job's: it moves in front of the cursor, and the mail queues it as
  scheduled work, without the job's moves (`MailArrives` in `ManualJob`).
* A search for excluded threads asks for its pages one after the other
  (`src/app/exclusion-search.ts:52`). A thread that matches, and gets mail between two
  of them, may move before the place where the second starts. It is then on
  neither; the search ends below its cap, and the thread is sent, although
  `README.md:196` speaks of mail that "must never be sent to Jev".
  `ExcludedMailIsNotSent` leaves out a thread that slipped so in the last search it
  was part of (`slipped` in `Screening`).
* A label that changes while a thread is settled excuses a strike also when it does so
  before Gmail's first refusal (`steady` in `ChangedLabelsCostNoStrike`), and
  `AnswersAreApplied` looks at the first move of a thread and at steps without a fault.
* The ten newest `Jev/Error` IDs are remembered, and after `uninstall` only the
  one `install` finds by name (`JevErrorIsRecognised`).
* Mail that matches `excludeQuery` and arrives after a thread's metadata read can be
  sent with the full read (`README.md:196`). `ExcludedMailIsNotSent` is about what was screened.
* When no shard write is safe the lowest pending shard is parked
  (`src/core/sharding.ts:246`), also one that is on no cycle and only waits for
  one; SD:633 counts one temporary shard per cycle. Only space is at stake.

### Bounds

* `work_queue`: three threads, a total cap of 2 and a manual cap of 1, so each
  cap is met with the other free and full; two times, so that items tie and a
  merge moves an item; every request the three callers make.
* `sharded_list`: three items and three shards, so that items move in cycles of
  two and of three shards and a shard may hold two items; two versions, so old
  and new differ; two interrupted saves in a row, which is what it takes for an
  older version to come back.
* `MaxStoredStrikes` is 1 instead of 2. One stored strike is enough to tell the
  first, the last stored and the one that marks; two runs must fail first.
* `scheduled_run`: two threads, records of up to two, one queue place, pages and
  chunks of one: the cap is hit inside a record, and pages and chunks come one after
  another. One fault. No symmetry, since it has a liveness property.
* `move_history`: three threads and two places, one chunk that holds both. The cap is met
  inside the first record after the position, between two threads of it, as well
  as inside the next one. `SmallMailbox` keeps it small: the second record is of one
  thread, and none is deleted. One fault.
* `fallback`: three messages of three threads on a clock of two seconds of two
  ticks; windows of one and two seconds; two queue places, one of them for manual work.
  A window can be full, halved, waited for and cut, and mail arrives before, in
  and after it. One fault (a crash, or a call that fails) beside the expiry.
* `jev_sender`: chunks of three in batches of two, so a call goes on to a second
  batch and to a batch of one; two attempts; a wait that is too long beside none;
  five units of time with rounds of one or two. Two days.
* `run_entry`: two executions, four clock readings in two days, two kills or
  failing calls; a threshold of two instead of three.
* `manual_job`: three threads and pages of two, so there is a second page; two queue
  places; four dates, so that after three threads have come one of them can move to
  the front in the middle of a walk; one fault, a rejected token being one.
  `manual_inputs` needs one thread and one crash.
* `settlement`: two threads, two remembered IDs instead of ten so that the third
  pushes one out, two changes of labels by the user, three installs or uninstalls.
* `screening`: two threads, dates of the past, the present and the future and
  missing ones, two pages; and one thread of up to three messages whose sizes
  reach every stage of the truncation. One change, which may come between two
  pages, and one fault.
* Symmetry over threads is used where the properties treat all threads alike, and
  not in the runs whose threads are numbers or that check liveness.

### Fairness

`FairSpec` (`ScheduledRun`) assumes weak fairness of `RunStep`: the time trigger
keeps starting executions, an execution that is not killed goes on, and Gmail and
Jev do answer when no fault is chosen. Nothing is assumed of the mailbox or of the
failures; they are finitely many (`MaxRecords`, `MaxFaults`), that is, "once
they stop". Strikes without a fault stay possible (Jev may always answer an
error), and the property holds because they are counted. The other modules state
no fairness; that a fallback ends is `FallbackAdvances`, a progress measure no write
can turn back.

### Assumptions about the outside

* Gmail indexes a message under one of its usable dates, give or take a day, or
  under the time of receipt (`Indexable` in `Screening`, from spike 23, C2). A
  message received now whose dates all lie in the future would be outside the
  search window; the assumption excludes it, and so does
  `src/core/exclusion-query.ts:107`, which trusts the same finding.
* A text is made of surrogate pairs alone or has none (`Text` in `JevState`): they count
  double and are not split. Mixtures of both are not modelled.
* A page token stands for a position in the order of the search, newest mail first
  (`spikes/287-page-token.md:80`, which infers it). The result set is no snapshot
  (SD:494): in `ManualJob` and `Screening` a page is cut from the list as it is when
  it is asked for. A deletion does not shift such a position. `Screening` leaves
  open whether new mail moves a thread. In `Fallback` the pages of a window are
  one step: mail that moves a thread past them has a history ID behind the one the
  cursor goes back to, so the next normal run queues it.
* A Gmail call that fails has had no effect.
* Renaming a label keeps its ID and is therefore nothing to `Settlement`.
* The clock is not set back between two executions (`RunEntry`).
* Two executions never hold the script lock together; the lock of a killed
  execution is released.
* Nobody edits a `MANUAL_*` input while an execution runs: `SetInputs` in `ManualJob`
  comes between two. `startManualJob` reads the inputs from its copy of the store and
  deletes them at the end, an edit made in between included.

## Proofs

`QueueProofs` is about the two forms of the queue. Of the array (`WorkQueue`) it proves,
for any threads, requests and caps that satisfy `RequestsAssumption` and
`QueueBoundsAssumption`:

* `QueueStaysInOrder`: `QueueSpec => []QueueOK`;
* `ChunksComeInOrder`: `QueueSpec => []ChunksAreOldestFirst`;
* `NothingOvertakes`: `QueueSpec => NoOvertaking`;
* `DecisionsStay`: `QueueSpec => DecisionsStick`;
* `ArrayImplementsContract`: `QueueSpec => ImplementsContract`, the refinement.

Sorting and filtering are one operator, `Arranged`, which puts the entries at some
indices in some order by counting, for each, what comes before it. So their lemmas
need no induction over the array: `ArrangedFacts` shows with the theorems about
finite sets that each index gets a place of its own, `CanonicalIsOrder` that
rank, time and index together order the entries, and `CanonicalFacts` and
`FilteredFacts` what that means for the set of items (`View`) and for the
places of its threads. Each operation then has a lemma for what it does to both
(`EnqueueNewStep` and so on), from which the three properties of steps follow:
the invariant (`QueueInv`), the order kept, and the step of the contract. The
manual cap needs the argument that no merge makes an item manual (`ItemFacts`).

Of the stored list (`ShardedList`) it proves, for any items, versions and shards
(`ShardedListAssumption`):

* `TypeCorrectness`: `Spec => []TypeOK`;
* `SurvivorsNeverVanish`: `Spec => SurvivorsStay`;
* `ListStoreImplemented`: `Spec => ImplementsListStore`, the refinement.

The invariant behind them: no item is in two shards of the new list, and a shard
of it that is not pending is stored as planned. Temporary shards and deletes are
past the planned ones and do not disturb it. So a shard written with nothing at
risk leaves each survivor in another shard or in the new one, and when the
deletes come everything wanted is in place. `KeepsItems` says this of one step,
and `KeepsItemsIsSaveStep` that such a step is one `ListStore` allows.

`ScheduledRunProofs` proves, for every set of threads, caps, page and chunk
sizes, number of records and of faults that satisfy `QueueBoundsAssumption` and
`RunAssumption`:

* `TypeCorrectness`: `Spec => []TypeOK`;
* `MailIsNeverLost`: `Spec => []NoMailLost`.

`NoMailLost` is about the stored queue and the stored position. It is not
inductive: a save replaces the first by the queue in memory, an advance the
second by the ID that ingest reached. The invariant `IInv` adds

* `QueueCovers`: while it ingests, the run's queue covers every record up to
  the one it has handled; between the two writes the stored queue does; in the
  chunk loop the run's queue covers the position;
* `PositionsInOrder`: position, handled record, page end and mailbox ID are in
  that order, and a complete ingest has handled all of the mailbox's ID;
* `ReadsAreRecent`: a thread the chunk may drop was read after everything the
  position covers, since it was read in this run, after ingest;
* `HeldByChunk`: nothing else is waiting to be dropped.

`InductiveInvariant` proves it step by step, one lemma per action; a crash in a
save is the lemma `CrashKeeps`, which rests on what `PartlySaved` keeps.

The same module proves the properties of `MoveHistory`, of `HistorySpec`, whose
user moves threads back at any time: `MarkedStayUnsent`
(`MarkedThreadsAreNotSent`), `JevErrorNeedsRuns` (`JevErrorIsEarned`),
`FailuresAreSeen` (`FailuresStayVisible`) and `MovesAreForNewMail`
(`OnlyNewConversationsMove`). Two more invariants carry them, beside `IInv`:

* `ChunkInv`: the threads a run holds (`Held`, from taken to settled) are queued,
  taken in this run and read once (`ChunkIsHeld`); past screening none of them is
  marked (`ReadsAreUnmarked`); and a thread the run has not failed yet has at most
  the strikes it brought into the run (`StrikesAreOld`), which is why
  `MaxStoredStrikes` has to be positive: with none stored, one failure marks.
* `MoveInv`: each recorded thread is `Seen`, that is, has mail from before the
  `savedAt` of the saved position. Every item of a seen thread, in any stored
  version or in memory, is one that no read can find to be brand-new (`StaysPut`):
  it is decided, or asks for labels only, or was queued against a position saved after
  that mail. Merges, verdicts and partly saved queues keep that. What is
  recorded is seen because a run that is not stuck settles only seen threads
  (`SettlesSeen`, `QueuedForMail`): either its position has moved, to a
  `savedAt` later than all its mail (`SavedAfterMail`), or it found nothing to queue.

`ScreeningProofs` proves, for any threads, messages, dates, pages, changes and
faults that satisfy `ScreeningAssumption`:

* `ScreeningTypeCorrect`: `Spec => []TypeOK`;
* `ScreeningExcludes`: `Spec => []ExcludedMailIsNotSent`;
* `RequestsFit`: `Spec => []RequestsAreFitted`, for any limits, margins, questions
  and messages of any number and length (`StateAssumption`).

The second speaks of the end of a chunk. Its invariant follows a thread that
must be excluded from step to step (`SearchesCover`): it is a target of the chunk's
search, then dropped, slipped or still to be searched for by itself, then dropped or
slipped. `SearchFinds` says that it is among what Gmail finds of the targets, whenever a
page is asked for; so the last page, unless it slipped, lists it at the latest.
The lemma `WindowCovers` says that the window computed from the messages that were
read contains each of them, by Gmail's own date;
`ReadsStand`, that messages stay where they were read; `SentIsScreened` and
`Phases` say what has been read in full and what is empty when.

The third needs of the steps only that what is read in full has a message that counts
(`SomeCount`). The rest is about `truncateState`, and does not come from the
run: `BuildFacts` says that the state holds each message that counts once, newest first,
and `TruncatedIsFirstThatFits` that cutting it as the code does, stage by stage and
with binary searches, leaves what the smallest cuts leave, one after the other. The
argument is that a smallest cut, made first, changes nothing of what the stages
leave in the end, and that each makes the state smaller (`Length`). There is
one such lemma for each stage: `BodiesStep`, `DropStep`, `AloneBodyStep` and
`AloneHeaderStep`. The last two rest on what comments of the code say without proof:
what fits stays fitting when it is cut more (`TokensMonotone`, `CapMonotone`), which the
binary searches need (`SearchFindsHighest`), and lowering the values one by
one from the largest cap at which all of them fit is cutting the longest first
(`HeaderStep`). `ReservedFacts` shows that one reservation stands for both of Jev's limits.

The library's theorems about induction cannot be used here, since they take an operator. The
sums, the search and the repeated cuts are recursive functions, and the proofs
reason about the set of numbers for which a claim fails, which has a least one
(`LeastExists`, `Induction`); that a recursive function exists is proved the same
way (`Recursion`).

`RunEntryProofs` proves, for any executions, clock, threshold and number of kills
that satisfy `RunEntryAssumption`: `TypeCorrectness`, `RunsAreCounted`
(`FailuresAreCounted`), `TallyIsExact` (`CallsAreTallied`), `NoMailTwice`
(`OneMailADay`) and `FailuresReachTheOwner` (`FailuresAreMailed`, an action
property). The invariant says of each execution, by where it is: that it holds
the lock alone and knows the stored record (`HeartbeatIsDue`, `MarksAreCurrent`),
that what it will add to the tally is what it made (`TallyIsCurrent`), that a
failure it counted to the threshold is on its list of alerts (`AlertIsRaised`),
and that an alert of today is either marked, or still to be sent, or its mark
was lost (`EmailIsOwed`, `EmailIsMarked`). None of the four properties is
inductive without them, since a kill leaves whatever the steps before it wrote.

`ManualJobProofs` proves, for any threads, caps, page sizes, dates and faults
that satisfy `ManualJobAssumption`: `TypeCorrectness`,
`ManualItemsAreNotStranded` (`ManualWorkHasAJob`), `MovesAreTheJobs`
(`MovesFollowTheJob`), `SearchIsCovered` (`JobCoversItsSearch`) and
`RequestsAreKept` (`RequestsBecomeJobs`). For the first three the invariant
follows the writes an execution still has to make: `WritesArePlanned` says
which plans there are, and that the store after any prefix of one is consistent;
`MemoryIsCurrent`, that what is in memory is what is stored between plans. For
the search, `CursorsCover` says that everything in front of a job's cursor has
been queued, handled, or came after the job began, and `WalkIsExact` that a walk
which counted n threads, with none gone and none moved, stands behind the n-th.

`FallbackProofs` proves, for any messages, clock and windows that satisfy
`FallbackAssumption`: `TypeCorrectness`, `NoMailIsLost` (`MailIsAccountedFor`),
`PositionAdvances` (`PositionNeverGoesBack`) and `FallbackProgresses`
(`FallbackAdvances`). The argument: mail arrives in the order of the history IDs,
so nothing behind a position's ID came more than a run before the `savedAt`
stored with it. The hour by which the search starts earlier than `savedAt`
covers that, and the invariant says that each message from there on is
queued, settled, logged, or in the part of the interval the cursor has left.

`JevSenderProofs` proves, for any chunk, batch, attempts, budget, durations and
days that satisfy `SenderAssumption`: `TypeCorrectness`, `BudgetIsKept`
(`DailyBudgetHolds`), `DeadlineIsKept` (`DeadlineHolds`), `StrikesAreEarned`
(`FailuresAreEarned`) and `NothingAfterRefusal` (`RefusalEndsSending`). Its
invariant relates the tokens spent today to the stored budget, to the batch that
is under way and to the deaths so far (`BudgetIsStored`, `TokensAreSaved`), the
time to the longest round (`RoundFits`), and each entry to the outcomes its thread
has had (`EntriesAreEarned`).

`SettlementProofs` proves, for any threads, labels, names and numbers of changes
that satisfy `SettlementAssumption`: `TypeCorrectness`, `JevErrorStaysKnown`
(`JevErrorIsRecognised`), `TriggersHavePositions` (`TriggerHasPosition`),
`StaleLabelsAreFree` (`ChangedLabelsCostNoStrike`) and `AnswersReachTheThread`
(`AnswersAreApplied`). Label IDs grow and never come back (`LabelsAreNumbered`),
the remembered ones are stored in the order they were made (`KnownIsIncreasing`),
so dropping the oldest keeps the newest (the lemma `NewestIsLast`), and an
execution adds `Jev/Error` to a thread only when its ID is among them
(`AddedAreKnown`). `CacheIsNewest` says that what the cache holds after a refresh
is missing only if the user deleted it since, `RetryIsCurrent` that a second
refusal is therefore no strike, and `SetupIsOrdered` what `install` and
`uninstall` have written so far at each of their steps.

Each of these inductive invariants was checked with TLC on its run before it was
proved. The attempts changed the models where they could not be right or could not
be reasoned about: guards of a `CASE` that overlapped (`JevSender`, `WorkItems`)
are now disjoint, pages are cut without `CHOOSE`, an array is sorted and filtered
without recursion, the folds of `JevState` are recursive functions and its `Text` leaves out
texts that end within a surrogate pair (of one with an odd length, a cut at its full
length would take something off), the bounds of `manual_job`
were too small for the walk described above, and `QueueBoundsAssumption` allowed no
strike to be stored, where the code stores two.

Model-checked only: `MailIsSettled`. Liveness under fairness, with `ENABLED`, is out of
the prover's reach. Every other property a passing run checks is a theorem.

## Not modelled

* Body conversion (`src/core/body/`): the MIME walk and the HTML-to-text scan turn one
  value into another, character by character, without state, order or failure
  to interleave. The unit tests compare their text.
* Configuration (`src/config/`): a schema applied to one file at the start of a run. A
  configuration that is refused is an outcome of `LoadConfig` in `RunEntry`.
* Adapters and entry points (`src/adapters/`, `src/entry/`): they translate platform
  calls and errors. What they promise (`src/ports/`) is the environment of the models,
  including every refusal. `GasStateAdapter` alone keeps state, a copy of the store
  that each execution takes at its first state call and writes through. That call
  comes after the lock (`src/app/run-entry.ts:109`) and a refused write changes
  neither, so the copy is the store, which is what the models read. The trigger
  adapter's calls are steps of `Settlement`, and the options of the entry points are `Options` in `RunEntry`.
* Logging, redaction, alert texts, run reports and the counts of a manual job, which are
  only reported. The codecs as formats; what they accept is in the type invariants.
* `spikes/` and `scripts/`: one-off probes of Gmail and Jev, and build tooling. They
  are about half of the repository's lines and not part of the program.

Of the program itself (`src/`, some 14,000 lines, comments included) the
definitions stand for about a third of the lines; the rest of the modelled files is comments,
types, argument checks for callers' mistakes, and logging.
