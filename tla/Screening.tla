------------------------------ MODULE Screening ------------------------------
(***************************************************************************)
(* From a chunk of the queue to what is sent of it: screenChunk            *)
(* (src/app/screen-chunk.ts), the exclusion search and its window          *)
(* (src/app/exclusion-search.ts, src/core/exclusion-query.ts), and the     *)
(* full reads of src/app/process-chunk.ts, while the user and new mail     *)
(* change the threads.                                                     *)
(*                                                                         *)
(* The chunk is the whole queue.  ScheduledRun has what is left out here:  *)
(* first classification, strikes and stops, and the outcomes of sending.   *)
(* Time is in days: a chunk is screened within one.                        *)
(***************************************************************************)
EXTENDS JevState, FiniteSets

CONSTANTS
    Threads,        \* numbers, in the order of the chunk
    Now,            \* clock.now(), in days
    WindowMargin,   \* EXCLUSION_WINDOW_MARGIN_SECONDS, in days
    MaxPages,       \* EXCLUSION_SEARCH_MAX_PAGES
    Messages,       \* the messages there can be
    Arrivals,       \* those that can arrive
    Mailboxes,      \* the mail of the threads at the start
    MaxChanges,     \* bound: changes to the threads
    MaxFaults       \* bound: calls that fail, executions that die

\* Gmail compares `after:` and `before:` with a date of its own, `indexed`: one of
\* the message's usable dates, give or take a day, or the time it was received,
\* not before the earliest of them and not after now (spike 23, C2).
Indexable(m) ==
    /\ m.usable = {} \/ \E u \in m.usable : u - WindowMargin <= m.indexed
    /\ \E u \in m.usable \cup {Now} : m.indexed <= u + WindowMargin

ASSUME ScreeningAssumption ==
    /\ Threads \subseteq Nat
    /\ {Now, MaxChanges, MaxFaults} \subseteq Nat
    /\ {WindowMargin, MaxPages} \subseteq Nat \ {0}
    /\ Messages \subseteq
        [usable : SUBSET Nat, indexed : Nat, arrived : Int, matches : BOOLEAN, out : BOOLEAN,
         marked : BOOLEAN, headers : Seq(Text), body : Text]
    /\ \A m \in Messages : Indexable(m) /\ [m EXCEPT !.out = TRUE] \in Messages
    /\ Arrivals \subseteq Messages
    /\ Mailboxes \subseteq [Threads -> Seq(Messages)]

VARIABLES
    mail,       \* of each thread, in the order of its messages; <<>> once deleted
    queue,      \* the threads queued
    pc,
    todo,       \* threads still to be read, or searched for one by one
    metadata,   \* what the metadata reads returned of the threads left to screen
    dropped,    \* threads skipped or excluded, to be dequeued
    target,     \* the threads the search looks for
    found,      \* those it has found
    slipped,    \* those that moved before the place its next page starts from
    page,       \* pages read
    full,       \* what the full reads returned: of these the requests are built
    changes, faults

searchVars == <<target, found, slipped, page>>
chunkVars == <<todo, metadata, dropped, searchVars, full>>
vars == <<mail, queue, pc, chunkVars, changes, faults>>

-----------------------------------------------------------------------------
(* The window.                                                             *)

\* Fault: the bound that the messages with a date give.
AfterEarliestDated(date, messages) ==
    \E m \in messages : \E u \in m.usable : u - WindowMargin <= date

\* messageTimesMs gives `usable`; a message without any takes the bound away, as
\* does a bound that is not positive.
AfterEarliest(date, messages) ==
    \E m \in messages : m.usable = {} \/ \E u \in m.usable : u - WindowMargin <= date

BeforeLatest(date, messages) ==
    \E u \in {Now} \cup UNION {m.usable : m \in messages} : date <= u + WindowMargin

\* `after:` and `before:` of buildExclusionQuery, both inclusive.
InWindow(m, messages) ==
    AfterEarliest(m.indexed, messages) /\ BeforeLatest(m.indexed, messages)

ReadMail(threads) == UNION {ToSet(metadata[t]) : t \in threads}

\* What Gmail finds of the threads, in Spam and Trash too: a message of the thread
\* as it is now matches, within the window of the threads as they were read.
Matching(threads) ==
    {t \in threads : \E m \in ToSet(mail[t]) :
        m.matches /\ InWindow(m, ReadMail(threads))}

-----------------------------------------------------------------------------
(* screenChunk: the metadata reads.                                        *)

Init ==
    /\ mail \in Mailboxes
    /\ queue = Threads
    /\ pc = "idle" /\ todo = {} /\ metadata = <<>> /\ dropped = {}
    /\ target = {} /\ found = {} /\ slipped = {} /\ page = 0
    /\ full = <<>>
    /\ changes = 0 /\ faults = 0

With(reads, t, messages) ==
    [s \in DOMAIN reads \cup {t} |-> IF s = t THEN messages ELSE reads[s]]

IsNext(t) == t \in todo /\ \A s \in todo : t <= s

NoSearch == target' = {} /\ found' = {} /\ page' = 0

Start ==
    /\ pc = "idle" /\ queue # {}
    /\ pc' = "metadata" /\ todo' = queue
    /\ UNCHANGED <<mail, queue, metadata, dropped, searchVars, full, changes, faults>>

\* Deleted, marked Jev/Error, or with nothing to classify.
IsSkipped(messages) ==
    \/ messages = <<>>
    \/ \E m \in ToSet(messages) : m.marked
    \/ Classifiable(messages) = {}

ReadMetadata(t) ==
    /\ pc = "metadata" /\ IsNext(t)
    /\ todo' = todo \ {t}
    /\ IF IsSkipped(mail[t])
       THEN dropped' = dropped \cup {t} /\ UNCHANGED metadata
       ELSE metadata' = With(metadata, t, mail[t]) /\ UNCHANGED dropped
    /\ UNCHANGED <<mail, queue, pc, searchVars, full, changes, faults>>

-----------------------------------------------------------------------------
(* searchExcludedThreads.                                                  *)

BeginSearch(threads) ==
    /\ target' = threads
    /\ found' = {} /\ page' = 0
    /\ slipped' = slipped \ threads

SearchChunk ==
    /\ pc = "metadata" /\ todo = {} /\ DOMAIN metadata # {}
    /\ BeginSearch(DOMAIN metadata)
    /\ pc' = "chunkSearch"
    /\ UNCHANGED <<mail, queue, todo, metadata, dropped, full, changes, faults>>

\* A page is searched for when it is asked for, from the place where the one before
\* ended: what is left for it to list, of the threads as they are now.
Ahead == Matching(target) \ (found \cup slipped)

\* A page lists some of them, among any others of the mailbox; the last page
\* completes them.
PageFinds(new, isLast) ==
    /\ new \subseteq Ahead
    /\ isLast => new = Ahead

EndsAt(all, isLast) == all = target \/ isLast

ReadPage ==
    /\ pc \in {"chunkSearch", "ownSearch"} /\ page + 1 < MaxPages
    /\ \E new \in SUBSET Ahead :
        /\ PageFinds(new, FALSE) /\ ~EndsAt(found \cup new, FALSE)
        /\ found' = found \cup new
    /\ page' = page + 1
    /\ UNCHANGED <<mail, queue, pc, todo, metadata, dropped, target, slipped, full,
                   changes, faults>>

\* The chunk's search ends, or is capped: then the threads not found are searched
\* for one by one.
EndChunkSearch ==
    /\ pc = "chunkSearch"
    /\ \E new \in SUBSET Ahead, isLast \in BOOLEAN :
        LET all == found \cup new
        IN  /\ PageFinds(new, isLast)
            /\ EndsAt(all, isLast) \/ page + 1 = MaxPages
            /\ dropped' = dropped \cup all
            /\ todo' = IF EndsAt(all, isLast) THEN {} ELSE target \ all
    /\ NoSearch
    /\ pc' = "own"
    /\ UNCHANGED <<mail, queue, metadata, slipped, full, changes, faults>>

SearchOwn(t) ==
    /\ pc = "own" /\ IsNext(t)
    /\ BeginSearch({t})
    /\ pc' = "ownSearch"
    /\ UNCHANGED <<mail, queue, todo, metadata, dropped, full, changes, faults>>

\* A thread whose own search finds it, or is capped too, is excluded.
EndOwnSearch ==
    /\ pc = "ownSearch"
    /\ \E new \in SUBSET Ahead, isLast \in BOOLEAN :
        LET all == found \cup new
        IN  /\ PageFinds(new, isLast)
            /\ EndsAt(all, isLast) \/ page + 1 = MaxPages
            /\ dropped' = dropped \cup (IF EndsAt(all, isLast) THEN all ELSE target)
    /\ todo' = todo \ target
    /\ NoSearch
    /\ pc' = "own"
    /\ UNCHANGED <<mail, queue, metadata, slipped, full, changes, faults>>

-----------------------------------------------------------------------------
(* processChunk: the full reads, the one send and the save.                *)

Screened ==
    /\ \/ pc = "own" /\ todo = {}
       \/ pc = "metadata" /\ todo = {} /\ DOMAIN metadata = {}
    /\ pc' = "full" /\ todo' = DOMAIN metadata \ dropped
    /\ UNCHANGED <<mail, queue, metadata, dropped, searchVars, full, changes, faults>>

\* Deleted since, or nothing left to classify: skipped.
ReadFull(t) ==
    /\ pc = "full" /\ IsNext(t)
    /\ todo' = todo \ {t}
    /\ IF mail[t] = <<>> \/ Classifiable(mail[t]) = {}
       THEN dropped' = dropped \cup {t} /\ UNCHANGED full
       ELSE full' = With(full, t, mail[t]) /\ UNCHANGED dropped
    /\ UNCHANGED <<mail, queue, pc, metadata, searchVars, changes, faults>>

Send ==
    /\ pc = "full" /\ todo = {}
    /\ pc' = "sent"
    /\ UNCHANGED <<mail, queue, chunkVars, changes, faults>>

\* The state of each request.
Sent == [t \in DOMAIN full |-> ThreadToState(full[t])]

ForgetSearch == NoSearch /\ slipped' = {}

\* Fault: the threads skipped before are dropped with the next chunk, too.
ForgetReads ==
    /\ todo' = {} /\ metadata' = <<>> /\ full' = <<>>
    /\ ForgetSearch /\ UNCHANGED dropped

ForgetChunk ==
    /\ todo' = {} /\ metadata' = <<>> /\ dropped' = {} /\ full' = <<>>
    /\ ForgetSearch

\* Any of the threads may stay queued, unanswered or struck.
Settle ==
    /\ pc = "sent"
    /\ \E answered \in SUBSET DOMAIN full : queue' = queue \ (dropped \cup answered)
    /\ pc' = "idle" /\ ForgetChunk
    /\ UNCHANGED <<mail, changes, faults>>

\* A rate limit, a missing scope or an exception while screening, or the end of the
\* execution: the chunk is not screened, nothing is saved.
Fail ==
    /\ pc # "idle" /\ faults < MaxFaults
    /\ faults' = faults + 1
    /\ pc' = "idle" /\ ForgetChunk
    /\ UNCHANGED <<mail, queue, changes>>

\* A full read that fails: nothing is sent, the screened queue is saved.
StopReading ==
    /\ pc = "full" /\ todo # {} /\ faults < MaxFaults
    /\ faults' = faults + 1
    /\ queue' = queue \ dropped
    /\ pc' = "idle" /\ ForgetChunk
    /\ UNCHANGED <<mail, changes>>

\* A full read or the building of a request throws: one strike, and not sent.
ReadThrows(t) ==
    /\ pc = "full" /\ IsNext(t) /\ faults < MaxFaults
    /\ faults' = faults + 1
    /\ todo' = todo \ {t}
    /\ UNCHANGED <<mail, queue, pc, metadata, dropped, searchVars, full, changes>>

-----------------------------------------------------------------------------
(* Gmail and the user.                                                     *)

Change == changes < MaxChanges /\ changes' = changes + 1

\* Between two pages of a search, a thread it has still to find.
IsAhead(t) == pc \in {"chunkSearch", "ownSearch"} /\ page > 0 /\ t \in target \ found

\* Newer mail may move the thread to the front of what a search lists, before the
\* place where its next page starts.
Arrive(t, m) ==
    /\ Change /\ mail[t] # <<>>
    /\ mail' = [mail EXCEPT ![t] = Append(@, m)]
    /\ \/ UNCHANGED slipped
       \/ IsAhead(t) /\ slipped' = slipped \cup {t}
    /\ UNCHANGED <<queue, pc, todo, metadata, dropped, target, found, page, full, faults>>

Trash(t) ==
    /\ Change /\ mail[t] # <<>>
    /\ mail' = [mail EXCEPT ![t] = [i \in DOMAIN @ |-> [@[i] EXCEPT !.out = TRUE]]]
    /\ UNCHANGED <<queue, pc, chunkVars, faults>>

Delete(t) ==
    /\ Change /\ mail[t] # <<>>
    /\ mail' = [mail EXCEPT ![t] = <<>>]
    /\ UNCHANGED <<queue, pc, chunkVars, faults>>

\* Ingest or a manual job queues a thread.
Enqueue(t) ==
    /\ pc = "idle" /\ t \notin queue
    /\ queue' = queue \cup {t}
    /\ UNCHANGED <<mail, pc, chunkVars, changes, faults>>

Screen ==
    \/ Start
    \/ \E t \in Threads : ReadMetadata(t)
    \/ SearchChunk
    \/ ReadPage
    \/ EndChunkSearch
    \/ \E t \in Threads : SearchOwn(t)
    \/ EndOwnSearch
    \/ Screened

Process ==
    \/ \E t \in Threads : ReadFull(t)
    \/ Send
    \/ Settle
    \/ Fail
    \/ StopReading
    \/ \E t \in Threads : ReadThrows(t)

User ==
    \/ \E t \in Threads, m \in Arrivals : Arrive(t, m)
    \/ \E t \in Threads : Trash(t)
    \/ \E t \in Threads : Delete(t)
    \/ \E t \in Threads : Enqueue(t)

Next == Screen \/ Process \/ User

Spec == Init /\ [][Next]_vars

-----------------------------------------------------------------------------
(* Properties.                                                             *)

TypeOK ==
    /\ mail \in [Threads -> Seq(Messages)]
    /\ queue \subseteq Threads
    /\ pc \in {"idle", "metadata", "chunkSearch", "own", "ownSearch", "full", "sent"}
    /\ todo \subseteq queue
    /\ pc \in {"own", "ownSearch", "full"} => todo \subseteq DOMAIN metadata
    /\ DOMAIN metadata \subseteq queue /\ metadata \in [DOMAIN metadata -> Seq(Messages)]
    /\ DOMAIN full \subseteq DOMAIN metadata /\ full \in [DOMAIN full -> Seq(Messages)]
    /\ dropped \subseteq queue
    /\ found \subseteq target /\ target \subseteq DOMAIN metadata
    /\ slipped \subseteq DOMAIN metadata
    /\ page \in 0..MaxPages - 1

\* No thread is sent of which the metadata read had a message that matches
\* excludeQuery, whatever the dates of its and the other threads' messages, the
\* search's pages and caps, and what happens to the thread meanwhile.  The one
\* exception is a thread that gets mail between two pages of a search that has
\* still to find it, moves before the second of them, and is in no later search:
\* a walk by pages cannot see it, and it is sent.
ExcludedMailIsNotSent ==
    pc = "sent" =>
        \A t \in DOMAIN full \ slipped : \A i \in DOMAIN metadata[t] : ~metadata[t][i].matches

\* Every request fits both of Jev's limits, or has nothing left to cut, and is the
\* longest such: what is cut is what cutting the smallest piece of the oldest
\* content first, again and again, would cut.
RequestsAreFitted ==
    pc = "sent" =>
        \A t \in DOMAIN full :
            /\ WithinLimits(Sent[t]) \/ IsBare(Sent[t])
            /\ Sent[t] = FirstThatFits(BuildState(full[t]))
=============================================================================
