------------------------------ MODULE Settlement ------------------------------
(***************************************************************************)
(* Settling one thread at the level of its Gmail calls, while the user     *)
(* deletes and creates labels: src/app/settle-thread.ts, apply-decision.ts,*)
(* jev-error.ts and label-cache.ts, the Jev/Error label IDs they remember  *)
(* (jev-error-label-store.ts), and install.ts and uninstall.ts, which bring*)
(* those IDs back and delete them.                                         *)
(*                                                                         *)
(* Gmail gives every label it creates a new ID: the n-th label of a name   *)
(* has the ID <<name, n>>.  The run's label cache keeps IDs by name, so it *)
(* goes stale when the user deletes a label.                               *)
(***************************************************************************)
EXTENDS Integers, Sequences, FiniteSets, SequencesExt

CONSTANTS
    Threads,
    MaxIds,           \* JEV_ERROR_LABEL_MAX_IDS
    MaxStoredStrikes, \* MAX_STORED_STRIKES
    MaxChanges,       \* bound: labels the user deletes or creates
    MaxMail,          \* bound: mails that arrive
    MaxSetups,        \* bound: installs and uninstalls
    MaxFaults         \* bound: failures of Gmail and of the execution

ASSUME SettlementAssumption ==
    /\ IsFiniteSet(Threads)
    /\ MaxIds \in Nat \ {0}
    /\ {MaxStoredStrikes, MaxChanges, MaxMail, MaxSetups, MaxFaults} \subseteq Nat

JevError == "Jev/Error"
Names == {"Jev", JevError, "Work"}

\* The label's ancestors that are missing are created before it.
Parent(name) == IF name = JevError THEN {"Jev"} ELSE {}

\* config.rules, in their order: a label, and two moves of which one may apply.
Rules == <<[action |-> "label", label |-> "Work"],
           [action |-> "move", label |-> "archive"],
           [action |-> "move", label |-> "Work"]>>

VARIABLES
    \* The mailbox.
    labels,     \* name |-> the number of its label, or 0 when there is none
    made,       \* name |-> labels ever made of that name
    carries,    \* thread |-> IDs of its labels
    archived,   \* threads out of the inbox
    removals,   \* history not yet read: <<thread, ID>> of labels removed
    \* Script Properties and the trigger.
    known,      \* state.jevErrorLabel
    position,   \* whether state.position exists
    trigger,    \* whether the recurring trigger exists
    queue,      \* thread |-> strikes of its item, as saved
    \* The execution.
    pc,
    cache,      \* the run's label cache: name |-> number, or NoCache
    job,        \* the settlement under way
    \* History variables.
    added,      \* <<thread, ID>>: Jev/Error put on a thread by this installation
    steady,     \* no label has changed since Gmail first refused this attempt's,
                \* or since the settlement began
    changes, mail, setups, faults

mailbox == <<labels, made, carries, archived, removals>>
properties == <<known, position, trigger, queue>>
execution == <<pc, cache, job>>
counters == <<changes, mail, setups, faults>>
vars == <<mailbox, properties, execution, added, steady, counters>>

NoCache == [n \in {"none"} |-> 0]
NoJob == [kind |-> "none"]

Id(name) == <<name, labels[name]>>

Listed == [n \in {m \in Names : labels[m] # 0} |-> labels[n]]

Fault == faults < MaxFaults /\ faults' = faults + 1

-----------------------------------------------------------------------------
(* The mailbox's owner.                                                    *)

\* A deleted label leaves its threads, and every thread's history says so.
DeleteLabel(name) ==
    /\ changes < MaxChanges
    /\ labels[name] # 0
    /\ labels' = [labels EXCEPT ![name] = 0]
    /\ carries' = [t \in Threads |-> carries[t] \ {Id(name)}]
    /\ removals' = removals \cup {<<t, Id(name)>> : t \in {u \in Threads :
                                     name = JevError /\ Id(name) \in carries[u]}}
    /\ steady' = FALSE
    /\ changes' = changes + 1
    /\ UNCHANGED <<made, archived, properties, execution, added, mail, setups, faults>>

CreateByUser(name) ==
    /\ changes < MaxChanges
    /\ labels[name] = 0
    /\ made' = [made EXCEPT ![name] = @ + 1]
    /\ labels' = [labels EXCEPT ![name] = made'[name]]
    /\ steady' = FALSE
    /\ changes' = changes + 1
    /\ UNCHANGED <<carries, archived, removals, properties, execution, added, mail,
                   setups, faults>>

RemoveFromThread(t) ==
    /\ changes < MaxChanges
    /\ \E id \in carries[t] :
          /\ id[1] = JevError
          /\ carries' = [carries EXCEPT ![t] = @ \ {id}]
          /\ removals' = removals \cup {<<t, id>>}
    /\ changes' = changes + 1
    /\ UNCHANGED <<labels, made, archived, properties, execution, added, steady, mail,
                   setups, faults>>

-----------------------------------------------------------------------------
(* A run: ingest, then one thread after the other.                         *)

\* Mail is queued, and so is a thread that lost a Jev/Error whose ID is known.
StartRun ==
    /\ pc = "idle" /\ trigger /\ position
    /\ \E new \in SUBSET Threads :
          LET freed == {p[1] : p \in {r \in removals : r[2] \in ToSet(known)}}
          IN  /\ mail + Cardinality(new) <= MaxMail
              /\ mail' = mail + Cardinality(new)
              /\ queue' = [t \in DOMAIN queue \cup new \cup freed |->
                             IF t \in freed \/ t \notin DOMAIN queue THEN 0 ELSE queue[t]]
    /\ removals' = {}
    /\ pc' = "run"
    /\ UNCHANGED <<labels, made, carries, archived, known, position, trigger, cache, job,
                   added, steady, changes, setups, faults>>

EndRun ==
    /\ pc = "run"
    /\ pc' = "idle"
    /\ cache' = NoCache
    /\ UNCHANGED <<mailbox, properties, job, added, steady, counters>>

\* Any message with a known ID takes the thread out of the queue.
HasJevErrorLabel(t) == carries[t] \cap ToSet(known) # {}

Without(t) == [u \in DOMAIN queue \ {t} |-> queue[u]]

SkipJevError(t) ==
    /\ pc = "run"
    /\ t \in DOMAIN queue
    /\ HasJevErrorLabel(t)
    /\ queue' = Without(t)
    /\ UNCHANGED <<mailbox, known, position, trigger, execution, added, steady, counters>>

\* Every rule that fires: their labels, and the first move when moves are allowed.
DecideOutcome(fired, movesAllowed) ==
    LET moves == {i \in fired : Rules[i].action = "move" /\ movesAllowed}
    IN  [labels |-> {Rules[i].label : i \in {j \in fired : Rules[j].action = "label"}},
         move |-> IF moves = {} THEN "stay"
                  ELSE Rules[CHOOSE i \in moves : \A j \in moves : i <= j].label]

Apply(t, decision) ==
    [kind |-> "apply", thread |-> t, labels |-> decision.labels, move |-> decision.move,
     asked |-> decision, tried |-> {}, retried |-> FALSE, scope |-> FALSE]

Mark(t) ==
    [kind |-> "mark", thread |-> t, labels |-> {JevError}, move |-> "stay",
     tried |-> {}, retried |-> FALSE]

\* The settlement is over; the queue is saved as it leaves it.
Done(q) ==
    /\ queue' = q
    /\ pc' = "run"
    /\ job' = NoJob

\* Fault: one strike too many is stored.
StrikeLate(t) ==
    IF queue[t] <= MaxStoredStrikes
    THEN Done([queue EXCEPT ![t] = @ + 1])
    ELSE pc' = "resolve" /\ job' = Mark(t) /\ UNCHANGED queue

\* One strike, or on the third Jev/Error.
StrikeOrError(t) ==
    IF queue[t] < MaxStoredStrikes
    THEN Done([queue EXCEPT ![t] = @ + 1])
    ELSE pc' = "resolve" /\ job' = Mark(t) /\ UNCHANGED queue

StartSettlement(t) ==
    /\ pc = "run"
    /\ t \in DOMAIN queue
    /\ ~HasJevErrorLabel(t)
    /\ \/ \E fired \in SUBSET DOMAIN Rules, movesAllowed \in BOOLEAN :
             LET decision == DecideOutcome(fired, movesAllowed)
             IN  IF decision.labels = {} /\ decision.move = "stay"
                 THEN Done(Without(t))
                 ELSE pc' = "resolve" /\ job' = Apply(t, decision) /\ UNCHANGED queue
       \/ StrikeOrError(t)
       \/ pc' = "resolve" /\ job' = Mark(t) /\ UNCHANGED queue
    /\ steady' = TRUE
    /\ UNCHANGED <<mailbox, known, position, trigger, cache, added, counters>>

-----------------------------------------------------------------------------
(* What a failed call does to the settlement.                              *)

\* A strike is only for a failure of applying; one of marking changes nothing.
FailedByException ==
    IF job.kind = "apply" THEN StrikeOrError(job.thread) ELSE Done(queue)

\* A missing scope drops the move, then the labels, and does not fail the thread.
ScopeMissing ==
    IF job.kind = "apply"
    THEN IF job.move # "stay" /\ job.labels # {}
         THEN /\ pc' = "resolve"
              /\ job' = [job EXCEPT !.move = "stay", !.retried = FALSE, !.tried = {},
                                    !.scope = TRUE]
              /\ UNCHANGED queue
         ELSE Done(Without(job.thread))
    ELSE Done(queue)

\* The rate limit stops the run's Gmail work: the thread stays as it was.
RateLimited ==
    /\ pc' = "idle"
    /\ job' = NoJob
    /\ UNCHANGED queue

\* The label names the next modify needs, and those the cache does not have.
JobNames == job.labels \cup (IF job.move \in Names THEN {job.move} ELSE {})

Missing == JobNames \ DOMAIN cache

\* Any Gmail call may be refused.
CallRefused ==
    /\ \/ pc \in {"reload", "refresh", "modify"}
       \/ pc = "resolve" /\ (cache = NoCache \/ Missing # {})
    /\ Fault
    /\ ScopeMissing \/ RateLimited \/ FailedByException
    /\ cache' = IF pc' = "idle" THEN NoCache ELSE cache
    /\ UNCHANGED <<mailbox, known, position, trigger, added, steady, changes, mail, setups>>

-----------------------------------------------------------------------------
(* Names to IDs, through the cache.                                        *)

ToCreate ==
    LET parents == UNION {Parent(n) : n \in Missing} \ (DOMAIN cache \cup job.tried)
    IN  IF parents # {} THEN parents ELSE Missing

\* A label of that name: the cache learns it, or that it exists already.
CreateLabel(name) ==
    IF labels[name] = 0
    THEN /\ made' = [made EXCEPT ![name] = @ + 1]
         /\ labels' = [labels EXCEPT ![name] = made'[name]]
         /\ cache' = [n \in DOMAIN cache \cup {name} |->
                        IF n = name THEN made'[name] ELSE cache[n]]
         /\ UNCHANGED <<pc, job>>
    ELSE /\ IF name \in JobNames
            THEN pc' = "reload" /\ UNCHANGED job
            ELSE job' = [job EXCEPT !.tried = @ \cup {name}] /\ UNCHANGED pc
         /\ UNCHANGED <<labels, made, cache>>

LoadCache ==
    /\ pc = "resolve"
    /\ cache = NoCache
    /\ cache' = Listed
    /\ UNCHANGED <<mailbox, properties, pc, job, added, steady, counters>>

ResolveMissing ==
    /\ pc = "resolve"
    /\ cache # NoCache
    /\ \E name \in ToCreate : CreateLabel(name)
    /\ UNCHANGED <<carries, archived, removals, properties, added, steady, counters>>

\* Gmail says the label exists: the list has it, unless it is gone again.
Reload ==
    /\ pc = "reload"
    /\ cache' = Listed
    /\ IF JobNames \subseteq DOMAIN Listed
       THEN pc' = "resolve" /\ UNCHANGED <<queue, job>>
       ELSE FailedByException
    /\ UNCHANGED <<mailbox, known, position, trigger, added, steady, counters>>

\* Fault: the IDs of earlier labels are replaced.
AddIdAlone(ids, id) == <<id>>

\* No ID is kept twice.
Others(ids, id) ==
    IF \E i \in DOMAIN ids : ids[i] = id
    THEN RemoveAt(ids, CHOOSE i \in DOMAIN ids : ids[i] = id) ELSE ids

AddJevErrorLabelId(ids, id) ==
    LET all == Append(Others(ids, id), id)
    IN  IF Len(all) > MaxIds THEN Tail(all) ELSE all

\* The ID of Jev/Error is remembered before any thread gets it.
Resolved ==
    /\ pc = "resolve"
    /\ cache # NoCache
    /\ Missing = {}
    /\ pc' = "modify"
    /\ known' = IF job.kind = "mark"
                THEN AddJevErrorLabelId(known, <<JevError, cache[JevError]>>) ELSE known
    /\ UNCHANGED <<mailbox, position, trigger, queue, cache, job, added, steady, counters>>

-----------------------------------------------------------------------------
(* threads.modify, and what its answer does to the thread.                 *)

\* Gmail takes every ID, or refuses the call.
Accepted == \A n \in JobNames : cache[n] = labels[n]

Leaves(t) == Done(Without(t))

\* The execution ends with nothing more saved.
Killed == pc' = "idle" /\ cache' = NoCache /\ job' = NoJob

Modify ==
    /\ pc = "modify"
    /\ Accepted
    /\ carries' = [carries EXCEPT ![job.thread] = @ \cup {Id(n) : n \in JobNames}]
    /\ archived' = IF job.move = "stay" THEN archived ELSE archived \cup {job.thread}
    /\ added' = IF job.kind = "mark" THEN added \cup {<<job.thread, Id(JevError)>>} ELSE added
    /\ \/ Leaves(job.thread) /\ UNCHANGED <<cache, faults>>
       \/ Fault /\ Killed /\ UNCHANGED queue
    /\ UNCHANGED <<labels, made, removals, known, position, trigger, steady, changes, mail,
                   setups>>

\* Fault: a second refusal is taken for the labels being applied.
RefusedAgainIsDone == Leaves(job.thread)

\* A second refusal throws.
RefusedAgain == FailedByException

\* Fault: the call is retried with the IDs it was refused for.
RefusedLabelRetried ==
    /\ pc = "modify"
    /\ ~Accepted
    /\ IF job.retried
       THEN RefusedAgain /\ UNCHANGED <<steady>>
       ELSE /\ job' = [job EXCEPT !.retried = TRUE]
            /\ steady' = TRUE
            /\ UNCHANGED <<pc, queue>>
    /\ UNCHANGED <<mailbox, known, position, trigger, cache, added, counters>>

RefusedLabel ==
    /\ pc = "modify"
    /\ ~Accepted
    /\ IF job.retried
       THEN RefusedAgain /\ UNCHANGED <<steady>>
       ELSE /\ pc' = "refresh"
            /\ job' = [job EXCEPT !.retried = TRUE, !.tried = {}]
            /\ steady' = TRUE
            /\ UNCHANGED queue
    /\ UNCHANGED <<mailbox, known, position, trigger, cache, added, counters>>

Refresh ==
    /\ pc = "refresh"
    /\ cache' = Listed
    /\ pc' = "resolve"
    /\ UNCHANGED <<mailbox, properties, job, added, steady, counters>>

\* The thread is gone, or Gmail's precondition failed.
ModifyFails ==
    /\ pc = "modify"
    /\ Fault
    /\ Leaves(job.thread) \/ FailedByException
    /\ UNCHANGED <<mailbox, known, position, trigger, cache, added, steady, changes, mail,
                   setups>>

-----------------------------------------------------------------------------
(* install and uninstall, one write at a time.                             *)

BeginInstall ==
    /\ pc = "idle" /\ setups < MaxSetups
    /\ setups' = setups + 1
    /\ pc' = "position"
    /\ UNCHANGED <<mailbox, properties, cache, job, added, steady, changes, mail, faults>>

\* A position is kept; a new one takes history from now on.
SetPosition ==
    /\ pc = "position"
    /\ pc' = "lookup"
    /\ position' = TRUE
    /\ removals' = IF position THEN removals ELSE {}
    /\ UNCHANGED <<labels, made, carries, archived, known, trigger, queue, cache, job,
                   added, steady, counters>>

\* The ID of a Jev/Error left by an earlier installation is remembered; a failed
\* listing is skipped.
LookUpJevError ==
    /\ pc = "lookup"
    /\ pc' = "oldTrigger"
    /\ \/ /\ labels[JevError] # 0
          /\ known' = AddJevErrorLabelId(known, Id(JevError))
          /\ added' = added \cup {<<t, Id(JevError)>> : t \in {u \in Threads :
                                           Id(JevError) \in carries[u]}}
          /\ UNCHANGED faults
       \/ labels[JevError] = 0 /\ UNCHANGED <<known, added, faults>>
       \/ Fault /\ UNCHANGED <<known, added>>
    /\ UNCHANGED <<mailbox, position, trigger, queue, cache, job, steady, changes, mail,
                   setups>>

DeleteOldTrigger ==
    /\ pc = "oldTrigger"
    /\ pc' = "newTrigger"
    /\ trigger' = FALSE
    /\ UNCHANGED <<mailbox, known, position, queue, cache, job, added, steady, counters>>

CreateTrigger ==
    /\ pc = "newTrigger"
    /\ pc' = "idle"
    /\ trigger' = TRUE
    /\ UNCHANGED <<mailbox, known, position, queue, cache, job, added, steady, counters>>

\* Fault: the keys go before the trigger.
KeysFirst ==
    /\ pc = "idle" /\ setups < MaxSetups
    /\ setups' = setups + 1
    /\ pc' = "keys"
    /\ UNCHANGED <<mailbox, properties, cache, job, added, steady, changes, mail, faults>>

BeginUninstall ==
    /\ pc = "idle" /\ setups < MaxSetups
    /\ setups' = setups + 1
    /\ trigger' = FALSE
    /\ pc' = "keys"
    /\ UNCHANGED <<mailbox, known, position, queue, cache, job, added, steady, changes,
                   mail, faults>>

\* The state.* keys, in any order.
DeleteKey ==
    /\ pc = "keys"
    /\ \/ known # <<>> /\ known' = <<>> /\ added' = {} /\ UNCHANGED <<position, queue>>
       \/ position /\ position' = FALSE /\ UNCHANGED <<known, queue, added>>
       \/ /\ DOMAIN queue # {}
          /\ queue' = [t \in {} |-> 0]
          /\ UNCHANGED <<known, position, added>>
    /\ UNCHANGED <<mailbox, trigger, execution, steady, counters>>

FinishUninstall ==
    /\ pc = "keys"
    /\ known = <<>> /\ ~position /\ DOMAIN queue = {}
    /\ pc' = "idle"
    /\ UNCHANGED <<mailbox, properties, cache, job, added, steady, counters>>

Crash ==
    /\ pc # "idle"
    /\ Fault
    /\ Killed
    /\ UNCHANGED <<mailbox, properties, added, steady, changes, mail, setups>>

-----------------------------------------------------------------------------

Init ==
    /\ labels = [n \in Names |-> 0] /\ made = labels
    /\ carries = [t \in Threads |-> {}]
    /\ archived = {} /\ removals = {}
    /\ known = <<>> /\ position = FALSE /\ trigger = FALSE
    /\ queue = [t \in {} |-> 0]
    /\ pc = "idle" /\ cache = NoCache /\ job = NoJob
    /\ added = {} /\ steady = TRUE
    /\ changes = 0 /\ mail = 0 /\ setups = 0 /\ faults = 0

User ==
    \/ \E name \in Names : DeleteLabel(name) \/ CreateByUser(name)
    \/ \E t \in Threads : RemoveFromThread(t)

Run ==
    \/ StartRun \/ EndRun
    \/ \E t \in Threads : SkipJevError(t) \/ StartSettlement(t)
    \/ LoadCache \/ ResolveMissing \/ Reload \/ Resolved
    \/ Modify \/ RefusedLabel \/ Refresh
    \/ CallRefused \/ ModifyFails

Setup ==
    \/ BeginInstall \/ SetPosition \/ LookUpJevError \/ DeleteOldTrigger \/ CreateTrigger
    \/ BeginUninstall \/ DeleteKey \/ FinishUninstall

\* The bounds are used up.
Quiet == pc = "idle" /\ UNCHANGED vars

Next == User \/ Run \/ Setup \/ Crash \/ Quiet

Spec == Init /\ [][Next]_vars

-----------------------------------------------------------------------------
(* Properties.                                                             *)

Number == 0..MaxChanges + 1
LabelId == Names \X Number

Moves == {"stay", "archive"} \cup Names
Decisions == [labels : SUBSET Names, move : Moves]

Jobs ==
    {NoJob}
        \cup [kind : {"apply"}, thread : Threads, labels : SUBSET Names, move : Moves,
              asked : Decisions, tried : SUBSET Names, retried : BOOLEAN, scope : BOOLEAN]
        \cup [kind : {"mark"}, thread : Threads, labels : SUBSET Names, move : Moves,
              tried : SUBSET Names, retried : BOOLEAN]

\* What jevErrorLabelCodec accepts.
LabelIds == {ids \in Seq(LabelId) : Len(ids) <= MaxIds}

TypeOK ==
    /\ labels \in [Names -> Number] /\ made \in [Names -> Number]
    /\ carries \in [Threads -> SUBSET LabelId]
    /\ archived \subseteq Threads
    /\ removals \subseteq Threads \X LabelId /\ added \subseteq Threads \X LabelId
    /\ known \in LabelIds
    /\ position \in BOOLEAN /\ trigger \in BOOLEAN /\ steady \in BOOLEAN
    /\ DOMAIN queue \subseteq Threads
    /\ \A t \in DOMAIN queue : queue[t] \in 0..MaxStoredStrikes
    /\ pc \in {"idle", "run", "resolve", "reload", "modify", "refresh", "position",
               "lookup", "oldTrigger", "newTrigger", "keys"}
    /\ job \in Jobs
    /\ changes \in 0..MaxChanges /\ mail \in 0..MaxMail /\ setups \in 0..MaxSetups
    /\ faults \in 0..MaxFaults

\* Jev/Error put on a thread is recognised for as long as the thread carries it,
\* and its removal until history has been read: through crashes, deleted and
\* recreated labels and a reinstallation that found the label.  Only an ID with
\* MaxIds newer ones is given up.
JevErrorIsRecognised ==
    \A p \in added :
        /\ p[2] \in carries[p[1]] \/ p \in removals
        /\ made[JevError] - p[2][2] < MaxIds
        => p[2] \in ToSet(known)

\* The trigger never fires a run that has no position, wherever an install or an
\* uninstall was cut off.
TriggerHasPosition == trigger => position

Settling == pc \in {"resolve", "reload", "refresh", "modify"}

\* A stale label cache costs a thread nothing: applying an answer earns a strike,
\* or Jev/Error, only when Gmail failed or a label changed after Gmail had refused
\* one already.
ChangedLabelsCostNoStrike ==
    [][/\ Settling /\ job.kind = "apply"
       /\ \/ job'.kind = "mark"
          \/ /\ job.thread \in DOMAIN queue'
             /\ queue'[job.thread] > queue[job.thread]
       => faults' > faults \/ ~steady]_vars

\* A thread leaves the queue as answered with every label and the move its answer
\* asked for, except what a missing scope forbade, or because it is gone.
AnswersAreApplied ==
    [][/\ Settling /\ job.kind = "apply"
       /\ job.thread \in DOMAIN queue \ DOMAIN queue'
       => \/ faults' > faults
          \/ /\ \A n \in job.asked.labels : Id(n) \in carries'[job.thread]
             /\ job.asked.move = "stay" \/ job.scope \/ job.thread \in archived']_vars
=============================================================================
