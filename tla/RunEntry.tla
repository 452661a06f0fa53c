------------------------------- MODULE RunEntry -------------------------------
(***************************************************************************)
(* The boundary every execution runs in: the script lock, the heartbeat    *)
(* state.runs, the daily tally of Gmail calls, and the alert emails, from  *)
(* src/app/run-entry.ts, src/core/run-record.ts, src/app/counting-gmail.ts,*)
(* src/app/alerts.ts and src/app/alert-mailer.ts.                          *)
(*                                                                         *)
(* What a run does between its start and its end is its body: any alerts,  *)
(* any calls, success or an error.  Apps Script may kill it at any step,   *)
(* which releases the lock and runs none of its catch and finally.  A      *)
(* busy execution (run.skipped) changes nothing and has no action.         *)
(***************************************************************************)
EXTENDS Naturals, Sequences, FiniteSets

CONSTANTS
    Executions,  \* executions that can overlap
    Threshold,   \* RUN_FAILURES_ALERT_THRESHOLD (3)
    DayLength,   \* clock readings in a day
    MaxCalls,    \* bound: Gmail calls of a body
    MaxNow,      \* bound: the clock
    MaxFaults    \* bound: kills and failing calls

NoOne == "none"

ASSUME RunEntryAssumption ==
    /\ NoOne \notin Executions
    /\ Threshold \in Nat \ {0} /\ DayLength \in Nat \ {0}
    /\ MaxCalls \in Nat /\ MaxNow \in Nat /\ MaxFaults \in Nat

VARIABLES
    now,       \* ClockPort.now()
    lock,      \* the execution that holds the script lock
    record,    \* state.runs
    sent,      \* state.alerts: the day each condition's email was last sent
    tally,     \* state.gmailCalls
    pc, run,   \* of each execution: its next step and what it holds in memory
    \* History variables.
    streak,    \* runs since the last recorded success, of those with a start
    mails,     \* [day, number, lost]: emails of a condition on its latest day
    called,    \* Gmail calls of the day's runs that saved their tally
    faults

vars == <<now, lock, record, sent, tally, pc, run, streak, mails, called, faults>>

-----------------------------------------------------------------------------
(* state.runs.  A time before any clock reading stands for an absent one.  *)

Never == 0

IsUnfinished(r) == r.lastEnd < r.lastStart

\* Fault: an unfinished run is left out of the count.
StartUncounted(r, at) == [r EXCEPT !.lastStart = at]

RecordStart(r, at) ==
    [r EXCEPT !.lastStart = at,
              !.failures = IF IsUnfinished(r) THEN @ + 1 ELSE @]

RecordSuccess(r, at) == [r EXCEPT !.lastEnd = at, !.failures = 0]

RecordFailure(r, at) == [r EXCEPT !.lastEnd = at, !.failures = @ + 1]

-----------------------------------------------------------------------------
(* Alerts.  Of the seven conditions: the one the boundary raises, one its  *)
(* error mapping raises, one a body raises, and the missing scopes.        *)

Conditions == {"run_failures", "config_invalid", "errored", "scope_missing"}

MailScopes == {"send_mail", "gmail_modify"}

\* createAlertCollector().add of the conditions in `raised`, at most one:
\* without duplicates, in first-seen order.
Added(alerts, raised) ==
    IF raised \subseteq {alerts[i] : i \in DOMAIN alerts}
    THEN alerts
    ELSE Append(alerts, CHOOSE c \in raised : TRUE)

\* Fault: alerts one run late.
RaisesPast(failures) == failures > Threshold

Raises(failures) == failures >= Threshold

FailureAlert(failures) ==
    IF Raises(failures) THEN {"run_failures"} ELSE {}

\* alertFor: what an error raises by itself, if anything.
MappedAlerts == {{"config_invalid"}, {"scope_missing"}, {}}

\* Days are numbered from 1; 0 stands for an absent day.
Day(at) == 1 + at \div DayLength

\* The positions of the alerts to send today.
Due(alerts, today) == {i \in DOMAIN alerts : sent[alerts[i]] # today}

\* Fault: state.alerts is saved after the last email only.
SavedAtTheEnd(due, marks) == IF Cardinality(due) = 1 THEN marks ELSE sent

\* state.alerts after the email for the first of `due`.
SavedMarks(due, marks) == marks

-----------------------------------------------------------------------------
(* state.gmailCalls.                                                       *)

\* Fault: the calls of another day are kept.
CallsOfAnyDay(t, today) == [day |-> today, count |-> t.count]

GmailCallsForDay(t, today) ==
    IF t.day = today THEN t ELSE [day |-> today, count |-> 0]

-----------------------------------------------------------------------------
(* An entry point: options of runEntry and its alert sink.                 *)

Options == [onTrigger |-> [heartbeat |-> TRUE, tallies |-> TRUE, mails |-> TRUE],
            install |-> [heartbeat |-> FALSE, tallies |-> TRUE, mails |-> TRUE],
            cancelManualRun |->
                [heartbeat |-> FALSE, tallies |-> FALSE, mails |-> FALSE]]

NoRecord == [lastStart |-> Never, lastEnd |-> Never, failures |-> 0]

Idle == [entry |-> "cancelManualRun", startedAt |-> Never,
         started |-> NoRecord, written |-> FALSE, row |-> 0,
         alerts |-> <<>>, missing |-> {},
         tally |-> [day |-> 0, count |-> 0], loaded |-> FALSE, calls |-> 0,
         today |-> 0, marks |-> [c \in Conditions |-> 0], due |-> {},
         excused |-> FALSE]

Option(e) == Options[run[e].entry]

\* The condition of the loop over the due alerts.
IsNext(e, condition) ==
    \E i \in run[e].due :
        /\ run[e].alerts[i] = condition
        /\ \A j \in run[e].due : i <= j

\* The due alerts after it.
Rest(e, condition) == {i \in run[e].due : run[e].alerts[i] # condition}

Faulty == faults < MaxFaults /\ faults' = faults + 1
Faultless == UNCHANGED faults

Init ==
    /\ now = 0
    /\ lock = NoOne
    /\ record = NoRecord
    /\ sent = [c \in Conditions |-> 0]
    /\ tally = [day |-> 0, count |-> 0]
    /\ pc = [e \in Executions |-> "idle"]
    /\ run = [e \in Executions |-> Idle]
    /\ streak = 0
    /\ mails = [c \in Conditions |-> [day |-> 0, number |-> 0, lost |-> 0]]
    /\ called = [day |-> 0, count |-> 0]
    /\ faults = 0

\* Execution e is at `step`, and goes on to `next` with `memory`, in which what
\* no later step reads is cleared.
Steps(e, step, next, memory) ==
    /\ pc[e] = step
    /\ pc' = [pc EXCEPT ![e] = next]
    /\ run' = [run EXCEPT ![e] = memory]

AfterBody(e) == IF run[e].loaded THEN "tally" ELSE "alerts"

\* The catch of runEntry, up to the write of the heartbeat.
Caught(e, step, memory, alerts) ==
    LET counts == memory.started # NoRecord
        more == CASE counts -> FailureAlert(memory.started.failures + 1)
                  [] ~counts /\ Option(e).heartbeat -> {"run_failures"}
                  [] OTHER -> {}
    IN  Steps(e, step, IF counts THEN "failure" ELSE AfterBody(e),
              [memory EXCEPT
                  !.alerts = Added(Added(@, alerts), more),
                  !.row = IF memory.written THEN streak ELSE @])

\* tryAcquire succeeds.  An earlier run that read the clock for what it stores
\* wrote storage after that, so this reading is a later one.
Acquire(e, entry) ==
    /\ lock = NoOne
    /\ now' \in now..MaxNow
    /\ Options[entry].tallies => now' > now
    /\ lock' = e
    /\ Steps(e, "idle", IF Options[entry].heartbeat THEN "heartbeat" ELSE "config",
             [Idle EXCEPT !.entry = entry, !.startedAt = now'])
    /\ UNCHANGED <<record, sent, tally, streak, mails, called>>
    /\ Faultless

Heartbeat(e) ==
    LET started == RecordStart(record, run[e].startedAt)
        unfinished == IsUnfinished(record)
    IN  /\ \/ /\ record' = started
              /\ streak' = streak + 1
              /\ Steps(e, "heartbeat", "config",
                       [run[e] EXCEPT
                           !.started = started, !.written = TRUE,
                           !.row = IF unfinished THEN streak ELSE 0,
                           !.alerts = IF unfinished
                                      THEN Added(@, FailureAlert(started.failures))
                                      ELSE @])
              /\ Faultless
           \* The write throws, or what is stored cannot be read.
           \/ /\ \E known \in {started, NoRecord} :
                    Caught(e, "heartbeat", [run[e] EXCEPT !.started = known], {})
              /\ Faulty
              /\ UNCHANGED <<record, streak>>
        /\ UNCHANGED <<now, lock, sent, tally, mails, called>>

\* loadConfig, the limits and the Deadline.
LoadConfig(e) ==
    /\ \/ /\ Steps(e, "config", IF Option(e).tallies THEN "calls" ELSE "body", run[e])
          /\ Faultless
       \/ Caught(e, "config", run[e], {"config_invalid"}) /\ Faulty
    /\ UNCHANGED <<now, lock, record, sent, tally, streak, mails, called>>

LoadCalls(e) ==
    /\ \/ /\ Steps(e, "calls", "body",
                   [run[e] EXCEPT
                       !.tally = GmailCallsForDay(tally, Day(run[e].startedAt)),
                       !.loaded = TRUE, !.startedAt = Never])
          /\ Faultless
       \/ Caught(e, "calls", run[e], {}) /\ Faulty
    /\ UNCHANGED <<now, lock, record, sent, tally, streak, mails, called>>

\* What a body may add to the collector, and the scopes it may find missing.
BodyAlerts == {{}, {"errored"}, {"scope_missing"}}

Body(e) ==
    /\ \E calls \in 0..MaxCalls, alerts \in BodyAlerts, scope \in MailScopes :
          LET memory == [run[e] EXCEPT
                  !.calls = calls,
                  !.alerts = Added(@, alerts),
                  !.missing = IF alerts = {"scope_missing"} THEN {scope} ELSE {}]
          IN  \/ Steps(e, "body", IF Option(e).heartbeat THEN "success" ELSE AfterBody(e),
                       memory)
              \/ \E mapped \in MappedAlerts : Caught(e, "body", memory, mapped)
    /\ UNCHANGED <<now, lock, record, sent, tally, streak, mails, called>>
    /\ Faultless

\* The heartbeat of a body that returned; a write that throws is a failure.
Success(e) ==
    /\ \E at \in now..MaxNow :
          /\ now' = at
          /\ \/ /\ record' = RecordSuccess(run[e].started, at)
                /\ streak' = 0
                /\ Steps(e, "success", AfterBody(e), [run[e] EXCEPT !.started = NoRecord])
                /\ Faultless
             \/ /\ Caught(e, "success", run[e], {})
                /\ Faulty
                /\ UNCHANGED <<record, streak>>
    /\ UNCHANGED <<lock, sent, tally, mails, called>>

\* The heartbeat in the catch; a write that throws is only logged.
Failure(e) ==
    /\ Steps(e, "failure", AfterBody(e), [run[e] EXCEPT !.started = NoRecord])
    /\ \E at \in now..MaxNow :
          /\ now' = at
          /\ \/ /\ record' = RecordFailure(run[e].started, at)
                /\ streak' = IF run[e].written THEN streak ELSE streak + 1
                /\ Faultless
             \/ Faulty /\ UNCHANGED <<record, streak>>
    /\ UNCHANGED <<lock, sent, tally, mails, called>>

\* The first step of the finally; each of its steps only logs what it throws.
SaveCalls(e) ==
    LET loaded == run[e].tally
    IN  /\ Steps(e, "tally", "alerts",
                 [run[e] EXCEPT !.tally = Idle.tally, !.loaded = FALSE, !.calls = 0])
        /\ \/ /\ tally' = [loaded EXCEPT !.count = @ + run[e].calls]
              /\ called' = [day |-> loaded.day,
                            count |-> run[e].calls
                                      + IF called.day = loaded.day THEN called.count ELSE 0]
              /\ Faultless
           \/ Faulty /\ UNCHANGED <<tally, called>>
        /\ UNCHANGED <<now, lock, record, sent, streak, mails>>

\* deliver, up to the first email: of an entry whose sink sends.
Deliver(e) ==
    /\ \E at \in now..MaxNow :
          LET today == Day(at)
              due == Due(run[e].alerts, today)
              none == \/ ~Option(e).mails
                      \/ due = {}
              over == [run[e] EXCEPT !.alerts = <<>>, !.missing = {}, !.today = today]
          IN  /\ now' = at
              /\ \/ none /\ Steps(e, "alerts", "unlock", over) /\ Faultless
                 \/ /\ ~none /\ run[e].missing # {}
                    /\ Steps(e, "alerts", "unlock", [over EXCEPT !.excused = TRUE])
                    /\ Faultless
                 \/ /\ ~none /\ run[e].missing = {}
                    /\ Steps(e, "alerts", "send",
                             [run[e] EXCEPT !.today = today, !.due = due, !.marks = sent])
                    /\ Faultless
                 \* state.alerts cannot be read, or getProfile fails.
                 \/ /\ ~none
                    /\ Steps(e, "alerts", "unlock", [over EXCEPT !.excused = TRUE])
                    /\ Faulty
    /\ UNCHANGED <<lock, record, sent, tally, streak, mails, called>>

\* History: an email of `condition` on `day`, and whether its mark was lost.
Counted(m, day, number, lost) ==
    IF m.day = day
    THEN [m EXCEPT !.number = @ + number, !.lost = @ + lost]
    ELSE [day |-> day, number |-> number, lost |-> lost]

\* The email for the next due condition; a refusal (scope, quota) ends the
\* delivery.
Send(e) ==
    /\ \/ /\ \E c \in Conditions :
                /\ IsNext(e, c)
                /\ Steps(e, "send", "mark", [run[e] EXCEPT !.marks[c] = run[e].today])
                /\ mails' = [mails EXCEPT ![c] = Counted(@, run[e].today, 1, 0)]
          /\ Faultless
       \/ /\ Steps(e, "send", "unlock", [run[e] EXCEPT !.excused = TRUE])
          /\ Faulty
          /\ UNCHANGED mails
    /\ UNCHANGED <<now, lock, record, sent, tally, streak, called>>

LosesMark(e) ==
    \E c \in Conditions :
        /\ IsNext(e, c)
        /\ mails' = [mails EXCEPT ![c] = Counted(@, run[e].today, 0, 1)]

\* state.alerts, saved after each email; a throw ends the delivery.
Mark(e) ==
    /\ \/ /\ sent' = SavedMarks(run[e].due, run[e].marks)
          /\ \E c \in Conditions :
                /\ IsNext(e, c)
                /\ Steps(e, "mark", IF Rest(e, c) = {} THEN "unlock" ELSE "send",
                         [run[e] EXCEPT !.due = Rest(e, c)])
          /\ Faultless
          /\ UNCHANGED mails
       \/ /\ Steps(e, "mark", "unlock", [run[e] EXCEPT !.excused = TRUE])
          /\ LosesMark(e)
          /\ Faulty
          /\ UNCHANGED sent
    /\ UNCHANGED <<now, lock, record, tally, streak, called>>

\* The last step; if release() throws, the end of the execution releases it.
Unlock(e) ==
    /\ Steps(e, "unlock", "idle", Idle)
    /\ lock' = NoOne
    /\ UNCHANGED <<now, record, sent, tally, streak, mails, called>>
    /\ Faultless

Kill(e) ==
    /\ pc[e] # "idle"
    /\ Steps(e, pc[e], "idle", Idle)
    /\ lock' = NoOne
    /\ IF pc[e] = "mark" THEN LosesMark(e) ELSE UNCHANGED mails
    /\ Faulty
    /\ UNCHANGED <<now, record, sent, tally, streak, called>>

Next ==
    \E e \in Executions :
        \/ \E entry \in DOMAIN Options : Acquire(e, entry)
        \/ Heartbeat(e) \/ LoadConfig(e) \/ LoadCalls(e) \/ Body(e)
        \/ Success(e) \/ Failure(e)
        \/ SaveCalls(e) \/ Deliver(e) \/ Send(e) \/ Mark(e) \/ Unlock(e)
        \/ Kill(e)

Spec == Init /\ [][Next]_vars

-----------------------------------------------------------------------------
(* Properties.                                                             *)

Days == 0..Day(MaxNow)
\* What the codecs of state.runs and state.gmailCalls accept, less the summary.
Records == [lastStart : 0..MaxNow, lastEnd : 0..MaxNow, failures : Nat]
Tallies == [day : Days, count : Nat]
Alerts == {a \in Seq(Conditions) : \A i, j \in DOMAIN a : a[i] = a[j] => i = j}

Places == {"idle", "heartbeat", "config", "calls", "body", "success", "failure",
           "tally", "alerts", "send", "mark", "unlock"}

Memories == [entry : DOMAIN Options, startedAt : 0..MaxNow,
             started : Records, written : BOOLEAN, row : Nat,
             alerts : Alerts, missing : SUBSET MailScopes,
             tally : Tallies, loaded : BOOLEAN, calls : Nat,
             today : Days, marks : [Conditions -> Days], due : SUBSET Nat,
             excused : BOOLEAN]

\* Type invariant: also that the execution that is running holds the lock, and
\* that a run's alerts are listed once each.
TypeOK ==
    /\ now \in 0..MaxNow
    /\ lock \in Executions \cup {NoOne}
    /\ record \in Records
    /\ sent \in [Conditions -> Days]
    /\ tally \in Tallies
    /\ pc \in [Executions -> Places]
    /\ run \in [Executions -> Memories]
    /\ \A e \in Executions : (pc[e] # "idle") = (lock = e)
    /\ streak \in Nat
    /\ mails \in [Conditions -> [day : Days, number : Nat, lost : Nat]]
    /\ called \in Tallies
    /\ faults \in 0..MaxFaults

\* state.runs counts every run that failed or was killed since the last
\* success once, and nothing else, whatever write was lost: the failures it
\* stores, and one more when the latest run has not recorded its end, are the
\* runs that started since (recordStart, recordFailure, isUnfinished).
FailuresAreCounted ==
    record.failures + (IF IsUnfinished(record) THEN 1 ELSE 0) = streak

\* The owner gets an email about a condition once a day, and once more for
\* each email whose mark in state.alerts was lost to a kill or a failed write
\* (deliver saves after each email, under the lock).
OneMailADay ==
    \A c \in Conditions : mails[c].number <= 1 + mails[c].lost

\* A run that ends by itself, was counted and knows of Threshold failures in
\* a row, its own or those before it, leaves the owner with a run_failures
\* email of that day, unless sending was impossible.
FailuresAreMailed ==
    [][\A e \in Executions :
          (/\ pc[e] = "unlock" /\ pc'[e] = "idle" /\ faults' = faults
           /\ run[e].row >= Threshold
           /\ ~run[e].excused)
          => /\ mails["run_failures"].day = run[e].today
             /\ mails["run_failures"].number > 0]_vars

\* Today's tally holds the calls of every run of the day that saved it, so
\* overlapping or failing runs lose none.
CallsAreTallied == tally = called
=============================================================================
