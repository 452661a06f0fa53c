---------------------------- MODULE RunEntryProofs ----------------------------
(***************************************************************************)
(* Proofs about RunEntry, for any number of executions, any threshold, any *)
(* length of a day and any bounds: the type invariant, and that failures   *)
(* are counted, calls tallied, and emails sent once a day and not left out.*)
(*                                                                         *)
(* What is stored is rewritten from copies that the execution read at its  *)
(* start, so the invariant says what each copy is worth while the          *)
(* execution holds the lock: the heartbeat it will write (HeartbeatIsDue), *)
(* the tally it will add to (TallyIsCurrent), the marks it will save       *)
(* (MarksAreCurrent), and the alert and the email it owes the owner        *)
(* (AlertIsRaised, EmailIsOwed).  An idle execution knows nothing.         *)
(***************************************************************************)
EXTENDS RunEntry, TLAPS

Starting == {"config", "calls", "body"}

RecordsArePast == record.lastStart <= now /\ record.lastEnd <= now

\* The record an execution started from counts the runs before it and, when it
\* is written, the execution itself; recording its end makes it finished.
HeartbeatIsDue(e) ==
    LET r == run[e]
    IN  /\ pc[e] = "heartbeat" =>
              /\ Option(e).heartbeat
              /\ r.startedAt = now
              /\ record.lastStart < now /\ record.lastEnd < now
              /\ r.started = NoRecord /\ ~r.written /\ r.row = 0
        /\ r.written => Option(e).heartbeat
        /\ pc[e] \in Starting => /\ r.written <=> r.started # NoRecord
                                 /\ r.written <=> Option(e).heartbeat
        /\ pc[e] = "success" => r.written
        /\ pc[e] \in {"success", "failure"} => r.started # NoRecord
        /\ r.started # NoRecord =>
              /\ IsUnfinished(r.started)
              /\ r.started.lastStart <= now
              /\ r.started.failures + (IF r.written THEN 1 ELSE 0) = streak

TallyIsCurrent(e) ==
    LET r == run[e]
    IN  /\ pc[e] = "tally" => r.loaded
        /\ r.loaded =>
              r.tally.count = IF tally.day = r.tally.day THEN tally.count ELSE 0

\* Alerts of a run that knows of Threshold failures include run_failures.
AlertIsRaised(e) ==
    /\ run[e].row # 0 => Option(e).mails
    /\ /\ pc[e] \in Starting \cup {"success", "failure", "tally", "alerts"}
       /\ run[e].row >= Threshold
       => \E i \in DOMAIN run[e].alerts : run[e].alerts[i] = "run_failures"

\* The email of each condition is marked as sent, or its mark was lost, or is
\* about to be saved.
EmailIsMarked(c) ==
    /\ sent[c] <= mails[c].day /\ mails[c].day <= Day(now)
    /\ sent[c] # 0 /\ sent[c] = mails[c].day => mails[c].number > 0
    /\ \/ mails[c].number <= mails[c].lost
       \/ mails[c].number = 1 + mails[c].lost /\ sent[c] = mails[c].day
       \/ /\ mails[c].number = 1 + mails[c].lost
          /\ \E e \in Executions :
                pc[e] = "mark" /\ IsNext(e, c) /\ mails[c].day = run[e].today

Sending == {"send", "mark"}

MarksAreCurrent(e) ==
    LET r == run[e]
    IN  /\ pc[e] \in Sending \cup {"unlock"} => r.today = Day(now)
        /\ pc[e] \in Sending =>
              /\ r.due \subseteq DOMAIN r.alerts
              /\ \A i \in r.due : sent[r.alerts[i]] # r.today
        /\ pc[e] = "send" => r.marks = sent
        /\ pc[e] = "mark" =>
              \A c \in Conditions : IsNext(e, c) =>
                 /\ r.marks = [sent EXCEPT ![c] = r.today]
                 /\ mails[c].day = r.today /\ mails[c].number > 0

Mailed(condition, day) == mails[condition].day = day /\ mails[condition].number > 0

EmailIsOwed(e) ==
    LET r == run[e]
    IN  r.row >= Threshold =>
           /\ pc[e] \in Sending =>
                 \/ \E i \in r.due : r.alerts[i] = "run_failures"
                 \/ Mailed("run_failures", r.today)
           /\ pc[e] = "unlock" /\ ~r.excused => Mailed("run_failures", r.today)

IdleKnowsNothing(e) == pc[e] = "idle" => run[e] = Idle

IInv ==
    /\ TypeOK
    /\ RecordsArePast
    /\ FailuresAreCounted
    /\ CallsAreTallied
    /\ \A c \in Conditions : EmailIsMarked(c)
    /\ \A e \in Executions :
          /\ IdleKnowsNothing(e)
          /\ HeartbeatIsDue(e)
          /\ TallyIsCurrent(e)
          /\ AlertIsRaised(e)
          /\ MarksAreCurrent(e)
          /\ EmailIsOwed(e)

-----------------------------------------------------------------------------
(* Facts about the operators.                                              *)

\* Days are in order and within the bound of the clock.
LEMMA DayFacts ==
    ASSUME NEW a \in Nat, NEW b \in Nat, a <= b
    PROVE  Day(a) \in Nat /\ 1 <= Day(a) /\ Day(a) <= Day(b)
<1> DEFINE D == DayLength
<1>1. D \in Nat /\ D >= 1
  BY RunEntryAssumption
<1>2. a \div D \in Nat /\ b \div D \in Nat
  BY <1>1
<1>3. a = D * (a \div D) + (a % D) /\ a % D < D /\ a % D >= 0
  BY <1>1
<1>4. b = D * (b \div D) + (b % D) /\ b % D < D /\ b % D >= 0
  BY <1>1
<1>5. a \div D <= b \div D
  BY <1>1, <1>2, <1>3, <1>4
<1> QED BY <1>2, <1>5 DEF Day

\* An idle execution's memory has its type.
LEMMA IdleFacts == Idle \in Memories /\ NoRecord \in Records
<1>1. 0 \in Days /\ 0 \in 0..MaxNow
  BY RunEntryAssumption, DayFacts DEF Days
<1>2. <<>> \in Alerts
  BY DEF Alerts
<1> QED BY <1>1, <1>2 DEF Idle, Memories, NoRecord, Never, Records, Tallies, Options

\* An entry that writes the heartbeat tallies its calls and sends emails.
LEMMA OptionFacts ==
    ASSUME NEW entry \in DOMAIN Options
    PROVE  Options[entry].heartbeat => Options[entry].tallies /\ Options[entry].mails
<1>1. entry \in {"onTrigger", "install", "cancelManualRun"}
  BY DEF Options
<1> QED BY <1>1 DEF Options

\* Raising an alert keeps those there, each once, and adds the one raised.
LEMMA AddedFacts ==
    ASSUME NEW alerts \in Alerts, NEW raised \in SUBSET Conditions,
           \A c, d \in raised : c = d
    PROVE  /\ Added(alerts, raised) \in Alerts
           /\ \A i \in DOMAIN alerts :
                 \E j \in DOMAIN Added(alerts, raised) :
                    Added(alerts, raised)[j] = alerts[i]
           /\ \A c \in raised :
                 \E j \in DOMAIN Added(alerts, raised) : Added(alerts, raised)[j] = c
<1>1. CASE raised \subseteq {alerts[i] : i \in DOMAIN alerts}
  BY <1>1 DEF Added, Alerts
<1>2. CASE ~(raised \subseteq {alerts[i] : i \in DOMAIN alerts})
  <2>1. PICK c \in raised : c \notin {alerts[i] : i \in DOMAIN alerts}
    BY <1>2
  <2>2. (CHOOSE d \in raised : TRUE) = c
    BY <2>1
  <2>3. Added(alerts, raised) = Append(alerts, c)
    BY <1>2, <2>2 DEF Added
  <2>4. DOMAIN alerts = 1..Len(alerts) /\ Len(alerts) \in Nat
        /\ alerts \in Seq(Conditions) /\ c \in Conditions
    BY DEF Alerts
  <2>5. /\ Append(alerts, c) \in Seq(Conditions)
        /\ DOMAIN Append(alerts, c) = 1..(Len(alerts) + 1)
        /\ Append(alerts, c)[Len(alerts) + 1] = c
        /\ \A i \in DOMAIN alerts : Append(alerts, c)[i] = alerts[i]
    BY <2>4
  <2>6. \A i, j \in 1..(Len(alerts) + 1) :
           Append(alerts, c)[i] = Append(alerts, c)[j] => i = j
    BY <2>1, <2>4, <2>5 DEF Alerts
  <2>7. Added(alerts, raised) \in Alerts
    BY <2>3, <2>5, <2>6 DEF Alerts
  <2>8. \A d \in raised : d = c
    BY <2>1
  <2> QED BY <2>3, <2>4, <2>5, <2>7, <2>8
<1> QED BY <1>1, <1>2

\* Recording a start counts the run before it when that one is unfinished.
LEMMA RecordStartFacts ==
    ASSUME NEW r \in Records, NEW at \in 0..MaxNow, r.lastStart < at, r.lastEnd < at
    PROVE  /\ RecordStart(r, at) \in Records
           /\ RecordStart(r, at) # NoRecord
           /\ RecordStart(r, at).lastStart = at /\ RecordStart(r, at).lastEnd = r.lastEnd
           /\ IsUnfinished(RecordStart(r, at))
           /\ RecordStart(r, at).failures
                 = r.failures + (IF IsUnfinished(r) THEN 1 ELSE 0)
<1>1. RecordStart(r, at) \in Records
  <2>0. r.failures + 1 \in Nat
    BY DEF Records
  <2>1. CASE IsUnfinished(r)
    BY <2>0, <2>1, Zenon DEF Records, RecordStart
  <2>2. CASE ~IsUnfinished(r)
    BY <2>2 DEF Records, RecordStart
  <2> QED BY <2>1, <2>2
<1>2. /\ RecordStart(r, at).lastStart = at /\ RecordStart(r, at).lastEnd = r.lastEnd
      /\ RecordStart(r, at).failures = r.failures + (IF IsUnfinished(r) THEN 1 ELSE 0)
  BY DEF RecordStart, IsUnfinished, Records
<1>3. at > 0 /\ NoRecord.lastStart = 0
  BY DEF Records, NoRecord, Never
<1> QED BY <1>1, <1>2, <1>3 DEF IsUnfinished

-----------------------------------------------------------------------------
(* One execution runs at a time: what a step of it has to keep.            *)

LEMMA StepsFacts ==
    ASSUME TypeOK, NEW e \in Executions, NEW step, NEW next \in Places,
           NEW memory \in Memories, Steps(e, step, next, memory)
    PROVE  /\ pc' \in [Executions -> Places] /\ run' \in [Executions -> Memories]
           /\ pc[e] = step /\ pc'[e] = next /\ run'[e] = memory
           /\ \A f \in Executions \ {e} : pc'[f] = pc[f] /\ run'[f] = run[f]
  BY DEF TypeOK, Steps

\* No clause is about an execution that has not started.
LEMMA IdleIsFine ==
    ASSUME NEW f, pc'[f] = "idle", run'[f] = Idle
    PROVE  /\ IdleKnowsNothing(f)' /\ HeartbeatIsDue(f)' /\ TallyIsCurrent(f)'
           /\ AlertIsRaised(f)' /\ MarksAreCurrent(f)' /\ EmailIsOwed(f)'
<1> USE RunEntryAssumption
<1>1. /\ Idle.started = NoRecord /\ Idle.loaded = FALSE /\ Idle.row = 0
      /\ Idle.written = FALSE
  BY DEF Idle
<1> QED
  BY <1>1 DEF IdleKnowsNothing, HeartbeatIsDue, TallyIsCurrent, AlertIsRaised,
              MarksAreCurrent, EmailIsOwed, Starting, Sending

\* A step of the execution that holds the lock, or takes it, keeps the
\* invariant when it keeps what is stored and what that execution knows.
LEMMA HolderKeeps ==
    ASSUME IInv, NEW e \in Executions, NEW step, NEW next \in Places,
           NEW memory \in Memories, Steps(e, step, next, memory),
           lock \in {e, NoOne}, lock' = IF next = "idle" THEN NoOne ELSE e,
           next = "idle" => memory = Idle,
           now' \in 0..MaxNow, record' \in Records, sent' \in [Conditions -> Days],
           tally' \in Tallies, streak' \in Nat,
           mails' \in [Conditions -> [day : Days, number : Nat, lost : Nat]],
           called' \in Tallies, faults' \in 0..MaxFaults,
           RecordsArePast', FailuresAreCounted', CallsAreTallied',
           \A c \in Conditions : EmailIsMarked(c)',
           HeartbeatIsDue(e)', TallyIsCurrent(e)', AlertIsRaised(e)',
           MarksAreCurrent(e)', EmailIsOwed(e)'
    PROVE  IInv'
<1> USE RunEntryAssumption
<1>1. TypeOK /\ \A f \in Executions : IdleKnowsNothing(f)
  BY DEF IInv
<1>2. /\ pc' \in [Executions -> Places] /\ run' \in [Executions -> Memories]
      /\ pc'[e] = next /\ run'[e] = memory
      /\ \A f \in Executions \ {e} : pc'[f] = pc[f] /\ run'[f] = run[f]
  BY <1>1, StepsFacts
<1>3. \A f \in Executions \ {e} : pc'[f] = "idle" /\ run'[f] = Idle
  BY <1>1, <1>2 DEF TypeOK, IdleKnowsNothing
<1>4. \A f \in Executions : (pc'[f] # "idle") = (lock' = f)
  BY <1>2, <1>3
<1>5. TypeOK'
  BY <1>2, <1>4 DEF TypeOK
<1>6. IdleKnowsNothing(e)'
  BY <1>2 DEF IdleKnowsNothing
<1>7. ASSUME NEW f \in Executions
      PROVE  /\ IdleKnowsNothing(f)' /\ HeartbeatIsDue(f)' /\ TallyIsCurrent(f)'
             /\ AlertIsRaised(f)' /\ MarksAreCurrent(f)' /\ EmailIsOwed(f)'
  BY <1>3, <1>6, IdleIsFine
<1> QED BY <1>5, <1>7 DEF IInv

\* A step that neither sends nor marks an email keeps what is known of them.
LEMMA EmailsKept ==
    ASSUME IInv, NEW e \in Executions, NEW step, NEW next \in Places,
           NEW memory \in Memories, Steps(e, step, next, memory), step # "mark",
           lock \in {e, NoOne}, UNCHANGED <<sent, mails>>, now' \in now..MaxNow
    PROVE  \A c \in Conditions : EmailIsMarked(c)'
<1> USE RunEntryAssumption
<1> SUFFICES ASSUME NEW c \in Conditions PROVE EmailIsMarked(c)'
  OBVIOUS
<1>1. TypeOK /\ EmailIsMarked(c)
  BY DEF IInv
<1>2. \A f \in Executions : pc[f] # "mark"
  BY <1>1 DEF TypeOK, Steps
<1>3. Day(now) <= Day(now') /\ Day(now) \in Nat /\ Day(now') \in Nat
  BY <1>1, DayFacts DEF TypeOK
<1>4. mails[c].day \in Nat
  BY <1>1 DEF TypeOK, Days
<1> QED BY <1>1, <1>2, <1>3, <1>4 DEF EmailIsMarked

-----------------------------------------------------------------------------
(* The catch, from any step before it.                                     *)

\* What an execution may know when something throws.
KnownWhenThrown(memory) ==
    /\ memory.written => Options[memory.entry].heartbeat /\ memory.started # NoRecord
    /\ memory.started # NoRecord =>
          /\ IsUnfinished(memory.started)
          /\ memory.started.lastStart <= now
          /\ memory.started.failures + (IF memory.written THEN 1 ELSE 0) = streak
    /\ memory.loaded =>
          memory.tally.count = IF tally.day = memory.tally.day THEN tally.count ELSE 0
    /\ memory.row # 0 => Options[memory.entry].mails
    /\ memory.row >= Threshold =>
          \E i \in DOMAIN memory.alerts : memory.alerts[i] = "run_failures"

LEMMA CaughtKeeps ==
    ASSUME IInv, NEW e \in Executions, NEW step \in Places \ {"idle", "mark"},
           NEW memory \in Memories, NEW alerts \in SUBSET Conditions,
           \A c, d \in alerts : c = d,
           KnownWhenThrown(memory), memory.entry = run[e].entry,
           memory.loaded = run[e].loaded,
           Caught(e, step, memory, alerts),
           now' \in now..MaxNow, faults' \in 0..MaxFaults,
           UNCHANGED <<lock, record, sent, tally, streak, mails, called>>
    PROVE  IInv'
<1> USE RunEntryAssumption
<1> DEFINE counts == memory.started # NoRecord
           more == CASE counts -> FailureAlert(memory.started.failures + 1)
                     [] ~counts /\ Option(e).heartbeat -> {"run_failures"}
                     [] OTHER -> {}
           raised == Added(Added(memory.alerts, alerts), more)
           row == IF memory.written THEN streak ELSE memory.row
           next == IF counts THEN "failure" ELSE AfterBody(e)
           caught == [memory EXCEPT !.alerts = raised, !.row = row]
<1>1. TypeOK
  BY DEF IInv
<1>2. Steps(e, step, next, caught)
  BY DEF Caught
<1>3. more \in {{}, {"run_failures"}}
  BY DEF FailureAlert
<1>4. Added(memory.alerts, alerts) \in Alerts
  BY AddedFacts DEF Memories
<1>5. raised \in Alerts
  <2>1. more \in SUBSET Conditions /\ \A c, d \in more : c = d
    BY <1>3 DEF Conditions
  <2> QED BY <2>1, <1>4, AddedFacts
<1>6. row >= Threshold => \E i \in DOMAIN raised : raised[i] = "run_failures"
  <2>1. more \in SUBSET Conditions /\ \A c, d \in more : c = d
    BY <1>3 DEF Conditions
  <2>2. CASE memory.written
    <3>1. memory.started.failures + 1 = streak /\ counts
      BY <2>2 DEF KnownWhenThrown
    <3>2. row >= Threshold => more = {"run_failures"}
      BY <2>2, <3>1 DEF FailureAlert, Raises
    <3> QED BY <3>2, <2>1, <1>4, AddedFacts
  <2>3. CASE ~memory.written
    <3>1. row >= Threshold =>
             \E i \in DOMAIN memory.alerts : memory.alerts[i] = "run_failures"
      BY <2>3 DEF KnownWhenThrown
    <3>2. row >= Threshold =>
             \E i \in DOMAIN Added(memory.alerts, alerts) :
                Added(memory.alerts, alerts)[i] = "run_failures"
      BY <3>1, AddedFacts DEF Memories
    <3> QED BY <3>2, <2>1, <1>4, AddedFacts
  <2> QED BY <2>2, <2>3
<1>7. row \in Nat /\ (row # 0 => Options[memory.entry].mails)
  BY <1>1 DEF TypeOK, Memories, KnownWhenThrown, Options
<1>8. next \in {"failure", "tally", "alerts"} /\ (next = "failure" => counts)
      /\ (next = "tally" => memory.loaded)
  BY DEF AfterBody
<1> HIDE DEF counts, more, raised, row, next
<1>9. /\ caught \in Memories
      /\ caught.entry = memory.entry /\ caught.started = memory.started
      /\ caught.written = memory.written /\ caught.loaded = memory.loaded
      /\ caught.tally = memory.tally /\ caught.row = row /\ caught.alerts = raised
  BY <1>5, <1>7 DEF Memories
<1> HIDE DEF caught
<1>10. next \in Places
  BY <1>8 DEF Places
<1>11. pc'[e] = next /\ run'[e] = caught
  BY <1>1, <1>2 DEF TypeOK, Steps
<1>12. lock = e /\ now \in Nat /\ now' \in Nat /\ now <= now'
  BY <1>1, <1>2 DEF TypeOK, Steps
<1>13. \A c \in Conditions : EmailIsMarked(c)'
  BY <1>2, <1>9, <1>10, <1>12, EmailsKept
<1>14. HeartbeatIsDue(e)'
  BY <1>1, <1>8, <1>9, <1>11, <1>12
     DEF HeartbeatIsDue, Starting, KnownWhenThrown, Option, counts, IsUnfinished,
         TypeOK, Memories, Records
<1>15. TallyIsCurrent(e)'
  BY <1>8, <1>9, <1>11 DEF TallyIsCurrent, KnownWhenThrown
<1>16. AlertIsRaised(e)'
  BY <1>6, <1>7, <1>8, <1>9, <1>11 DEF AlertIsRaised, Option
<1>17. MarksAreCurrent(e)' /\ EmailIsOwed(e)'
  BY <1>8, <1>11 DEF MarksAreCurrent, EmailIsOwed, Sending
<1>18. RecordsArePast' /\ FailuresAreCounted' /\ CallsAreTallied'
  BY <1>1, <1>12 DEF IInv, RecordsArePast, FailuresAreCounted, CallsAreTallied,
                     TypeOK, Records
<1> QED
  <2>1. lock' = (IF next = "idle" THEN NoOne ELSE e) /\ (next = "idle" => caught = Idle)
    BY <1>8, <1>12
  <2>2. /\ now' \in 0..MaxNow /\ record' \in Records /\ sent' \in [Conditions -> Days]
        /\ tally' \in Tallies /\ streak' \in Nat /\ called' \in Tallies
        /\ mails' \in [Conditions -> [day : Days, number : Nat, lost : Nat]]
    BY <1>1 DEF TypeOK
  <2> QED BY <1>2, <1>9, <1>10, <1>12, <1>13, <1>14, <1>15, <1>16, <1>17, <1>18,
             <2>1, <2>2, HolderKeeps

-----------------------------------------------------------------------------
(* The actions.                                                            *)

\* What a step that only reads, of an execution, leaves to show.
LEMMA ReadingKeeps ==
    ASSUME IInv, NEW e \in Executions, NEW step \in Places \ {"mark"},
           NEW next \in Places, NEW memory \in Memories,
           Steps(e, step, next, memory), lock \in {e, NoOne},
           lock' = IF next = "idle" THEN NoOne ELSE e,
           next = "idle" => memory = Idle,
           now' \in now..MaxNow, faults' \in 0..MaxFaults,
           UNCHANGED <<record, sent, tally, streak, mails, called>>,
           HeartbeatIsDue(e)', TallyIsCurrent(e)', AlertIsRaised(e)',
           MarksAreCurrent(e)', EmailIsOwed(e)'
    PROVE  IInv'
<1> USE RunEntryAssumption
<1>1. TypeOK
  BY DEF IInv
<1>2. \A c \in Conditions : EmailIsMarked(c)'
  BY EmailsKept
<1>3. RecordsArePast' /\ FailuresAreCounted' /\ CallsAreTallied'
  BY <1>1 DEF IInv, RecordsArePast, FailuresAreCounted, CallsAreTallied, TypeOK, Records
<1>4. /\ now' \in 0..MaxNow /\ record' \in Records /\ sent' \in [Conditions -> Days]
      /\ tally' \in Tallies /\ streak' \in Nat /\ called' \in Tallies
      /\ mails' \in [Conditions -> [day : Days, number : Nat, lost : Nat]]
  BY <1>1 DEF TypeOK
<1> QED BY <1>2, <1>3, <1>4, HolderKeeps

LEMMA AcquireKeeps ==
    ASSUME IInv, NEW e \in Executions, NEW entry \in DOMAIN Options, Acquire(e, entry)
    PROVE  IInv'
<1> USE RunEntryAssumption
<1> DEFINE memory == [Idle EXCEPT !.entry = entry, !.startedAt = now']
           next == IF Options[entry].heartbeat THEN "heartbeat" ELSE "config"
<1>1. TypeOK /\ RecordsArePast
  BY DEF IInv
<1>2. /\ lock = NoOne /\ lock' = e /\ now' \in now..MaxNow /\ now \in Nat
      /\ Options[entry].heartbeat => now' > now
      /\ Steps(e, "idle", next, memory)
      /\ UNCHANGED <<record, sent, tally, streak, mails, called, faults>>
  BY <1>1 DEF Acquire, Faultless, Options, TypeOK
<1>3a. memory \in Memories
  <2>1. now' \in 0..MaxNow
    BY <1>2
  <2> QED BY <2>1, IdleFacts DEF Memories
<1>3. /\ memory.entry = entry /\ memory.startedAt = now' /\ memory.started = NoRecord
      /\ memory.written = FALSE /\ memory.row = 0 /\ memory.loaded = FALSE
  BY DEF Idle
<1>4. next \in {"heartbeat", "config"} /\ (next = "heartbeat" <=> Options[entry].heartbeat)
  OBVIOUS
<1> HIDE DEF memory, next
<1>5. pc'[e] = next /\ run'[e] = memory
  BY <1>1, <1>2 DEF TypeOK, Steps
<1>6. record'.lastStart <= now /\ record'.lastEnd <= now /\ record \in Records
  BY <1>1, <1>2 DEF RecordsArePast, TypeOK
<1>7. HeartbeatIsDue(e)'
  BY <1>2, <1>3, <1>4, <1>5, <1>6, OptionFacts
     DEF HeartbeatIsDue, Starting, Option, Records
<1>8. TallyIsCurrent(e)' /\ AlertIsRaised(e)' /\ MarksAreCurrent(e)' /\ EmailIsOwed(e)'
  BY <1>3, <1>4, <1>5
     DEF TallyIsCurrent, AlertIsRaised, MarksAreCurrent, EmailIsOwed, Sending
<1> QED
  <2>1. next \in Places /\ "idle" \in Places \ {"mark"} /\ next # "idle"
    BY <1>4 DEF Places
  <2>2. faults' \in 0..MaxFaults
    BY <1>1, <1>2 DEF TypeOK
  <2> QED BY <1>2, <1>3a, <1>7, <1>8, <2>1, <2>2, ReadingKeeps

LEMMA HeartbeatKeeps ==
    ASSUME IInv, NEW e \in Executions, Heartbeat(e)
    PROVE  IInv'
<1> USE RunEntryAssumption
<1> DEFINE r == run[e]
           started == RecordStart(record, r.startedAt)
           unfinished == IsUnfinished(record)
           alerts == IF unfinished THEN Added(r.alerts, FailureAlert(started.failures))
                     ELSE r.alerts
           row == IF unfinished THEN streak ELSE 0
           memory == [r EXCEPT !.started = started, !.written = TRUE, !.row = row,
                               !.alerts = alerts]
<1>1. TypeOK /\ FailuresAreCounted /\ HeartbeatIsDue(e) /\ TallyIsCurrent(e)
  BY DEF IInv
<1>2. /\ pc[e] = "heartbeat" /\ lock = e /\ r \in Memories
      /\ UNCHANGED <<now, lock, sent, tally, mails, called>>
  BY <1>1 DEF Heartbeat, Steps, Caught, TypeOK
<1>3. /\ Option(e).heartbeat /\ r.startedAt = now /\ r.started = NoRecord
      /\ ~r.written /\ r.row = 0
      /\ record.lastStart < now /\ record.lastEnd < now
      /\ record \in Records /\ now \in 0..MaxNow
  BY <1>1, <1>2 DEF HeartbeatIsDue, TypeOK
<1>4. /\ started \in Records /\ started # NoRecord
      /\ started.lastStart = now /\ started.lastEnd = record.lastEnd
      /\ IsUnfinished(started)
      /\ started.failures = record.failures + (IF unfinished THEN 1 ELSE 0)
  BY <1>3, RecordStartFacts
<1>5. started.failures = streak /\ streak \in Nat
  BY <1>1, <1>4 DEF FailuresAreCounted, TypeOK
<1>6. Option(e).mails
  BY <1>3, <1>2 DEF Option, Options, Memories
<1>7. CASE /\ record' = started /\ streak' = streak + 1 /\ faults' = faults
           /\ Steps(e, "heartbeat", "config", memory)
  <2>1. /\ FailureAlert(started.failures) \in {{}, {"run_failures"}}
        /\ started.failures >= Threshold => FailureAlert(started.failures) = {"run_failures"}
    BY DEF FailureAlert, Raises
  <2>2. /\ alerts \in Alerts
        /\ row >= Threshold => \E i \in DOMAIN alerts : alerts[i] = "run_failures"
    <3>1. /\ FailureAlert(started.failures) \in SUBSET Conditions
          /\ \A c, d \in FailureAlert(started.failures) : c = d
      BY <2>1 DEF Conditions
    <3>2. r.alerts \in Alerts
      BY <1>2 DEF Memories
    <3> HIDE DEF started
    <3>3. CASE unfinished
      BY <3>1, <3>2, <3>3, <2>1, <1>5, AddedFacts
    <3>4. CASE ~unfinished
      BY <3>2, <3>4
    <3> QED BY <3>3, <3>4
  <2>3. row \in Nat
    BY <1>5
  <2> HIDE DEF started, alerts, row
  <2>4. /\ memory \in Memories
        /\ memory.entry = r.entry /\ memory.started = started /\ memory.written = TRUE
        /\ memory.loaded = r.loaded /\ memory.tally = r.tally /\ memory.row = row
        /\ memory.alerts = alerts
    BY <1>2, <1>4, <2>2, <2>3 DEF Memories
  <2> HIDE DEF memory, r
  <2>5. pc'[e] = "config" /\ run'[e] = memory
    BY <1>1, <1>7 DEF TypeOK, Steps
  <2>6. HeartbeatIsDue(e)'
    BY <1>2, <1>3, <1>4, <1>5, <1>7, <2>4, <2>5
       DEF HeartbeatIsDue, Starting, Option, r
  <2>7. TallyIsCurrent(e)'
    BY <1>1, <1>2, <2>4, <2>5 DEF TallyIsCurrent, r
  <2>8. AlertIsRaised(e)' /\ MarksAreCurrent(e)' /\ EmailIsOwed(e)'
    BY <1>6, <2>2, <2>4, <2>5
       DEF AlertIsRaised, MarksAreCurrent, EmailIsOwed, Sending, Option, r
  <2>9. RecordsArePast' /\ FailuresAreCounted' /\ CallsAreTallied'
    BY <1>2, <1>3, <1>4, <1>5, <1>7
       DEF IInv, RecordsArePast, FailuresAreCounted, CallsAreTallied
  <2>10. "config" \in Places /\ "heartbeat" \in Places /\ now' \in now..MaxNow
    BY <1>2, <1>3 DEF Places
  <2>11. \A c \in Conditions : EmailIsMarked(c)'
    BY <1>2, <1>7, <2>4, <2>10, EmailsKept
  <2>12. /\ now' \in 0..MaxNow /\ record' \in Records /\ sent' \in [Conditions -> Days]
         /\ tally' \in Tallies /\ streak' \in Nat /\ called' \in Tallies
         /\ mails' \in [Conditions -> [day : Days, number : Nat, lost : Nat]]
         /\ faults' \in 0..MaxFaults
    BY <1>1, <1>2, <1>4, <1>5, <1>7 DEF TypeOK
  <2> QED BY <1>2, <1>7, <2>4, <2>6, <2>7, <2>8, <2>9, <2>10, <2>11, <2>12, HolderKeeps
<1>8. ASSUME NEW known \in {started, NoRecord},
             Caught(e, "heartbeat", [r EXCEPT !.started = known], {}),
             Faulty, UNCHANGED <<record, streak>>
      PROVE  IInv'
  <2> DEFINE thrown == [r EXCEPT !.started = known]
  <2>1. known \in Records
    BY <1>4, IdleFacts
  <2>2. /\ thrown \in Memories
        /\ thrown.entry = r.entry /\ thrown.started = known /\ ~thrown.written
        /\ thrown.loaded = r.loaded /\ thrown.tally = r.tally /\ thrown.row = 0
    BY <1>2, <1>3, <2>1 DEF Memories
  <2> HIDE DEF thrown, started
  <2>3. KnownWhenThrown(thrown)
    BY <1>1, <1>3, <1>4, <1>5, <2>2 DEF KnownWhenThrown, TallyIsCurrent
  <2>4. /\ "heartbeat" \in Places \ {"idle", "mark"}
        /\ {} \in SUBSET Conditions /\ \A c, d \in {} : c = d
        /\ now' \in now..MaxNow /\ faults' \in 0..MaxFaults
    BY <1>1, <1>2, <1>3, <1>8 DEF Places, Faulty, TypeOK
  <2>5. Caught(e, "heartbeat", thrown, {})
    BY <1>8 DEF thrown
  <2> QED BY <1>2, <1>8, <2>2, <2>3, <2>4, <2>5, CaughtKeeps
<1> QED BY <1>7, <1>8 DEF Heartbeat, Faultless

\* What an execution knows between its heartbeat and the end of its body.
LEMMA StartedFacts ==
    ASSUME IInv, NEW e \in Executions, pc[e] \in Starting \cup {"success"}
    PROVE  /\ run[e] \in Memories /\ KnownWhenThrown(run[e]) /\ lock = e
           /\ now \in 0..MaxNow /\ now \in now..MaxNow
           /\ pc[e] \in Places \ {"idle", "mark"}
<1>1. /\ TypeOK /\ HeartbeatIsDue(e) /\ TallyIsCurrent(e) /\ AlertIsRaised(e)
  BY DEF IInv
<1>2. run[e] \in Memories /\ lock = e /\ now \in 0..MaxNow
  BY <1>1 DEF TypeOK, Starting
<1>3. KnownWhenThrown(run[e])
  BY <1>1 DEF KnownWhenThrown, HeartbeatIsDue, TallyIsCurrent, AlertIsRaised, Option,
              Starting
<1> QED BY <1>2, <1>3 DEF Starting, Places

LEMMA LoadConfigKeeps ==
    ASSUME IInv, NEW e \in Executions, LoadConfig(e)
    PROVE  IInv'
<1> USE RunEntryAssumption
<1>1. /\ pc[e] = "config" /\ UNCHANGED <<now, lock, record, sent, tally, streak, mails, called>>
  BY DEF LoadConfig, Caught, Steps
<1>2. /\ run[e] \in Memories /\ KnownWhenThrown(run[e]) /\ lock = e
      /\ now' \in now..MaxNow /\ pc[e] \in Places \ {"idle", "mark"}
  BY <1>1, StartedFacts DEF Starting
<1>3. /\ TypeOK /\ HeartbeatIsDue(e) /\ TallyIsCurrent(e) /\ AlertIsRaised(e)
  BY DEF IInv
<1> DEFINE next == IF Option(e).tallies THEN "calls" ELSE "body"
<1>4. CASE Steps(e, "config", next, run[e]) /\ Faultless
  <2>1. next \in {"calls", "body"}
    OBVIOUS
  <2> HIDE DEF next
  <2>2. pc'[e] = next /\ run'[e] = run[e]
    BY <1>3, <1>4 DEF TypeOK, Steps
  <2>3. HeartbeatIsDue(e)' /\ TallyIsCurrent(e)' /\ AlertIsRaised(e)'
    BY <1>1, <1>3, <2>1, <2>2
       DEF HeartbeatIsDue, TallyIsCurrent, AlertIsRaised, Starting, Option
  <2>4. MarksAreCurrent(e)' /\ EmailIsOwed(e)'
    BY <2>1, <2>2 DEF MarksAreCurrent, EmailIsOwed, Sending
  <2>5. next \in Places /\ next # "idle" /\ faults' \in 0..MaxFaults
    BY <1>3, <1>4, <2>1 DEF Places, Faultless, TypeOK
  <2> QED BY <1>1, <1>2, <1>4, <2>3, <2>4, <2>5, ReadingKeeps
<1>5. CASE Caught(e, "config", run[e], {"config_invalid"}) /\ Faulty
  <2>1. /\ {"config_invalid"} \in SUBSET Conditions
        /\ \A c, d \in {"config_invalid"} : c = d
        /\ faults' \in 0..MaxFaults
    BY <1>3, <1>5 DEF Conditions, Faulty, TypeOK
  <2> QED BY <1>1, <1>2, <1>5, <2>1, CaughtKeeps
<1> QED BY <1>4, <1>5 DEF LoadConfig

LEMMA LoadCallsKeeps ==
    ASSUME IInv, NEW e \in Executions, LoadCalls(e)
    PROVE  IInv'
<1> USE RunEntryAssumption
<1>1. /\ pc[e] = "calls" /\ UNCHANGED <<now, lock, record, sent, tally, streak, mails, called>>
  BY DEF LoadCalls, Caught, Steps
<1>2. /\ run[e] \in Memories /\ KnownWhenThrown(run[e]) /\ lock = e
      /\ now' \in now..MaxNow /\ pc[e] \in Places \ {"idle", "mark"}
  BY <1>1, StartedFacts DEF Starting
<1>3. /\ TypeOK /\ HeartbeatIsDue(e) /\ AlertIsRaised(e)
  BY DEF IInv
<1> DEFINE day == Day(run[e].startedAt)
           loaded == GmailCallsForDay(tally, day)
           memory == [run[e] EXCEPT !.tally = loaded, !.loaded = TRUE, !.startedAt = Never]
<1>4. CASE Steps(e, "calls", "body", memory) /\ Faultless
  <2>1. day \in Days
    BY <1>2, DayFacts DEF Days, Memories
  <2>2. loaded \in Tallies /\ loaded.count = IF tally.day = loaded.day THEN tally.count ELSE 0
    BY <1>3, <2>1 DEF GmailCallsForDay, Tallies, TypeOK
  <2> HIDE DEF loaded
  <2>3. memory \in Memories
    <3>1. Never \in 0..MaxNow
      BY DEF Never
    <3> QED BY <1>2, <2>2, <3>1 DEF Memories
  <2>4. /\ memory.entry = run[e].entry /\ memory.started = run[e].started
        /\ memory.written = run[e].written /\ memory.row = run[e].row
        /\ memory.alerts = run[e].alerts /\ memory.loaded = TRUE /\ memory.tally = loaded
    BY <1>2 DEF Memories
  <2> HIDE DEF memory
  <2>5. pc'[e] = "body" /\ run'[e] = memory
    BY <1>3, <1>4 DEF TypeOK, Steps
  <2>6. HeartbeatIsDue(e)'
    BY <1>1, <1>3, <2>4, <2>5 DEF HeartbeatIsDue, Starting, Option
  <2>7. TallyIsCurrent(e)'
    BY <1>1, <2>2, <2>4, <2>5 DEF TallyIsCurrent
  <2>8. AlertIsRaised(e)'
    BY <1>1, <1>3, <2>4, <2>5 DEF AlertIsRaised, Starting, Option
  <2>9. MarksAreCurrent(e)' /\ EmailIsOwed(e)'
    BY <2>5 DEF MarksAreCurrent, EmailIsOwed, Sending
  <2>10. "calls" \in Places \ {"mark"} /\ "body" \in Places /\ faults' \in 0..MaxFaults
    BY <1>3, <1>4 DEF Places, Faultless, TypeOK
  <2> QED BY <1>1, <1>2, <1>4, <2>3, <2>6, <2>7, <2>8, <2>9, <2>10, ReadingKeeps
<1>5. CASE Caught(e, "calls", run[e], {}) /\ Faulty
  <2>1. /\ {} \in SUBSET Conditions /\ \A c, d \in {} : c = d /\ faults' \in 0..MaxFaults
    BY <1>3, <1>5 DEF Faulty, TypeOK
  <2>2. faults' \in 0..MaxFaults
    BY <1>3, <1>5 DEF Faulty, TypeOK
  <2> QED BY <1>1, <1>2, <1>5, <2>1, <2>2, CaughtKeeps
<1> QED BY <1>4, <1>5 DEF LoadCalls

LEMMA BodyKeeps ==
    ASSUME IInv, NEW e \in Executions, Body(e)
    PROVE  IInv'
<1> USE RunEntryAssumption
<1>1. PICK calls \in 0..MaxCalls, alerts \in BodyAlerts, scope \in MailScopes :
        LET memory == [run[e] EXCEPT
                !.calls = calls,
                !.alerts = Added(@, alerts),
                !.missing = IF alerts = {"scope_missing"} THEN {scope} ELSE {}]
        IN  \/ Steps(e, "body", IF Option(e).heartbeat THEN "success" ELSE AfterBody(e),
                     memory)
            \/ \E mapped \in MappedAlerts : Caught(e, "body", memory, mapped)
  BY DEF Body
<1> DEFINE raised == Added(run[e].alerts, alerts)
           missing == IF alerts = {"scope_missing"} THEN {scope} ELSE {}
           memory == [run[e] EXCEPT !.calls = calls, !.alerts = raised, !.missing = missing]
           next == IF Option(e).heartbeat THEN "success" ELSE AfterBody(e)
<1>2. /\ pc[e] = "body"
      /\ UNCHANGED <<now, lock, record, sent, tally, streak, mails, called, faults>>
  BY DEF Body, Caught, Steps, Faultless
<1>3. /\ run[e] \in Memories /\ KnownWhenThrown(run[e]) /\ lock = e
      /\ now' \in now..MaxNow /\ "body" \in Places \ {"idle", "mark"}
  BY <1>2, StartedFacts DEF Starting
<1>4. /\ TypeOK /\ HeartbeatIsDue(e) /\ TallyIsCurrent(e) /\ AlertIsRaised(e)
      /\ faults' \in 0..MaxFaults
  BY <1>2 DEF IInv, TypeOK
<1>5. /\ raised \in Alerts
      /\ \A i \in DOMAIN run[e].alerts : \E j \in DOMAIN raised : raised[j] = run[e].alerts[i]
  <2>1. alerts \in SUBSET Conditions /\ \A c, d \in alerts : c = d
    BY DEF BodyAlerts, Conditions
  <2>2. run[e].alerts \in Alerts
    BY <1>3 DEF Memories
  <2> QED BY <2>1, <2>2, AddedFacts
<1>6. missing \in SUBSET MailScopes /\ calls \in Nat
  OBVIOUS
<1>7. next \in {"success", "tally", "alerts"}
      /\ (next = "success" <=> Option(e).heartbeat)
      /\ (next = "tally" => run[e].loaded)
  BY DEF AfterBody
<1> HIDE DEF raised, missing, next
<1>8. memory \in Memories
  BY <1>3, <1>5, <1>6 DEF Memories
<1>9. /\ memory.entry = run[e].entry /\ memory.started = run[e].started
      /\ memory.written = run[e].written /\ memory.row = run[e].row
      /\ memory.alerts = raised /\ memory.loaded = run[e].loaded
      /\ memory.tally = run[e].tally
  BY <1>3 DEF Memories
<1>10. \/ Steps(e, "body", next, memory)
       \/ \E mapped \in MappedAlerts : Caught(e, "body", memory, mapped)
  BY <1>1 DEF raised, missing, next
<1> HIDE DEF memory
<1>11. CASE Steps(e, "body", next, memory)
  <2>1. pc'[e] = next /\ run'[e] = memory
    BY <1>4, <1>11 DEF TypeOK, Steps
  <2>2. HeartbeatIsDue(e)'
    BY <1>2, <1>4, <1>7, <1>9, <2>1 DEF HeartbeatIsDue, Starting, Option
  <2>3. TallyIsCurrent(e)'
    BY <1>2, <1>4, <1>7, <1>9, <2>1 DEF TallyIsCurrent
  <2>4. AlertIsRaised(e)'
    BY <1>2, <1>4, <1>5, <1>9, <2>1 DEF AlertIsRaised, Starting, Option
  <2>5. MarksAreCurrent(e)' /\ EmailIsOwed(e)'
    BY <1>7, <2>1 DEF MarksAreCurrent, EmailIsOwed, Sending
  <2>6. next \in Places /\ next # "idle"
    BY <1>7 DEF Places
  <2> QED BY <1>2, <1>3, <1>4, <1>8, <1>11, <2>2, <2>3, <2>4, <2>5, <2>6, ReadingKeeps
<1>12. ASSUME NEW mapped \in MappedAlerts, Caught(e, "body", memory, mapped)
       PROVE  IInv'
  <2>1. mapped \in SUBSET Conditions /\ \A c, d \in mapped : c = d
    BY DEF MappedAlerts, Conditions
  <2>2. KnownWhenThrown(memory)
    BY <1>3, <1>5, <1>9 DEF KnownWhenThrown
  <2> QED BY <1>2, <1>3, <1>4, <1>8, <1>9, <1>12, <2>1, <2>2, CaughtKeeps
<1> QED BY <1>10, <1>11, <1>12

\* Recording the end of a run makes the record finished.
LEMMA EndFacts ==
    ASSUME NEW r \in Records, NEW at \in 0..MaxNow, r.lastStart <= at
    PROVE  /\ RecordSuccess(r, at) \in Records /\ RecordFailure(r, at) \in Records
           /\ ~IsUnfinished(RecordSuccess(r, at)) /\ ~IsUnfinished(RecordFailure(r, at))
           /\ RecordSuccess(r, at).failures = 0
           /\ RecordFailure(r, at).failures = r.failures + 1
           /\ RecordSuccess(r, at).lastStart = r.lastStart
           /\ RecordFailure(r, at).lastStart = r.lastStart
           /\ RecordSuccess(r, at).lastEnd = at /\ RecordFailure(r, at).lastEnd = at
<1>1. r.failures + 1 \in Nat
  BY DEF Records
<1>2. RecordSuccess(r, at) \in Records
  BY DEF RecordSuccess, Records
<1>3. RecordFailure(r, at) \in Records
  BY <1>1 DEF RecordFailure, Records
<1>4. /\ RecordSuccess(r, at).failures = 0
      /\ RecordFailure(r, at).failures = r.failures + 1
      /\ RecordSuccess(r, at).lastStart = r.lastStart
      /\ RecordFailure(r, at).lastStart = r.lastStart
      /\ RecordSuccess(r, at).lastEnd = at /\ RecordFailure(r, at).lastEnd = at
  BY DEF RecordSuccess, RecordFailure, Records
<1>5. at \in Nat /\ r.lastStart \in Nat
  BY DEF Records
<1> QED BY <1>2, <1>3, <1>4, <1>5 DEF IsUnfinished

LEMMA SuccessKeeps ==
    ASSUME IInv, NEW e \in Executions, Success(e)
    PROVE  IInv'
<1> USE RunEntryAssumption
<1>1. PICK at \in now..MaxNow :
        /\ now' = at
        /\ \/ /\ record' = RecordSuccess(run[e].started, at)
              /\ streak' = 0
              /\ Steps(e, "success", AfterBody(e), [run[e] EXCEPT !.started = NoRecord])
              /\ Faultless
           \/ /\ Caught(e, "success", run[e], {})
              /\ Faulty
              /\ UNCHANGED <<record, streak>>
  BY DEF Success
<1>2. pc[e] = "success" /\ UNCHANGED <<lock, sent, tally, mails, called>>
  BY DEF Success, Caught, Steps
<1>3. /\ run[e] \in Memories /\ KnownWhenThrown(run[e]) /\ lock = e
      /\ now \in 0..MaxNow /\ now' \in now..MaxNow /\ now' \in 0..MaxNow
      /\ "success" \in Places \ {"idle", "mark"}
  BY <1>1, <1>2, StartedFacts
<1>4. /\ TypeOK /\ HeartbeatIsDue(e) /\ TallyIsCurrent(e) /\ AlertIsRaised(e)
  BY DEF IInv
<1>5. CASE /\ record' = RecordSuccess(run[e].started, at)
           /\ streak' = 0
           /\ Steps(e, "success", AfterBody(e), [run[e] EXCEPT !.started = NoRecord])
           /\ Faultless
  <2> DEFINE memory == [run[e] EXCEPT !.started = NoRecord]
             next == AfterBody(e)
  <2>1. next \in {"tally", "alerts"} /\ (next = "tally" => run[e].loaded)
    BY DEF AfterBody
  <2>2. run[e].started \in Records /\ run[e].started.lastStart <= at
    BY <1>1, <1>2, <1>3, <1>4 DEF Memories, HeartbeatIsDue, Records
  <2>3. /\ record' \in Records /\ ~IsUnfinished(record') /\ record'.failures = 0
        /\ record'.lastStart <= now' /\ record'.lastEnd <= now'
    BY <1>1, <1>3, <1>5, <2>2, EndFacts
  <2>4. /\ memory \in Memories
        /\ memory.entry = run[e].entry /\ memory.started = NoRecord
        /\ memory.written = run[e].written /\ memory.row = run[e].row
        /\ memory.alerts = run[e].alerts /\ memory.loaded = run[e].loaded
        /\ memory.tally = run[e].tally
    BY <1>3, IdleFacts DEF Memories
  <2> HIDE DEF memory, next
  <2>5. Steps(e, "success", next, memory)
    BY <1>5 DEF memory, next
  <2>6. pc'[e] = next /\ run'[e] = memory
    BY <1>4, <2>5 DEF TypeOK, Steps
  <2>7. HeartbeatIsDue(e)' /\ TallyIsCurrent(e)' /\ AlertIsRaised(e)'
    BY <1>2, <1>4, <2>1, <2>4, <2>6
       DEF HeartbeatIsDue, TallyIsCurrent, AlertIsRaised, Starting, Option
  <2>8. MarksAreCurrent(e)' /\ EmailIsOwed(e)'
    BY <2>1, <2>6 DEF MarksAreCurrent, EmailIsOwed, Sending
  <2>9. RecordsArePast' /\ FailuresAreCounted' /\ CallsAreTallied'
    BY <1>2, <1>5, <2>3
       DEF IInv, RecordsArePast, FailuresAreCounted, CallsAreTallied, IsUnfinished
  <2>10. next \in Places /\ next # "idle"
    BY <2>1 DEF Places
  <2>11. \A c \in Conditions : EmailIsMarked(c)'
    BY <1>2, <1>3, <2>4, <2>5, <2>10, EmailsKept
  <2>12. /\ sent' \in [Conditions -> Days] /\ tally' \in Tallies /\ streak' \in Nat
         /\ called' \in Tallies /\ faults' \in 0..MaxFaults
         /\ mails' \in [Conditions -> [day : Days, number : Nat, lost : Nat]]
    BY <1>2, <1>4, <1>5 DEF TypeOK, Faultless
  <2> QED BY <1>2, <1>3, <2>3, <2>4, <2>5, <2>7, <2>8, <2>9, <2>10, <2>11, <2>12, HolderKeeps
<1>6. CASE Caught(e, "success", run[e], {}) /\ Faulty /\ UNCHANGED <<record, streak>>
  <2>1. {} \in SUBSET Conditions /\ \A c, d \in {} : c = d
    OBVIOUS
  <2>2. faults' \in 0..MaxFaults
    BY <1>4, <1>6 DEF Faulty, TypeOK
  <2> QED BY <1>2, <1>3, <1>6, <2>1, <2>2, CaughtKeeps
<1> QED BY <1>1, <1>5, <1>6

LEMMA FailureKeeps ==
    ASSUME IInv, NEW e \in Executions, Failure(e)
    PROVE  IInv'
<1> USE RunEntryAssumption
<1> DEFINE memory == [run[e] EXCEPT !.started = NoRecord]
           next == AfterBody(e)
<1>1. /\ Steps(e, "failure", next, memory)
      /\ now' \in now..MaxNow
      /\ UNCHANGED <<lock, sent, tally, mails, called>>
      /\ \/ /\ record' = RecordFailure(run[e].started, now')
            /\ streak' = IF run[e].written THEN streak ELSE streak + 1
            /\ Faultless
         \/ Faulty /\ UNCHANGED <<record, streak>>
  BY DEF Failure
<1>2. TypeOK /\ RecordsArePast /\ HeartbeatIsDue(e) /\ TallyIsCurrent(e) /\ AlertIsRaised(e)
  BY DEF IInv
<1>3. /\ pc[e] = "failure" /\ run[e] \in Memories /\ lock = e
      /\ now \in 0..MaxNow /\ now' \in 0..MaxNow
  BY <1>1, <1>2 DEF Steps, TypeOK
<1>4. next \in {"tally", "alerts"} /\ (next = "tally" => run[e].loaded)
  BY DEF AfterBody
<1>5. /\ run[e].started \in Records /\ run[e].started.lastStart <= now
      /\ run[e].started.failures + (IF run[e].written THEN 1 ELSE 0) = streak
  BY <1>2, <1>3 DEF Memories, HeartbeatIsDue
<1>6. /\ memory \in Memories
      /\ memory.entry = run[e].entry /\ memory.started = NoRecord
      /\ memory.written = run[e].written /\ memory.row = run[e].row
      /\ memory.alerts = run[e].alerts /\ memory.loaded = run[e].loaded
      /\ memory.tally = run[e].tally
  BY <1>3, IdleFacts DEF Memories
<1> HIDE DEF memory, next
<1>7. pc'[e] = next /\ run'[e] = memory
  BY <1>1, <1>2 DEF TypeOK, Steps
<1>8. /\ record' \in Records /\ streak' \in Nat /\ faults' \in 0..MaxFaults
      /\ RecordsArePast' /\ FailuresAreCounted'
  <2>1. CASE /\ record' = RecordFailure(run[e].started, now')
             /\ streak' = IF run[e].written THEN streak ELSE streak + 1
             /\ Faultless
    <3>1. run[e].started.lastStart <= now'
      BY <1>1, <1>3, <1>5 DEF Records
    <3>2. /\ record' \in Records /\ ~IsUnfinished(record')
          /\ record'.failures = run[e].started.failures + 1
          /\ record'.lastStart <= now' /\ record'.lastEnd <= now'
      BY <1>3, <1>5, <2>1, <3>1, EndFacts
    <3>3. run[e].started.failures \in Nat /\ streak \in Nat
      BY <1>2, <1>5 DEF Records, TypeOK
    <3>4. streak' = run[e].started.failures + 1
      BY <1>5, <2>1, <3>3
    <3> QED BY <1>2, <2>1, <3>2, <3>3, <3>4
            DEF RecordsArePast, FailuresAreCounted, IsUnfinished, TypeOK, Faultless
  <2>2. CASE Faulty /\ UNCHANGED <<record, streak>>
    BY <1>1, <1>2, <1>3, <2>2
       DEF IInv, RecordsArePast, FailuresAreCounted, IsUnfinished, TypeOK, Faulty, Records
  <2> QED BY <1>1, <2>1, <2>2
<1>9. HeartbeatIsDue(e)' /\ TallyIsCurrent(e)' /\ AlertIsRaised(e)'
  BY <1>1, <1>2, <1>3, <1>4, <1>6, <1>7
     DEF HeartbeatIsDue, TallyIsCurrent, AlertIsRaised, Starting, Option
<1>10. MarksAreCurrent(e)' /\ EmailIsOwed(e)'
  BY <1>4, <1>7 DEF MarksAreCurrent, EmailIsOwed, Sending
<1>11. next \in Places /\ next # "idle"
  BY <1>4 DEF Places
<1>12. \A c \in Conditions : EmailIsMarked(c)'
  BY <1>1, <1>3, <1>6, <1>11, EmailsKept
<1>13. CallsAreTallied'
  BY <1>1 DEF IInv, CallsAreTallied
<1>14. /\ sent' \in [Conditions -> Days] /\ tally' \in Tallies
       /\ called' \in Tallies
       /\ mails' \in [Conditions -> [day : Days, number : Nat, lost : Nat]]
  BY <1>1, <1>2 DEF TypeOK
<1> QED BY <1>1, <1>3, <1>6, <1>8, <1>9, <1>10, <1>11, <1>12, <1>13, <1>14, HolderKeeps

LEMMA SaveCallsKeeps ==
    ASSUME IInv, NEW e \in Executions, SaveCalls(e)
    PROVE  IInv'
<1> USE RunEntryAssumption
<1> DEFINE loaded == run[e].tally
           memory == [run[e] EXCEPT !.tally = Idle.tally, !.loaded = FALSE, !.calls = 0]
<1>1. /\ Steps(e, "tally", "alerts", memory)
      /\ UNCHANGED <<now, lock, record, sent, streak, mails>>
      /\ \/ /\ tally' = [loaded EXCEPT !.count = @ + run[e].calls]
            /\ called' = [day |-> loaded.day,
                          count |-> run[e].calls
                                    + IF called.day = loaded.day THEN called.count ELSE 0]
            /\ Faultless
         \/ Faulty /\ UNCHANGED <<tally, called>>
  BY DEF SaveCalls
<1>2. TypeOK /\ HeartbeatIsDue(e) /\ TallyIsCurrent(e) /\ AlertIsRaised(e)
      /\ CallsAreTallied
  BY DEF IInv
<1>3. /\ pc[e] = "tally" /\ run[e] \in Memories /\ lock = e /\ now \in 0..MaxNow
  BY <1>1, <1>2 DEF Steps, TypeOK
<1>4. Idle.tally \in Tallies
  BY IdleFacts DEF Memories
<1>5. /\ memory \in Memories
      /\ memory.entry = run[e].entry /\ memory.started = run[e].started
      /\ memory.written = run[e].written /\ memory.row = run[e].row
      /\ memory.alerts = run[e].alerts /\ memory.loaded = FALSE
  BY <1>3, <1>4 DEF Memories
<1> HIDE DEF memory
<1>6. pc'[e] = "alerts" /\ run'[e] = memory
  BY <1>1, <1>2 DEF TypeOK, Steps
<1>7. /\ tally' \in Tallies /\ called' \in Tallies /\ faults' \in 0..MaxFaults
      /\ CallsAreTallied'
  <2>1. CASE /\ tally' = [loaded EXCEPT !.count = @ + run[e].calls]
             /\ called' = [day |-> loaded.day,
                           count |-> run[e].calls
                                     + IF called.day = loaded.day THEN called.count ELSE 0]
             /\ Faultless
    <3>1. loaded \in Tallies /\ run[e].calls \in Nat
      BY <1>3 DEF Memories
    <3>2. loaded.count = IF called.day = loaded.day THEN called.count ELSE 0
      BY <1>2, <1>3 DEF TallyIsCurrent, CallsAreTallied
    <3>3. called' = [day |-> loaded.day, count |-> run[e].calls + loaded.count]
      BY <2>1, <3>2
    <3>4. loaded.count + run[e].calls \in Nat
          /\ loaded.count + run[e].calls = run[e].calls + loaded.count
      BY <3>1 DEF Tallies
    <3>5. tally' = [day |-> loaded.day, count |-> loaded.count + run[e].calls]
      BY <2>1, <3>1, Zenon DEF Tallies
    <3> QED BY <1>2, <2>1, <3>1, <3>3, <3>4, <3>5 DEF Tallies, CallsAreTallied, Faultless,
                                                     TypeOK
  <2>2. CASE Faulty /\ UNCHANGED <<tally, called>>
    BY <1>2, <2>2 DEF Faulty, TypeOK, CallsAreTallied
  <2> QED BY <1>1, <2>1, <2>2
<1>8. HeartbeatIsDue(e)' /\ TallyIsCurrent(e)' /\ AlertIsRaised(e)'
  BY <1>1, <1>2, <1>3, <1>5, <1>6
     DEF HeartbeatIsDue, TallyIsCurrent, AlertIsRaised, Starting, Option
<1>9. MarksAreCurrent(e)' /\ EmailIsOwed(e)'
  BY <1>6 DEF MarksAreCurrent, EmailIsOwed, Sending
<1>10. "alerts" \in Places /\ now' \in now..MaxNow
  BY <1>1, <1>3 DEF Places
<1>11. \A c \in Conditions : EmailIsMarked(c)'
  BY <1>1, <1>3, <1>5, <1>10, EmailsKept
<1>12. RecordsArePast' /\ FailuresAreCounted'
  BY <1>1 DEF IInv, RecordsArePast, FailuresAreCounted
<1>13. /\ now' \in 0..MaxNow /\ record' \in Records /\ sent' \in [Conditions -> Days]
       /\ streak' \in Nat
       /\ mails' \in [Conditions -> [day : Days, number : Nat, lost : Nat]]
  BY <1>1, <1>2 DEF TypeOK
<1> QED BY <1>1, <1>3, <1>5, <1>7, <1>8, <1>9, <1>10, <1>11, <1>12, <1>13, HolderKeeps

\* A condition that was sent today is mailed today.
LEMMA SentToday ==
    ASSUME IInv, NEW c \in Conditions, NEW at \in now..MaxNow, sent[c] = Day(at)
    PROVE  Mailed(c, Day(at))
<1>1. TypeOK /\ EmailIsMarked(c)
  BY DEF IInv
<1>2. /\ Day(now) <= Day(at) /\ Day(now) \in Nat /\ Day(at) \in Nat /\ 1 <= Day(at)
  BY <1>1, RunEntryAssumption, DayFacts DEF TypeOK
<1>3. mails[c].day \in Nat
  BY <1>1 DEF TypeOK, Days
<1> QED BY <1>1, <1>2, <1>3 DEF EmailIsMarked, Mailed

LEMMA DeliverKeeps ==
    ASSUME IInv, NEW e \in Executions, Deliver(e)
    PROVE  IInv'
<1> USE RunEntryAssumption
<1>1. PICK at \in now..MaxNow :
          LET today == Day(at)
              due == Due(run[e].alerts, today)
              none == \/ ~Option(e).mails
                      \/ due = {}
              over == [run[e] EXCEPT !.alerts = <<>>, !.missing = {}, !.today = today]
          IN  /\ now' = at
              /\ \/ none /\ Steps(e, "alerts", "unlock", over) /\ Faultless
                 \/ /\ ~none /\ run[e].missing # {}
                    /\ Steps(e, "alerts", "unlock", [over EXCEPT !.excused = TRUE])
                    /\ Faultless
                 \/ /\ ~none /\ run[e].missing = {}
                    /\ Steps(e, "alerts", "send",
                             [run[e] EXCEPT !.today = today, !.due = due, !.marks = sent])
                    /\ Faultless
                 \/ /\ ~none
                    /\ Steps(e, "alerts", "unlock", [over EXCEPT !.excused = TRUE])
                    /\ Faulty
  BY DEF Deliver
<1> DEFINE today == Day(at)
           due == Due(run[e].alerts, today)
           over == [run[e] EXCEPT !.alerts = <<>>, !.missing = {}, !.today = today]
           excused == [over EXCEPT !.excused = TRUE]
           sending == [run[e] EXCEPT !.today = today, !.due = due, !.marks = sent]
<1>2. TypeOK /\ HeartbeatIsDue(e) /\ TallyIsCurrent(e) /\ AlertIsRaised(e)
  BY DEF IInv
<1>3. /\ pc[e] = "alerts" /\ run[e] \in Memories /\ lock = e
      /\ now \in 0..MaxNow /\ now' = at /\ now' \in now..MaxNow
      /\ UNCHANGED <<lock, record, sent, tally, streak, mails, called>>
      /\ faults' \in 0..MaxFaults
  BY <1>1, <1>2 DEF Deliver, Steps, TypeOK, Faulty, Faultless
<1>4. today \in Days /\ today = Day(now')
  BY <1>3, DayFacts DEF Days
<1>5. /\ due \subseteq DOMAIN run[e].alerts /\ due \in SUBSET Nat
      /\ \A i \in DOMAIN run[e].alerts : i \in due <=> sent[run[e].alerts[i]] # today
      /\ \A i \in DOMAIN run[e].alerts : run[e].alerts[i] \in Conditions
  <2>1. run[e].alerts \in Seq(Conditions)
    BY <1>3 DEF Memories, Alerts
  <2> QED BY <2>1 DEF Due
<1>6. run[e].row >= Threshold =>
         /\ Option(e).mails
         /\ \E i \in DOMAIN run[e].alerts : run[e].alerts[i] = "run_failures"
  BY <1>2, <1>3 DEF AlertIsRaised, Memories
<1> HIDE DEF today, due
<1>7. /\ over \in Memories /\ over.today = today
      /\ over.entry = run[e].entry /\ over.started = run[e].started
      /\ over.written = run[e].written /\ over.row = run[e].row
      /\ over.loaded = run[e].loaded /\ over.tally = run[e].tally
  <2>1. <<>> \in Alerts
    BY DEF Alerts
  <2> QED BY <1>3, <1>4, <2>1 DEF Memories
<1> HIDE DEF over
<1>8. /\ excused \in Memories /\ excused.today = today /\ excused.excused = TRUE
      /\ excused.entry = run[e].entry /\ excused.started = run[e].started
      /\ excused.written = run[e].written /\ excused.row = run[e].row
      /\ excused.loaded = run[e].loaded /\ excused.tally = run[e].tally
  BY <1>7 DEF Memories
<1>9. /\ sending \in Memories /\ sending.today = today /\ sending.due = due
      /\ sending.marks = sent /\ sending.alerts = run[e].alerts
      /\ sending.entry = run[e].entry /\ sending.started = run[e].started
      /\ sending.written = run[e].written /\ sending.row = run[e].row
      /\ sending.loaded = run[e].loaded /\ sending.tally = run[e].tally
  <2>1. sent \in [Conditions -> Days]
    BY <1>2 DEF TypeOK
  <2> QED BY <1>3, <1>4, <1>5, <2>1 DEF Memories
<1> HIDE DEF excused, sending
<1>10. "alerts" \in Places \ {"mark"} /\ "unlock" \in Places /\ "send" \in Places
  BY DEF Places
<1>11. ASSUME NEW memory \in {over, excused}, Steps(e, "alerts", "unlock", memory),
              memory = excused \/ ~Option(e).mails \/ due = {}
       PROVE  IInv'
  <2>1. pc'[e] = "unlock" /\ run'[e] = memory /\ memory \in Memories
    BY <1>2, <1>7, <1>8, <1>11 DEF TypeOK, Steps
  <2>2. HeartbeatIsDue(e)'
    BY <1>2, <1>3, <1>7, <1>8, <2>1 DEF HeartbeatIsDue, Starting, Option, Memories, Records
  <2>3. TallyIsCurrent(e)' /\ AlertIsRaised(e)'
    BY <1>2, <1>3, <1>7, <1>8, <2>1 DEF TallyIsCurrent, AlertIsRaised, Starting, Option
  <2>4. MarksAreCurrent(e)'
    BY <1>4, <1>7, <1>8, <2>1 DEF MarksAreCurrent, Sending
  <2>5. EmailIsOwed(e)'
    <3>1. CASE memory = excused
      BY <1>8, <2>1, <3>1 DEF EmailIsOwed, Sending
    <3>2. CASE memory # excused /\ run[e].row >= Threshold
      <4>1. sent["run_failures"] = today
        BY <1>5, <1>6, <1>11, <3>2
      <4>2. Mailed("run_failures", today)
        BY <4>1, SentToday DEF today, Conditions
      <4>3. Mailed("run_failures", today)'
        BY <1>3, <4>2 DEF Mailed, today
      <4> QED BY <1>7, <2>1, <3>2, <4>3 DEF EmailIsOwed, Sending, Mailed
    <3>3. CASE memory # excused /\ ~(run[e].row >= Threshold)
      BY <1>7, <2>1, <3>3 DEF EmailIsOwed
    <3> QED BY <3>1, <3>2, <3>3
  <2> QED BY <1>3, <1>10, <1>11, <2>1, <2>2, <2>3, <2>4, <2>5, ReadingKeeps
<1>12. CASE Steps(e, "alerts", "send", sending)
  <2>1. pc'[e] = "send" /\ run'[e] = sending
    BY <1>2, <1>12 DEF TypeOK, Steps
  <2>2. HeartbeatIsDue(e)'
    BY <1>2, <1>3, <1>9, <2>1 DEF HeartbeatIsDue, Starting, Option, Memories, Records
  <2>3. TallyIsCurrent(e)' /\ AlertIsRaised(e)'
    BY <1>2, <1>3, <1>9, <2>1 DEF TallyIsCurrent, AlertIsRaised, Starting, Option
  <2>4. MarksAreCurrent(e)'
    BY <1>3, <1>4, <1>5, <1>9, <2>1 DEF MarksAreCurrent, Sending
  <2>5. EmailIsOwed(e)'
    <3>1. CASE run[e].row >= Threshold
      <4>1. PICK i \in DOMAIN run[e].alerts : run[e].alerts[i] = "run_failures"
        BY <1>6, <3>1
      <4>2. CASE i \in due
        BY <1>9, <2>1, <4>1, <4>2 DEF EmailIsOwed, Sending
      <4>3. CASE i \notin due
        <5>1. Mailed("run_failures", today)
          BY <1>5, <4>1, <4>3, SentToday DEF today
        <5>2. Mailed("run_failures", today)'
          BY <1>3, <5>1 DEF Mailed, today
        <5> QED BY <1>9, <2>1, <5>2 DEF EmailIsOwed, Sending, Mailed
      <4> QED BY <4>2, <4>3
    <3>2. CASE ~(run[e].row >= Threshold)
      BY <1>9, <2>1, <3>2 DEF EmailIsOwed
    <3> QED BY <3>1, <3>2
  <2> QED BY <1>3, <1>9, <1>10, <1>12, <2>2, <2>3, <2>4, <2>5, ReadingKeeps
<1> QED
  <2>1. \/ Steps(e, "alerts", "unlock", over) /\ (~Option(e).mails \/ due = {})
        \/ Steps(e, "alerts", "unlock", excused) /\ Option(e).mails /\ due # {}
        \/ Steps(e, "alerts", "send", sending)
    BY <1>1 DEF today, due, over, excused, sending
  <2> QED BY <1>11, <1>12, <2>1

\* The alerts of a run are in one place each, so the next one is one condition.
LEMMA NextFacts ==
    ASSUME IInv, NEW e \in Executions, pc[e] \in Sending, NEW c \in Conditions, IsNext(e, c)
    PROVE  /\ \A d \in Conditions : IsNext(e, d) => d = c
           /\ sent[c] # run[e].today
           /\ \E i \in run[e].due : run[e].alerts[i] = c
           /\ run[e] \in Memories /\ lock = e /\ now \in 0..MaxNow
           /\ run[e].today = Day(now) /\ run[e].today \in Nat /\ run[e].today >= 1
<1>1. TypeOK /\ MarksAreCurrent(e)
  BY DEF IInv
<1>2. run[e] \in Memories /\ lock = e /\ now \in 0..MaxNow
  BY <1>1 DEF TypeOK, Sending
<1>3. run[e].due \in SUBSET Nat
  BY <1>2 DEF Memories
<1>4. run[e].today = Day(now) /\ run[e].today \in Nat /\ run[e].today >= 1
  BY <1>1, <1>2, RunEntryAssumption, DayFacts DEF MarksAreCurrent
<1>5. PICK i \in run[e].due : run[e].alerts[i] = c /\ \A j \in run[e].due : i <= j
  BY DEF IsNext
<1>6. \A d \in Conditions : IsNext(e, d) => d = c
  BY <1>3, <1>5 DEF IsNext
<1>7. sent[c] # run[e].today
  BY <1>1, <1>5 DEF MarksAreCurrent
<1> QED BY <1>2, <1>4, <1>5, <1>6, <1>7

LEMMA SendKeeps ==
    ASSUME IInv, NEW e \in Executions, Send(e)
    PROVE  IInv'
<1> USE RunEntryAssumption
<1>1. /\ UNCHANGED <<now, lock, record, sent, tally, streak, called>>
      /\ pc[e] = "send"
  BY DEF Send, Steps
<1>2. /\ TypeOK /\ HeartbeatIsDue(e) /\ TallyIsCurrent(e) /\ AlertIsRaised(e)
      /\ MarksAreCurrent(e) /\ EmailIsOwed(e)
  BY DEF IInv
<1>3. /\ run[e] \in Memories /\ lock = e /\ now' \in now..MaxNow
      /\ "send" \in Places \ {"mark"} /\ "unlock" \in Places /\ "mark" \in Places
  BY <1>1, <1>2 DEF TypeOK, Places
<1>4. CASE Steps(e, "send", "unlock", [run[e] EXCEPT !.excused = TRUE]) /\ Faulty
           /\ UNCHANGED mails
  <2> DEFINE memory == [run[e] EXCEPT !.excused = TRUE]
  <2>1. /\ memory \in Memories /\ memory.today = run[e].today /\ memory.excused = TRUE
        /\ memory.entry = run[e].entry /\ memory.started = run[e].started
        /\ memory.written = run[e].written /\ memory.row = run[e].row
        /\ memory.loaded = run[e].loaded /\ memory.tally = run[e].tally
    BY <1>3 DEF Memories
  <2> HIDE DEF memory
  <2>2. Steps(e, "send", "unlock", memory)
    BY <1>4 DEF memory
  <2>3. pc'[e] = "unlock" /\ run'[e] = memory
    BY <1>2, <2>2 DEF TypeOK, Steps
  <2>4. HeartbeatIsDue(e)' /\ TallyIsCurrent(e)' /\ AlertIsRaised(e)'
    BY <1>1, <1>2, <2>1, <2>3
       DEF HeartbeatIsDue, TallyIsCurrent, AlertIsRaised, Starting, Option
  <2>5. MarksAreCurrent(e)' /\ EmailIsOwed(e)'
    BY <1>1, <1>2, <2>1, <2>3 DEF MarksAreCurrent, EmailIsOwed, Sending
  <2>6. faults' \in 0..MaxFaults
    BY <1>2, <1>4 DEF Faulty, TypeOK
  <2> QED BY <1>1, <1>3, <1>4, <2>1, <2>2, <2>4, <2>5, <2>6, ReadingKeeps
<1>5. ASSUME NEW c \in Conditions, IsNext(e, c), Faultless,
             Steps(e, "send", "mark", [run[e] EXCEPT !.marks[c] = run[e].today]),
             mails' = [mails EXCEPT ![c] = Counted(@, run[e].today, 1, 0)]
      PROVE  IInv'
  <2> DEFINE today == run[e].today
             memory == [run[e] EXCEPT !.marks[c] = today]
  <2>1. /\ \A d \in Conditions : IsNext(e, d) => d = c
        /\ sent[c] # today /\ today = Day(now) /\ today \in Nat /\ today >= 1
        /\ today \in Days
    BY <1>1, <1>3, <1>5, NextFacts DEF Sending, Memories
  <2>2. /\ memory \in Memories /\ memory.today = today /\ memory.due = run[e].due
        /\ memory.alerts = run[e].alerts /\ memory.marks = [sent EXCEPT ![c] = today]
        /\ memory.entry = run[e].entry /\ memory.started = run[e].started
        /\ memory.written = run[e].written /\ memory.row = run[e].row
        /\ memory.loaded = run[e].loaded /\ memory.tally = run[e].tally
    BY <1>1, <1>2, <1>3, <2>1 DEF Memories, MarksAreCurrent
  <2> HIDE DEF memory, today
  <2>3. Steps(e, "send", "mark", memory)
    BY <1>5 DEF memory, today
  <2>4. pc'[e] = "mark" /\ run'[e] = memory
    BY <1>2, <2>3 DEF TypeOK, Steps
  <2>5. \A d \in Conditions : IsNext(e, d)' <=> IsNext(e, d)
    BY <2>2, <2>4 DEF IsNext
  <2>6. /\ mails[c].day \in Days /\ mails[c].number \in Nat /\ mails[c].lost \in Nat
        /\ mails[c] \in [day : Days, number : Nat, lost : Nat]
    BY <1>2 DEF TypeOK
  <2>7. /\ mails' \in [Conditions -> [day : Days, number : Nat, lost : Nat]]
        /\ mails'[c].day = today
        /\ mails'[c].number = 1 + IF mails[c].day = today THEN mails[c].number ELSE 0
        /\ mails'[c].lost = IF mails[c].day = today THEN mails[c].lost ELSE 0
        /\ \A d \in Conditions \ {c} : mails'[d] = mails[d]
    <3>1. mails'[c] = Counted(mails[c], today, 1, 0)
          /\ \A d \in Conditions \ {c} : mails'[d] = mails[d]
      BY <1>2, <1>5 DEF TypeOK, today
    <3>2. /\ Counted(mails[c], today, 1, 0) \in [day : Days, number : Nat, lost : Nat]
          /\ Counted(mails[c], today, 1, 0).day = today
          /\ Counted(mails[c], today, 1, 0).number
                = 1 + IF mails[c].day = today THEN mails[c].number ELSE 0
          /\ Counted(mails[c], today, 1, 0).lost
                = IF mails[c].day = today THEN mails[c].lost ELSE 0
      <4>1. CASE mails[c].day = today
        <5>1. /\ mails[c].number + 1 \in Nat /\ mails[c].lost + 0 = mails[c].lost
              /\ mails[c].number + 1 = 1 + mails[c].number
          BY <2>6
        <5>2. Counted(mails[c], today, 1, 0)
                = [mails[c] EXCEPT !.number = mails[c].number + 1, !.lost = mails[c].lost + 0]
          BY <4>1 DEF Counted
        <5> QED BY <2>6, <4>1, <5>1, <5>2
      <4>2. CASE mails[c].day # today
        BY <2>1, <2>6, <4>2 DEF Counted
      <4> QED BY <4>1, <4>2
    <3>3. DOMAIN mails' = Conditions /\ mails' = [d \in Conditions |-> mails'[d]]
      BY <1>2, <1>5 DEF TypeOK
    <3>4. \A d \in Conditions : mails'[d] \in [day : Days, number : Nat, lost : Nat]
      BY <1>2, <3>1, <3>2 DEF TypeOK
    <3> QED BY <3>1, <3>2, <3>3, <3>4
  <2>8. HeartbeatIsDue(e)' /\ TallyIsCurrent(e)' /\ AlertIsRaised(e)'
    BY <1>1, <1>2, <2>2, <2>4
       DEF HeartbeatIsDue, TallyIsCurrent, AlertIsRaised, Starting, Option
  <2>9. MarksAreCurrent(e)'
    BY <1>1, <1>2, <2>1, <2>2, <2>4, <2>5, <2>6, <2>7 DEF MarksAreCurrent, Sending
  <2>10. EmailIsOwed(e)'
    <3>1. CASE c = "run_failures"
      BY <1>1, <1>2, <2>2, <2>4, <2>6, <2>7, <3>1 DEF EmailIsOwed, Sending, Mailed
    <3>2. CASE c # "run_failures"
      BY <1>1, <1>2, <2>2, <2>4, <2>7, <3>2 DEF EmailIsOwed, Sending, Mailed, Conditions, today
    <3> QED BY <3>1, <3>2
  <2>11. ASSUME NEW d \in Conditions PROVE EmailIsMarked(d)'
    <3>1. EmailIsMarked(d)
      BY DEF IInv
    <3>2. \A f \in Executions : pc[f] # "mark"
      BY <1>1, <1>2, <1>3 DEF TypeOK
    <3>3. CASE d = c
      <4>1. sent[c] \in Nat /\ mails[c].day \in Nat
        BY <1>2, <2>6, DayFacts DEF TypeOK, Days
      <4>2. IsNext(e, c)'
        BY <1>5, <2>5
      <4>3. mails[c].day = today => mails[c].number <= mails[c].lost
        BY <2>1, <3>1, <3>2, <3>3 DEF EmailIsMarked
      <4>4. sent[c] <= today
        BY <1>2, <2>1, <2>6, <3>1, <3>3, <4>1 DEF EmailIsMarked
      <4> QED BY <1>1, <2>1, <2>2, <2>4, <2>6, <2>7, <3>3, <4>1, <4>2, <4>3, <4>4
              DEF EmailIsMarked
    <3>4. CASE d # c
      BY <1>1, <2>7, <3>1, <3>2, <3>4 DEF EmailIsMarked
    <3> QED BY <3>3, <3>4
  <2>12. RecordsArePast' /\ FailuresAreCounted' /\ CallsAreTallied'
    BY <1>1 DEF IInv, RecordsArePast, FailuresAreCounted, CallsAreTallied
  <2>13. /\ now' \in 0..MaxNow /\ record' \in Records /\ sent' \in [Conditions -> Days]
         /\ tally' \in Tallies /\ streak' \in Nat /\ called' \in Tallies
         /\ faults' \in 0..MaxFaults
    BY <1>1, <1>2, <1>5 DEF TypeOK, Faultless
  <2>14. lock' = IF "mark" = "idle" THEN NoOne ELSE e
    BY <1>1, <1>3
  <2> QED BY <1>3, <2>2, <2>3, <2>7, <2>8, <2>9, <2>10, <2>11, <2>12, <2>13, <2>14, HolderKeeps
<1> QED BY <1>4, <1>5 DEF Send

\* Losing a mark keeps the account of the emails.
LEMMA LosesMarkFacts ==
    ASSUME IInv, NEW e \in Executions, pc[e] = "mark", LosesMark(e), UNCHANGED <<now, sent>>
    PROVE  /\ mails' \in [Conditions -> [day : Days, number : Nat, lost : Nat]]
           /\ \A d \in Conditions : EmailIsMarked(d)'
<1>1. TypeOK /\ MarksAreCurrent(e)
  BY DEF IInv
<1>2. PICK c \in Conditions :
        /\ IsNext(e, c)
        /\ mails' = [mails EXCEPT ![c] = Counted(@, run[e].today, 0, 1)]
  BY DEF LosesMark
<1>3. /\ \A d \in Conditions : IsNext(e, d) => d = c
      /\ lock = e
  BY <1>2, NextFacts DEF Sending
<1>4. mails[c].day = run[e].today /\ mails[c].number > 0
  BY <1>1, <1>2 DEF MarksAreCurrent
<1>5. mails[c] \in [day : Days, number : Nat, lost : Nat]
  BY <1>1 DEF TypeOK
<1>6. /\ mails[c].number + 0 = mails[c].number /\ mails[c].lost + 1 \in Nat
      /\ mails[c].number \in Nat /\ mails[c].lost \in Nat
  BY <1>5
<1> DEFINE m == [mails[c] EXCEPT !.number = mails[c].number, !.lost = mails[c].lost + 1]
<1>7. /\ mails'[c] = m
      /\ \A d \in Conditions \ {c} : mails'[d] = mails[d]
  BY <1>1, <1>2, <1>4, <1>6 DEF TypeOK, Counted
<1>8. /\ m \in [day : Days, number : Nat, lost : Nat]
      /\ m.day = mails[c].day /\ m.number = mails[c].number /\ m.lost = mails[c].lost + 1
  BY <1>5, <1>6
<1> HIDE DEF m
<1>9. mails' \in [Conditions -> [day : Days, number : Nat, lost : Nat]]
  <2>1. mails' = [d \in Conditions |-> mails'[d]]
    BY <1>1, <1>2 DEF TypeOK
  <2>2. \A d \in Conditions : mails'[d] \in [day : Days, number : Nat, lost : Nat]
    BY <1>1, <1>7, <1>8 DEF TypeOK
  <2> QED BY <2>1, <2>2
<1>10. ASSUME NEW d \in Conditions PROVE EmailIsMarked(d)'
  <2>1. EmailIsMarked(d)
    BY DEF IInv
  <2>2. CASE d = c
    <3>1. mails[c].number <= mails[c].lost + 1
      BY <1>6, <2>1, <2>2 DEF EmailIsMarked
    <3> QED BY <1>4, <1>7, <1>8, <2>1, <2>2, <3>1 DEF EmailIsMarked
  <2>3. CASE d # c
    <3>1. \A f \in Executions : ~(pc[f] = "mark" /\ IsNext(f, d))
      BY <1>1, <1>3, <2>3 DEF TypeOK
    <3> QED BY <1>7, <2>1, <2>3, <3>1 DEF EmailIsMarked
  <2> QED BY <2>2, <2>3
<1> QED BY <1>9, <1>10

LEMMA MarkKeeps ==
    ASSUME IInv, NEW e \in Executions, Mark(e)
    PROVE  IInv'
<1> USE RunEntryAssumption
<1>1. /\ UNCHANGED <<now, lock, record, tally, streak, called>>
      /\ pc[e] = "mark"
  BY DEF Mark, Steps
<1>2. /\ TypeOK /\ HeartbeatIsDue(e) /\ TallyIsCurrent(e) /\ AlertIsRaised(e)
      /\ MarksAreCurrent(e) /\ EmailIsOwed(e)
  BY DEF IInv
<1>3. /\ run[e] \in Memories /\ lock = e /\ now \in 0..MaxNow
      /\ "mark" \in Places /\ "unlock" \in Places /\ "send" \in Places
  BY <1>1, <1>2 DEF TypeOK, Places
<1>4. RecordsArePast' /\ FailuresAreCounted' /\ CallsAreTallied'
  BY <1>1 DEF IInv, RecordsArePast, FailuresAreCounted, CallsAreTallied
<1>5. /\ now' \in 0..MaxNow /\ record' \in Records /\ tally' \in Tallies
      /\ streak' \in Nat /\ called' \in Tallies
  BY <1>1, <1>2 DEF TypeOK
<1>6. CASE /\ Steps(e, "mark", "unlock", [run[e] EXCEPT !.excused = TRUE])
           /\ LosesMark(e) /\ Faulty /\ UNCHANGED sent
  <2> DEFINE memory == [run[e] EXCEPT !.excused = TRUE]
  <2>1. /\ memory \in Memories /\ memory.today = run[e].today /\ memory.excused = TRUE
        /\ memory.entry = run[e].entry /\ memory.started = run[e].started
        /\ memory.written = run[e].written /\ memory.row = run[e].row
        /\ memory.loaded = run[e].loaded /\ memory.tally = run[e].tally
    BY <1>3 DEF Memories
  <2> HIDE DEF memory
  <2>2. Steps(e, "mark", "unlock", memory)
    BY <1>6 DEF memory
  <2>3. pc'[e] = "unlock" /\ run'[e] = memory
    BY <1>2, <2>2 DEF TypeOK, Steps
  <2>4. HeartbeatIsDue(e)' /\ TallyIsCurrent(e)' /\ AlertIsRaised(e)'
    BY <1>1, <1>2, <2>1, <2>3
       DEF HeartbeatIsDue, TallyIsCurrent, AlertIsRaised, Starting, Option
  <2>5. MarksAreCurrent(e)' /\ EmailIsOwed(e)'
    BY <1>1, <1>2, <2>1, <2>3 DEF MarksAreCurrent, EmailIsOwed, Sending
  <2>6. faults' \in 0..MaxFaults /\ sent' \in [Conditions -> Days]
    BY <1>2, <1>6 DEF Faulty, TypeOK
  <2>7. /\ mails' \in [Conditions -> [day : Days, number : Nat, lost : Nat]]
        /\ \A d \in Conditions : EmailIsMarked(d)'
    BY <1>1, <1>6, LosesMarkFacts
  <2>8. lock' = IF "unlock" = "idle" THEN NoOne ELSE e
    BY <1>1, <1>3
  <2> QED BY <1>3, <1>4, <1>5, <2>1, <2>2, <2>4, <2>5, <2>6, <2>7, <2>8, HolderKeeps
<1>7. ASSUME NEW c \in Conditions, IsNext(e, c), Faultless, UNCHANGED mails,
             sent' = SavedMarks(run[e].due, run[e].marks),
             Steps(e, "mark", IF Rest(e, c) = {} THEN "unlock" ELSE "send",
                   [run[e] EXCEPT !.due = Rest(e, c)])
      PROVE  IInv'
  <2> DEFINE today == run[e].today
             rest == Rest(e, c)
             next == IF rest = {} THEN "unlock" ELSE "send"
             memory == [run[e] EXCEPT !.due = rest]
  <2>1. /\ \A d \in Conditions : IsNext(e, d) => d = c
        /\ today = Day(now) /\ today \in Days
    BY <1>1, <1>3, <1>7, NextFacts DEF Sending, Memories
  <2>2. /\ sent' = [sent EXCEPT ![c] = today]
        /\ mails[c].day = today /\ mails[c].number > 0
    BY <1>1, <1>2, <1>7 DEF MarksAreCurrent, SavedMarks
  <2>3. /\ sent' \in [Conditions -> Days] /\ sent'[c] = today
        /\ \A d \in Conditions \ {c} : sent'[d] = sent[d]
    BY <1>2, <2>1, <2>2 DEF TypeOK
  <2>4. /\ rest \in SUBSET Nat /\ rest \subseteq run[e].due
        /\ \A i \in run[e].due : i \in rest <=> run[e].alerts[i] # c
    BY <1>3 DEF Rest, Memories
  <2>5. next \in {"unlock", "send"} /\ (next = "unlock" <=> rest = {})
    OBVIOUS
  <2> HIDE DEF rest, next, today
  <2>6. /\ memory \in Memories /\ memory.today = today /\ memory.due = rest
        /\ memory.alerts = run[e].alerts /\ memory.marks = run[e].marks
        /\ memory.excused = run[e].excused
        /\ memory.entry = run[e].entry /\ memory.started = run[e].started
        /\ memory.written = run[e].written /\ memory.row = run[e].row
        /\ memory.loaded = run[e].loaded /\ memory.tally = run[e].tally
    BY <1>3, <2>4 DEF Memories, today
  <2> HIDE DEF memory
  <2>7. Steps(e, "mark", next, memory)
    BY <1>7 DEF memory, next, rest
  <2>8. pc'[e] = next /\ run'[e] = memory
    BY <1>2, <2>7 DEF TypeOK, Steps
  <2>9. HeartbeatIsDue(e)' /\ TallyIsCurrent(e)' /\ AlertIsRaised(e)'
    BY <1>1, <1>2, <2>5, <2>6, <2>8
       DEF HeartbeatIsDue, TallyIsCurrent, AlertIsRaised, Starting, Option
  <2>10. MarksAreCurrent(e)'
    <3>1. \A i \in run[e].due : run[e].alerts[i] \in Conditions
      BY <1>1, <1>2, <1>3 DEF MarksAreCurrent, Sending, Memories, Alerts
    <3>2. \A i \in rest : i \in DOMAIN run[e].alerts /\ sent'[run[e].alerts[i]] # today
      BY <1>1, <1>2, <2>3, <2>4, <3>1 DEF MarksAreCurrent, Sending, today
    <3>3. run[e].marks = sent'
      BY <1>7 DEF SavedMarks
    <3> QED BY <1>1, <2>1, <2>5, <2>6, <2>8, <3>2, <3>3 DEF MarksAreCurrent, Sending
  <2>11. EmailIsOwed(e)'
    <3>1. CASE run[e].row >= Threshold
      <4>1. \/ \E i \in run[e].due : run[e].alerts[i] = "run_failures"
            \/ Mailed("run_failures", today)
        BY <1>1, <1>2, <3>1 DEF EmailIsOwed, Sending, today
      <4>2. \/ \E i \in rest : run[e].alerts[i] = "run_failures"
            \/ Mailed("run_failures", today)
        BY <2>2, <2>4, <4>1 DEF Mailed
      <4>3. mails["run_failures"]' = mails["run_failures"]
        BY <1>7
      <4> QED BY <2>5, <2>6, <2>8, <4>2, <4>3 DEF EmailIsOwed, Sending, Mailed
    <3>2. CASE ~(run[e].row >= Threshold)
      BY <2>6, <2>8, <3>2 DEF EmailIsOwed
    <3> QED BY <3>1, <3>2
  <2>12. ASSUME NEW d \in Conditions PROVE EmailIsMarked(d)'
    <3>1. EmailIsMarked(d)
      BY DEF IInv
    <3>2. CASE d = c
      <4>1. today \in Nat
        BY <1>3, <2>1, DayFacts
      <4> QED BY <1>1, <1>7, <2>1, <2>2, <2>3, <3>1, <3>2, <4>1 DEF EmailIsMarked
    <3>3. CASE d # c
      <4>1. \A f \in Executions : ~(pc[f] = "mark" /\ IsNext(f, d))
        BY <1>2, <1>3, <2>1, <3>3 DEF TypeOK
      <4> QED BY <1>1, <1>7, <2>3, <3>1, <3>3, <4>1 DEF EmailIsMarked
    <3> QED BY <3>2, <3>3
  <2>13. /\ mails' \in [Conditions -> [day : Days, number : Nat, lost : Nat]]
         /\ faults' \in 0..MaxFaults
    BY <1>2, <1>7 DEF TypeOK, Faultless
  <2>14. /\ lock' = IF next = "idle" THEN NoOne ELSE e
         /\ next \in Places /\ (next = "idle" => memory = Idle)
    BY <1>1, <1>3, <2>5
  <2> QED BY <1>3, <1>4, <1>5, <2>3, <2>6, <2>7, <2>9, <2>10, <2>11, <2>12, <2>13, <2>14,
             HolderKeeps
<1> QED BY <1>6, <1>7 DEF Mark

\* An execution that ends, by itself or killed, forgets what it knew.
LEMMA EndingKeeps ==
    ASSUME IInv, NEW e \in Executions, pc[e] # "idle", Steps(e, pc[e], "idle", Idle),
           lock' = NoOne, UNCHANGED <<now, record, sent, tally, streak, called>>,
           faults' \in 0..MaxFaults,
           IF pc[e] = "mark" THEN LosesMark(e) ELSE UNCHANGED mails
    PROVE  IInv'
<1> USE RunEntryAssumption
<1>1. TypeOK
  BY DEF IInv
<1>2. /\ lock = e /\ now' \in now..MaxNow /\ pc[e] \in Places /\ "idle" \in Places
      /\ now \in 0..MaxNow
  BY <1>1 DEF TypeOK, Places
<1>3. pc'[e] = "idle" /\ run'[e] = Idle
  BY <1>1 DEF TypeOK, Steps
<1>4. /\ HeartbeatIsDue(e)' /\ TallyIsCurrent(e)' /\ AlertIsRaised(e)'
      /\ MarksAreCurrent(e)' /\ EmailIsOwed(e)'
  BY <1>3, IdleIsFine
<1>5. RecordsArePast' /\ FailuresAreCounted' /\ CallsAreTallied'
  BY DEF IInv, RecordsArePast, FailuresAreCounted, CallsAreTallied
<1>6. /\ mails' \in [Conditions -> [day : Days, number : Nat, lost : Nat]]
      /\ \A d \in Conditions : EmailIsMarked(d)'
  <2>1. CASE pc[e] = "mark"
    BY <2>1, LosesMarkFacts
  <2>2. CASE pc[e] # "mark"
    BY <1>1, <1>2, <2>2, IdleFacts, EmailsKept DEF TypeOK
  <2> QED BY <2>1, <2>2
<1>7. /\ now' \in 0..MaxNow /\ record' \in Records /\ sent' \in [Conditions -> Days]
      /\ tally' \in Tallies /\ streak' \in Nat /\ called' \in Tallies
  BY <1>1 DEF TypeOK
<1> QED BY <1>2, <1>4, <1>5, <1>6, <1>7, IdleFacts, HolderKeeps

LEMMA UnlockKeeps ==
    ASSUME IInv, NEW e \in Executions, Unlock(e) \/ Kill(e)
    PROVE  IInv'
<1>1. faults' \in 0..MaxFaults
  BY RunEntryAssumption DEF Unlock, Kill, Faultless, Faulty, IInv, TypeOK
<1>2. CASE Unlock(e)
  <2>1. pc[e] = "unlock"
    BY <1>2 DEF Unlock, Steps
  <2> QED BY <1>1, <1>2, <2>1, EndingKeeps DEF Unlock
<1>3. CASE Kill(e)
  BY <1>1, <1>3, EndingKeeps DEF Kill
<1> QED BY <1>2, <1>3

-----------------------------------------------------------------------------
(* The theorems.                                                           *)

LEMMA InitHolds == Init => IInv
<1> SUFFICES ASSUME Init PROVE IInv
  OBVIOUS
<1> USE RunEntryAssumption
<1>1. 0 \in Days /\ 0 \in 0..MaxNow /\ 1 <= Day(0) /\ Day(0) \in Nat
  BY DayFacts DEF Days
<1>2. /\ record = NoRecord /\ pc = [e \in Executions |-> "idle"]
      /\ run = [e \in Executions |-> Idle]
      /\ NoRecord.lastStart = 0 /\ NoRecord.lastEnd = 0 /\ NoRecord.failures = 0
  BY DEF Init, NoRecord, Never
<1>3. TypeOK
  BY <1>1, <1>2, IdleFacts DEF Init, TypeOK, Tallies, Places
<1>4. RecordsArePast /\ FailuresAreCounted /\ CallsAreTallied
  BY <1>2 DEF Init, RecordsArePast, FailuresAreCounted, CallsAreTallied, IsUnfinished
<1>5. \A c \in Conditions : EmailIsMarked(c)
  BY <1>1 DEF Init, EmailIsMarked
<1>6. ASSUME NEW e \in Executions
      PROVE  /\ IdleKnowsNothing(e) /\ HeartbeatIsDue(e) /\ TallyIsCurrent(e)
             /\ AlertIsRaised(e) /\ MarksAreCurrent(e) /\ EmailIsOwed(e)
  <2>1. /\ Idle.started = NoRecord /\ Idle.loaded = FALSE /\ Idle.row = 0
        /\ Idle.written = FALSE
    BY DEF Idle
  <2> QED BY <1>2, <2>1
          DEF IdleKnowsNothing, HeartbeatIsDue, TallyIsCurrent, AlertIsRaised,
              MarksAreCurrent, EmailIsOwed, Starting, Sending
<1> QED BY <1>3, <1>4, <1>5, <1>6 DEF IInv

LEMMA NextKeeps == IInv /\ [Next]_vars => IInv'
<1> SUFFICES ASSUME IInv, [Next]_vars PROVE IInv'
  OBVIOUS
<1>1. CASE UNCHANGED vars
  BY <1>1 DEF vars, IInv, TypeOK, RecordsArePast, FailuresAreCounted, CallsAreTallied,
              EmailIsMarked, IdleKnowsNothing, HeartbeatIsDue, TallyIsCurrent,
              AlertIsRaised, MarksAreCurrent, EmailIsOwed, IsNext, Option, Mailed
<1>2. ASSUME NEW e \in Executions, NEW entry \in DOMAIN Options, Acquire(e, entry)
      PROVE  IInv'
  BY <1>2, AcquireKeeps
<1>3. ASSUME NEW e \in Executions,
             \/ Heartbeat(e) \/ LoadConfig(e) \/ LoadCalls(e) \/ Body(e)
             \/ Success(e) \/ Failure(e) \/ SaveCalls(e)
      PROVE  IInv'
  BY <1>3, HeartbeatKeeps, LoadConfigKeeps, LoadCallsKeeps, BodyKeeps, SuccessKeeps,
     FailureKeeps, SaveCallsKeeps
<1>4. ASSUME NEW e \in Executions,
             \/ Deliver(e) \/ Send(e) \/ Mark(e) \/ Unlock(e) \/ Kill(e)
      PROVE  IInv'
  BY <1>4, DeliverKeeps, SendKeeps, MarkKeeps, UnlockKeeps
<1> QED BY <1>1, <1>2, <1>3, <1>4 DEF Next

LEMMA Invariance == Spec => []IInv
  BY InitHolds, NextKeeps, PTL DEF Spec

\* Every variable has its type, and one execution at a time holds the lock and
\* runs (runEntry takes it first and releases it last).
THEOREM TypeCorrectness == Spec => []TypeOK
<1>1. IInv => TypeOK
  BY DEF IInv
<1> QED BY <1>1, Invariance, PTL

\* state.runs counts every failed or killed run since the last success, once,
\* whatever writes were lost.
THEOREM RunsAreCounted == Spec => []FailuresAreCounted
<1>1. IInv => FailuresAreCounted
  BY DEF IInv
<1> QED BY <1>1, Invariance, PTL

\* state.gmailCalls holds the calls of every run of the day that saved them.
THEOREM TallyIsExact == Spec => []CallsAreTallied
<1>1. IInv => CallsAreTallied
  BY DEF IInv
<1> QED BY <1>1, Invariance, PTL

\* The owner gets an email about a condition once a day, and again only for a
\* mark that was lost.
THEOREM NoMailTwice == Spec => []OneMailADay
<1>1. IInv => OneMailADay
  BY DEF IInv, EmailIsMarked, OneMailADay, TypeOK
<1> QED BY <1>1, Invariance, PTL

\* A run that ends by itself and knows of Threshold failures in a row has mailed
\* run_failures on its day, unless sending was impossible.
THEOREM FailuresReachTheOwner == Spec => FailuresAreMailed
<1> DEFINE Ends(e) == /\ pc[e] = "unlock" /\ pc'[e] = "idle" /\ faults' = faults
                      /\ run[e].row >= Threshold
                      /\ ~run[e].excused
           Tells(e) == /\ mails["run_failures"].day = run[e].today
                       /\ mails["run_failures"].number > 0
<1>1. IInv /\ [Next]_vars => [\A e \in Executions : Ends(e) => Tells(e)]_vars
  BY DEF IInv, EmailIsOwed, Mailed
<1> QED BY <1>1, Invariance, PTL DEF Spec, FailuresAreMailed
=============================================================================
