----------------------------- MODULE MoveHistory -----------------------------
(***************************************************************************)
(* Which threads scheduled runs move, over the life of a mailbox in which  *)
(* the user moves threads back.  The run is ScheduledRun; `recorded` is    *)
(* what its moves are judged by.                                           *)
(***************************************************************************)
EXTENDS ScheduledRun

VARIABLES
    recorded,   \* threads the stored queue has shown as handled; Recorded excepts some
    stuck       \* the run met the cap inside the first record after the position,
                \* so the position stands still, and its savedAt with it

historyVars == <<recorded, stuck>>

\* What the mailbox's owner does about a move they do not want.
MoveBack(t) ==
    /\ t \in moved
    /\ moved' = moved \ {t}
    /\ UNCHANGED <<history, marked, gone, persistent, runVars, settledUpTo, faults,
                   historyVars>>

PositionIsPast(t) == \E i \in 1..position.historyId : t \in history[i].added

\* A thread that leaves the stored queue is recorded, unless a run that is stuck
\* settles it with none of its mail behind the position.
Recorded ==
    recorded' = recorded \cup {t \in DOMAIN stored \ DOMAIN stored' :
                                 stuck => PositionIsPast(t)}

\* Ingest is done when the run goes on to its chunks.
Stuck ==
    stuck' = IF pc = "advance" /\ pc' = "take"
             THEN stop = "cap" /\ handledId = position.historyId
             ELSE stuck /\ pc' # "idle"

HistoryInit == Init /\ recorded = {} /\ stuck = FALSE

HistoryNext ==
    \/ Next /\ Recorded /\ Stuck
    \/ \E t \in Threads : MoveBack(t)

HistorySpec == HistoryInit /\ [][HistoryNext]_<<vars, historyVars>>

-----------------------------------------------------------------------------

\* A move is for a brand-new conversation: once the stored queue has shown a thread
\* as handled, a reply, a retry after Jev/Error or a repeated run never moves it
\* again, so a move the user has corrected stays corrected.  One case is excepted,
\* that of a run whose cap is met inside the first record after the position: it
\* settles the threads of that record that fitted, the next run reads the record
\* again with the same savedAt, and what was settled may be settled and moved
\* once more.  A position that moved, if only to the record before the cap, ends it.
OnlyNewConversationsMove ==
    [][\A t \in moved' \ moved : t \notin recorded]_<<vars, historyVars>>
=============================================================================
