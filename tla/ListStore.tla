------------------------------ MODULE ListStore ------------------------------
(***************************************************************************)
(* What callers of loadShardedList and saveShardedList                     *)
(* (src/app/sharded-state.ts) rely on: a save that ends leaves exactly the *)
(* list, and one that stops after any step loses no item that was stored   *)
(* and is still in the list.                                               *)
(***************************************************************************)
EXTENDS StoredLists

CONSTANTS Ids,     \* IDs of items
          Values   \* the versions an item may have

VARIABLES
    held,      \* what is stored: ID |-> the versions of the item
    saving,    \* the list a save under way replaces it by: one, or none
    ended,     \* whether the last save ran to its end
    loaded     \* what the last load gave, until a save begins

vars == <<held, saving, ended, loaded>>

Lists == UNION {[S -> Values] : S \in SUBSET Ids}

Nothing == [id \in {} |-> 0]

Load ==
    /\ saving = {}
    /\ loaded' \in Loads(held)
    /\ UNCHANGED <<held, saving, ended>>

BeginSave(list) ==
    /\ saving = {}
    /\ saving' = {list}
    /\ ended' = FALSE
    /\ loaded' = Nothing
    /\ UNCHANGED held

\* One shard is written or deleted.
SaveStep ==
    /\ \E list \in saving : held' \in PartlySaved(held, list)
    /\ UNCHANGED <<saving, ended, loaded>>

FinishSave ==
    /\ \E list \in saving : held' = Exactly(list)
    /\ saving' = {}
    /\ ended' = TRUE
    /\ UNCHANGED loaded

InterruptSave ==
    /\ saving # {}
    /\ saving' = {}
    /\ UNCHANGED <<held, ended, loaded>>

Init == held = Nothing /\ saving = {} /\ ended = TRUE /\ loaded = Nothing

Next ==
    \/ Load
    \/ \E list \in Lists : BeginSave(list)
    \/ SaveStep
    \/ FinishSave
    \/ InterruptSave

Spec == Init /\ [][Next]_vars
=============================================================================
