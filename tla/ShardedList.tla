----------------------------- MODULE ShardedList -----------------------------
(***************************************************************************)
(* A list stored across numbered keys: loadShardedList and saveShardedList *)
(* (src/app/sharded-state.ts) with joinShards and planShardWrites          *)
(* (src/core/sharding.ts).                                                 *)
(*                                                                         *)
(* A save writes one key at a time and may stop after any of them: the     *)
(* execution is killed, or the store is full.  The plan is worked out when *)
(* the save begins, from the shards then stored; since nothing else writes *)
(* them meanwhile, the steps here decide as they go.                       *)
(***************************************************************************)
EXTENDS Integers, FiniteSets

CONSTANTS
    Ids,            \* IDs of items
    Values,         \* the versions an item may have
    MaxShards,      \* spec.maxShards
    MaxInterrupts   \* bound: saves in a row that do not end

ASSUME ShardedListAssumption ==
    /\ MaxShards \in Nat
    /\ MaxInterrupts \in Nat

VARIABLES
    shards,      \* shard number |-> its items, a function from ID to version
    saving,      \* whether a save is under way
    next,        \* the shards of the list being saved, 0 to m - 1
    pending,     \* the numbers of those still to be written
    loaded,      \* what the last load gave, until a save begins
    interrupts   \* saves stopped since one ended

vars == <<shards, saving, next, pending, loaded, interrupts>>

Nothing == [x \in {} |-> 0]

-----------------------------------------------------------------------------

\* The IDs in the shards s.
IdsIn(s) == UNION {DOMAIN s[n] : n \in DOMAIN s}

\* The shards of s that hold an item.
Holders(s, id) == {n \in DOMAIN s : id \in DOMAIN s[n]}

Lowest(S) == CHOOSE n \in S : \A k \in S : n <= k

\* Concatenated by shard number, without the later copies of an item.
Joined(s) == [id \in IdsIn(s) |-> s[Lowest(Holders(s, id))][id]]

\* A list cut into m shards.  Sizes are left open, so any cut into shards that
\* are not empty may be the greedy one.
Cuts(list, m) ==
    {[n \in 0..(m - 1) |-> [id \in {i \in DOMAIN list : shardOf[i] = n} |-> list[id]]] :
        shardOf \in {f \in [DOMAIN list -> 0..(m - 1)] :
                       \A n \in 0..(m - 1) : \E id \in DOMAIN list : f[id] = n}}

\* Fault: takes any order of the writes for safe.
NothingAtRisk(n) == {}

\* Items of the new list that would be lost if shard n were overwritten now.
AtRisk(n) ==
    IF n \in DOMAIN shards
    THEN {id \in DOMAIN shards[n] :
            /\ id \in IdsIn(next)
            /\ id \notin DOMAIN next[n]
            /\ Holders(shards, id) = {n}}
    ELSE {}

SafeToWrite == {n \in pending : AtRisk(n) = {}}

With(s, n, items) == [k \in DOMAIN s \cup {n} |-> IF k = n THEN items ELSE s[k]]

-----------------------------------------------------------------------------

Load ==
    /\ ~saving
    /\ loaded' = Joined(shards)
    /\ UNCHANGED <<shards, saving, next, pending, interrupts>>

\* Fault: one shard too many is planned.
BeginLongerSave(list, m) ==
    /\ ~saving
    /\ saving' = TRUE
    /\ next' \in Cuts(list, m)
    /\ pending' = {n \in 0..m : ~(n \in DOMAIN shards /\ shards[n] = next'[n])}
    /\ loaded' = Nothing
    /\ UNCHANGED <<shards, interrupts>>

\* A list that needs too many shards is refused before anything is written.  A
\* shard that is already as it should be is not written.
BeginSave(list, m) ==
    /\ ~saving
    /\ saving' = TRUE
    /\ next' \in Cuts(list, m)
    /\ pending' = {n \in 0..(m - 1) : ~(n \in DOMAIN shards /\ shards[n] = next'[n])}
    /\ loaded' = Nothing
    /\ UNCHANGED <<shards, interrupts>>

WriteShard(n) ==
    /\ saving
    /\ SafeToWrite # {} /\ n = Lowest(SafeToWrite)
    /\ shards' = With(shards, n, next[n])
    /\ pending' = pending \ {n}
    /\ UNCHANGED <<saving, next, loaded, interrupts>>

\* No write is safe: the items of the lowest shard that would be lost are first
\* copied, as they are stored, past every shard stored or planned.
ParkItems(n) ==
    /\ saving
    /\ pending # {} /\ SafeToWrite = {}
    /\ n = Lowest(pending)
    /\ \E highest \in DOMAIN shards \cup DOMAIN next :
          /\ \A k \in DOMAIN shards \cup DOMAIN next : k <= highest
          /\ shards' = With(shards, highest + 1, [id \in AtRisk(n) |-> shards[n][id]])
    /\ UNCHANGED <<saving, next, pending, loaded, interrupts>>

Surplus == DOMAIN shards \ DOMAIN next

\* Last, the shards past the end, the temporary ones among them.
DeleteShard(n) ==
    /\ saving
    /\ pending = {}
    /\ Surplus # {} /\ n = Lowest(Surplus)
    /\ shards' = [k \in DOMAIN shards \ {n} |-> shards[k]]
    /\ UNCHANGED <<saving, next, pending, loaded, interrupts>>

\* Fault: the shards past the end are left.
FinishEarly ==
    /\ saving
    /\ pending = {}
    /\ saving' = FALSE
    /\ next' = Nothing
    /\ interrupts' = 0
    /\ UNCHANGED <<shards, pending, loaded>>

FinishSave ==
    /\ saving
    /\ pending = {} /\ Surplus = {}
    /\ saving' = FALSE
    /\ next' = Nothing
    /\ interrupts' = 0
    /\ UNCHANGED <<shards, pending, loaded>>

InterruptSave ==
    /\ saving
    /\ interrupts < MaxInterrupts
    /\ saving' = FALSE
    /\ next' = Nothing
    /\ pending' = {}
    /\ interrupts' = interrupts + 1
    /\ UNCHANGED <<shards, loaded>>

-----------------------------------------------------------------------------

Init ==
    /\ shards = Nothing
    /\ saving = FALSE
    /\ next = Nothing
    /\ pending = {}
    /\ loaded = Nothing
    /\ interrupts = 0

Lists == UNION {[S -> Values] : S \in SUBSET Ids}

SaveStep ==
    \/ \E n \in pending : WriteShard(n) \/ ParkItems(n)
    \/ \E n \in DOMAIN shards : DeleteShard(n)
    \/ FinishSave

Next ==
    \/ Load
    \/ \E list \in Lists, m \in 0..MaxShards : BeginSave(list, m)
    \/ SaveStep
    \/ InterruptSave

Spec == Init /\ [][Next]_vars

-----------------------------------------------------------------------------
(* Properties.                                                             *)

IsShard(items) == DOMAIN items \subseteq Ids /\ \A id \in DOMAIN items : items[id] \in Values

TypeOK ==
    /\ DOMAIN shards \subseteq Nat
    /\ \A n \in DOMAIN shards : IsShard(shards[n])
    /\ saving \in BOOLEAN
    /\ \E m \in 0..MaxShards : DOMAIN next = 0..(m - 1)
    /\ \A n \in DOMAIN next : IsShard(next[n])
    /\ pending \subseteq DOMAIN next
    /\ IsShard(loaded)
    /\ interrupts \in Nat

\* Whichever step of the plan a save stops after, an item that was stored and is
\* in the new list is in at least one stored shard.
SurvivorsStay ==
    [][\A id \in IdsIn(shards) \cap IdsIn(next) : id \in IdsIn(shards')]_vars

\* The versions stored of each item.
Held == [id \in IdsIn(shards) |-> {shards[n][id] : n \in Holders(shards, id)}]

\* The shards and the plan of writes do what callers rely on: a save that ends
\* has left exactly its list, and one that does not has kept every survivor in a
\* version that was stored before or is being saved.
Contract ==
    INSTANCE ListStore WITH held <- Held,
                            saving <- IF saving THEN {Joined(next)} ELSE {},
                            ended <- ~saving /\ interrupts = 0

ImplementsListStore == Contract!Spec
=============================================================================
