----------------------------- MODULE StoredLists -----------------------------
(***************************************************************************)
(* What Script Properties hold of a list that is saved as numbered shards. *)
(* A save that stopped part-way leaves several copies of one item, so what *)
(* is held is a function from an ID to the set of its stored versions.     *)
(* ShardedList shows that the shards, and the order in which               *)
(* planShardWrites (src/core/sharding.ts) changes them, are this and no    *)
(* more.                                                                   *)
(***************************************************************************)

\* What a save that ran to its end leaves.
Exactly(list) == [id \in DOMAIN list |-> {list[id]}]

\* The lists that loading may give: each item once, in one of its versions.
Loads(held) ==
    {list \in [DOMAIN held -> UNION {held[id] : id \in DOMAIN held}] :
        \A id \in DOMAIN held : list[id] \in held[id]}

\* The versions of an item around while a save of the list is on its way.
Versions(held, list, id) ==
    (IF id \in DOMAIN held THEN held[id] ELSE {})
        \cup (IF id \in DOMAIN list THEN {list[id]} ELSE {})

\* What may be held when the save stops: every item that was held and is in the
\* list, and any of those that only one of the two has.
PartlySaved(held, list) ==
    LET both == DOMAIN held \cap DOMAIN list
        either == DOMAIN held \cup DOMAIN list
        all == UNION {Versions(held, list, id) : id \in either}
    IN  UNION {{h \in [D -> (SUBSET all) \ {{}}] :
                   \A id \in D : h[id] \subseteq Versions(held, list, id)} :
                 D \in {E \in SUBSET either : both \subseteq E}}
=============================================================================
