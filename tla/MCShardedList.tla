---------------------------- MODULE MCShardedList ----------------------------
(* ShardedList with items and versions that are interchangeable. *)
EXTENDS ShardedList, TLC

ShardSymmetry == Permutations(Ids) \cup Permutations(Values)
=============================================================================
