---------------------------- MODULE MCShardWalk ----------------------------
(***************************************************************************)
(* Model-checking instance of ShardWalk: five shards of which one is       *)
(* empty, and a budget that one larger shard exceeds.                      *)
(***************************************************************************)
EXTENDS ShardWalk

MCNumRecords == <<2, 0, 1, 1, 1>>
MCSize == <<2, 1, 3, 1, 2>>
=============================================================================
