------------------------------ MODULE SeqWalk ------------------------------
(***************************************************************************)
(* The sequential shard walk (StreamReader.walkShards with                 *)
(* FetchConcurrency <= 1): the shards are opened one after the other in    *)
(* listed order and every record is handed to perRecord in shard order.    *)
(* This is the reference the prefetching walk has to be equal to.          *)
(***************************************************************************)
EXTENDS Naturals, Sequences

CONSTANTS
  NumShards,   \* len(root.Shards)
  NumRecords   \* the records in each shard

VARIABLES
  at,          \* where the loop is
  shard,       \* the listed shard it is at
  rec,         \* the records of that shard handed over so far
  delivered,   \* the records perRecord has accepted, in order
  walkErr,     \* the error the walk returns
  interrupted  \* the caller's context is done

vars == <<at, shard, rec, delivered, walkErr, interrupted>>

Init ==
  /\ at = "check"
  /\ shard = 1
  /\ rec = 0
  /\ delivered = <<>>
  /\ walkErr = "none"
  /\ interrupted = FALSE

\* The loop ends, or the context is asked before the next shard.
Check ==
  /\ at = "check"
  /\ \/ /\ shard > NumShards
        /\ at' = "return"
        /\ walkErr' = walkErr
     \/ /\ shard <= NumShards
        /\ interrupted
        /\ at' = "return"
        /\ walkErr' = "context"
     \/ /\ shard <= NumShards
        /\ ~interrupted
        /\ at' = "open"
        /\ walkErr' = walkErr
  /\ UNCHANGED <<shard, rec, delivered, interrupted>>

\* openOneShard fetches, hashes and decrypts the shard; any part may fail.
Open ==
  /\ at = "open"
  /\ \/ at' = "records" /\ rec' = 0 /\ walkErr' = walkErr
     \/ at' = "return" /\ rec' = rec /\ walkErr' = "shard"
  /\ UNCHANGED <<shard, delivered, interrupted>>

\* perRecord takes one record or stops the walk.
Deliver ==
  /\ at = "records"
  /\ rec < NumRecords[shard]
  /\ \/ /\ delivered' = Append(delivered, <<shard, rec + 1>>)
        /\ rec' = rec + 1
        /\ UNCHANGED <<at, walkErr>>
     \/ /\ walkErr' = "record"
        /\ at' = "return"
        /\ UNCHANGED <<rec, delivered>>
  /\ UNCHANGED <<shard, interrupted>>

NextShard ==
  /\ at = "records"
  /\ rec = NumRecords[shard]
  /\ shard' = shard + 1
  /\ at' = "check"
  /\ UNCHANGED <<rec, delivered, walkErr, interrupted>>

Return ==
  /\ at = "return"
  /\ at' = "returned"
  /\ UNCHANGED <<shard, rec, delivered, walkErr, interrupted>>

Interrupt ==
  /\ interrupted' = TRUE
  /\ UNCHANGED <<at, shard, rec, delivered, walkErr>>

Next == Check \/ Open \/ Deliver \/ NextShard \/ Return \/ Interrupt

Spec == Init /\ [][Next]_vars
=============================================================================
