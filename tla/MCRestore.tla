----------------------------- MODULE MCRestore -----------------------------
(***************************************************************************)
(* Instances of Restore.  The run holds, in manifest order: a kv value     *)
(* whose name is the sidecar path of the next one; a kv value with         *)
(* metadata, large enough to be streamed; a d1 dump; a Worker and its      *)
(* settings, whose paths cannot both be files; and a record that shares    *)
(* the first one's name under another source type.                         *)
(***************************************************************************)
EXTENDS Restore

MCName == [r \in Rec |-> <<"a.meta", "a", "d", "w", "w/s", "a.meta">>[r]]
MCSource == [r \in Rec |-> <<"direct", "direct", "d1", "reprov", "reprov", "direct">>[r]]
MCPath == {"a", "a.meta", "d.sql", "w", "w/s", "d"}
MCNameKey == [n \in {"a", "a.meta", "d", "w", "w/s"} |-> n]
MCSqlKey == [p \in MCPath |-> IF p = "d" THEN "d.sql" ELSE "none"]
MCSidecar == [p \in MCPath |-> IF p = "a" THEN "a.meta" ELSE "none"]
MCParents == [p \in MCPath |-> IF p = "w/s" THEN {"w"} ELSE {}]
MCMayHold == [r \in Rec |->
    << {"ok"}, {"ok", "absent"}, {"ok", "mismatch", "newer", "undecodable"},
       {"ok"}, {"marker"} >>[r]]

\* Over the network: the second segment cannot be fetched, the first fails its hash.
MCMayHoldRemote == [r \in Rec |-> <<{"mismatch"}, {"unreachable"}>>[r]]

\* Every record reads well except the one that shares its name with the first.
MCMayHoldDrill == [r \in Rec |-> IF r = 6 THEN {"altered"} ELSE {"ok"}]

=============================================================================
