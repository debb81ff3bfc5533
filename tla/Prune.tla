------------------------------- MODULE Prune -------------------------------
(***************************************************************************)
(* The offline retention prune (cmd/downpipe/prune.go, internal/prune)     *)
(* against an archive destination that the backup engine keeps writing to. *)
(*                                                                         *)
(* The archive is a set of object keys: content-addressed segments, and    *)
(* for every run a tree of manifest objects under run/<id>/.  A pass reads *)
(* the signed RUNLOG, partitions it, opens every run to learn which        *)
(* segments it references, computes a plan or abstains, records its intent *)
(* in a receipt, deletes orphan segments, then the trees of the runs whose *)
(* segments all went.  Every delete may succeed, be refused, or get no     *)
(* usable answer, and the process may die between any two steps.           *)
(***************************************************************************)
EXTENDS Naturals, FiniteSets

CONSTANTS
  Runs,              \* run ids
  Segs,              \* segment object keys
  Downpipes,         \* downpipe ids
  TreeNames,         \* object names inside a run tree: shard manifests, root, signature
  Indices,           \* RUNLOG index values the account-global counter may issue
  MaxKeep,           \* bound on --keep
  ApplyFlags,        \* the values --apply may take: dry runs, applied passes or both
  ReceiptFlags,      \* may --receipt be given, left out, or either
  SharingDuringPass, \* may a run sealed while a pass is under way reuse old segments
  ReadsMayFail       \* may opening an intact run fail (network, wrong identity, damage)

TreeKeys == Runs \X TreeNames

ASSUME PruneAssumption ==
  /\ TreeNames # {}
  /\ Indices \subseteq Nat \ {0}
  /\ IsFiniteSet(Runs)
  /\ MaxKeep \in Nat \ {0}
  /\ ApplyFlags \subseteq BOOLEAN
  /\ ReceiptFlags \subseteq BOOLEAN
  /\ SharingDuringPass \in BOOLEAN
  /\ ReadsMayFail \in BOOLEAN
  /\ Segs \cap TreeKeys = {}       \* segments live outside the run/ prefix

VARIABLES
  store,       \* the object keys present at the destination
  refs,        \* the segments each sealed run's shard manifests name
  index,       \* the RUNLOG index of each run, 0 for a run not in the RUNLOG
  superseded,  \* the runs whose RUNLOG status is "superseded"
  downpipe,    \* the downpipe each run belongs to
  canList,     \* does the destination's backend implement ListingStore
  pc,          \* where the pass is
  cmd,         \* its flags: --keep, --apply, whether --receipt was given
  kept,        \* Partition's keep list
  dropped,     \* Partition's drop list
  plan,        \* the plan Compute returned
  todo,        \* keys the current delete loop has still to try
  runsLeft,    \* superseded runs whose tree Apply has still to visit
  res,         \* the Result, each counter as the set of keys it counts
  exit,        \* the exit status
  receipt      \* the receipt file's record of this pass

archive == <<store, refs, index, superseded>>
world == <<downpipe, canList>>
vars == <<store, refs, index, superseded, downpipe, canList, pc, cmd, kept, dropped, plan,
          todo, runsLeft, res, exit, receipt>>

-----------------------------------------------------------------------------
(* The RUNLOG and the run trees *)

TreeOf(r) == {r} \X TreeNames
Logged == {r \in Runs : index[r] # 0}
Active == Logged \ superseded

\* The active runs of r's downpipe that the RUNLOG's own index puts after r.
Newer(r) == {q \in Active : downpipe[q] = downpipe[r] /\ index[q] > index[r]}

\* Partition keeps the newest k active runs of every downpipe.
Keep(k) == {r \in Active : Cardinality(Newer(r)) < k}

\* Mutant of Drop: takes the runs from somewhere other than the RUNLOG.
DropUnlogged(k) == Runs \ Keep(k)

\* Partition drops every other run, whatever its status.
Drop(k) == Logged \ Keep(k)

\* format.Open needs the root manifest, its signature and every shard manifest;
\* it reads no segment.
Readable(r) == TreeOf(r) \subseteq store

-----------------------------------------------------------------------------
(* Compute *)

NoPlan == [orphans |-> {}, runs |-> {}, skipped |-> {}, byRun |-> [r \in Runs |-> {}]]

Live(retained) == UNION {refs[r] : r \in retained}

\* Mutant of Compute: the retained side is not subtracted.
ComputeWithoutSubtraction(retained, dead, complete) ==
  LET runs == dead \cap complete
  IN [orphans |-> UNION {refs[r] : r \in runs},
      runs    |-> runs,
      skipped |-> dead \ complete,
      byRun   |-> [r \in Runs |-> IF r \in runs THEN refs[r] ELSE {}]]

\* The plan, from the runs that could be enumerated completely.
Compute(retained, dead, complete) ==
  LET runs == dead \cap complete
  IN [orphans |-> (UNION {refs[r] : r \in runs}) \ Live(retained),
      runs    |-> runs,
      skipped |-> dead \ complete,
      byRun   |-> [r \in Runs |-> IF r \in runs THEN refs[r] \ Live(retained) ELSE {}]]

-----------------------------------------------------------------------------
(* Result, exit status and receipt *)

NoRes == [deleted |-> {}, refused |-> {}, failed |-> {}, held |-> {}]
NoCmd == [keep |-> 1, apply |-> FALSE, receipt |-> FALSE]
NoReceipt == [status |-> "none", res |-> NoRes]

\* Mutant of Incomplete: a failed delete is forgotten.
IncompleteIgnoresFailed(result) == result.refused # {} \/ result.held # {}

Incomplete(result) == result.refused # {} \/ result.failed # {} \/ result.held # {}

\* ExitPruneIncomplete is 14; a dry run always exits 0.
PruneExit(result) == IF cmd.apply /\ Incomplete(result) THEN 14 ELSE 0

\* Mutant of Held: a tree goes whether or not its segments went.
HeldNever(r) == FALSE

\* A run keeps its tree while one of its orphan segments was not deleted.
Held(r) == cmd.apply /\ ~(plan.byRun[r] \subseteq res.deleted)

-----------------------------------------------------------------------------
Init ==
  /\ store = {}
  /\ refs = [r \in Runs |-> {}]
  /\ index = [r \in Runs |-> 0]
  /\ superseded = {}
  /\ downpipe \in [Runs -> Downpipes]
  /\ canList \in BOOLEAN
  /\ pc = "idle"
  /\ cmd = NoCmd
  /\ kept = {}
  /\ dropped = {}
  /\ plan = NoPlan
  /\ todo = {}
  /\ runsLeft = {}
  /\ res = NoRes
  /\ exit = 0
  /\ receipt = NoReceipt

(* The backup engine *)

\* The engine finalises a run: its segments, its tree and its RUNLOG entry.
\* Runs of one account finalise out of index order.  A writer with a fresh
\* master per run names only new segments; a deduplicating writer may reuse any
\* segment of its own downpipe.
SealRun(r) ==
  /\ index[r] = 0
  /\ \E S \in SUBSET Segs, i \in Indices :
       /\ \A q \in Runs : index[q] # i
       /\ S \cap Live({q \in Logged : downpipe[q] # downpipe[r]}) = {}
       /\ pc = "idle" \/ SharingDuringPass \/ S \cap Live(Logged) = {}
       /\ refs' = [refs EXCEPT ![r] = S]
       /\ index' = [index EXCEPT ![r] = i]
       /\ store' = store \cup S \cup TreeOf(r)
  /\ UNCHANGED <<superseded, world, pc, cmd, kept, dropped, plan, todo, runsLeft,
                 res, exit, receipt>>

\* The engine's own retention marks an entry superseded and re-signs the log.
\* It never supersedes the newest run of a downpipe.
Supersede(r) ==
  /\ r \in Active
  /\ Newer(r) # {}
  /\ superseded' = superseded \cup {r}
  /\ UNCHANGED <<store, refs, index, world, pc, cmd, kept, dropped, plan, todo,
                 runsLeft, res, exit, receipt>>

-----------------------------------------------------------------------------
(* The pass *)

\* cmdPrune has resolved its flags, read the RUNLOG, verified its signature and
\* partitioned it.
Start(k, apply, withReceipt) ==
  /\ pc = "idle"
  /\ pc' = "enumerate"
  /\ cmd' = [keep |-> k, apply |-> apply, receipt |-> withReceipt]
  /\ kept' = Keep(k)
  /\ dropped' = Drop(k)
  /\ UNCHANGED <<archive, world, plan, todo, runsLeft, res, exit, receipt>>

\* The RUNLOG cannot be read, or its signature does not verify: nothing is opened.
RefuseRunlog ==
  /\ pc = "idle"
  /\ pc' = "ended"
  /\ exit' \in {1, 2, 11}
  /\ UNCHANGED <<archive, world, cmd, kept, dropped, plan, todo, runsLeft, res, receipt>>

\* Mutant of Enumerate: a retained run that does not open counts as an empty one.
EnumerateNeverAbstains ==
  /\ pc = "enumerate"
  /\ \E complete \in SUBSET {r \in kept \cup dropped : Readable(r)} :
       plan' = Compute(kept \cap complete, dropped, complete)
  /\ pc' = "intent"
  /\ UNCHANGED <<archive, world, cmd, kept, dropped, todo, runsLeft, res, exit, receipt>>

\* enumerate opens every run of both partitions; any open may fail.  Compute
\* abstains when a retained run is incomplete.
Enumerate ==
  /\ pc = "enumerate"
  /\ \E complete \in SUBSET {r \in kept \cup dropped : Readable(r)} :
       /\ ReadsMayFail \/ complete = {r \in kept \cup dropped : Readable(r)}
       /\ IF kept \subseteq complete
          THEN /\ plan' = Compute(kept, dropped, complete)
               /\ pc' = "intent"
               /\ exit' = exit
          ELSE /\ plan' = plan
               /\ pc' = "ended"
               /\ exit' = 2
  /\ UNCHANGED <<archive, world, cmd, kept, dropped, todo, runsLeft, res, receipt>>

\* Mutant of WriteIntent: a failed write does not stop the pass.
WriteIntentBestEffort ==
  /\ pc = "intent"
  /\ cmd.receipt
  /\ receipt' \in {receipt, [status |-> "started", res |-> NoRes]}
  /\ pc' = "apply"
  /\ UNCHANGED <<archive, world, cmd, kept, dropped, plan, todo, runsLeft, res, exit>>

\* applyWithReceipt records the intent before Apply runs.  A failed write is fatal.
WriteIntent ==
  /\ pc = "intent"
  /\ cmd.receipt
  /\ \/ /\ receipt' = [status |-> "started", res |-> NoRes]
        /\ pc' = "apply"
        /\ exit' = exit
     \/ /\ receipt' = receipt
        /\ pc' = "ended"
        /\ exit' = 1
  /\ UNCHANGED <<archive, world, cmd, kept, dropped, plan, todo, runsLeft, res>>

SkipIntent ==
  /\ pc = "intent"
  /\ ~cmd.receipt
  /\ pc' = "apply"
  /\ UNCHANGED <<archive, world, cmd, kept, dropped, plan, todo, runsLeft, res, exit, receipt>>

\* Apply refuses a destination that cannot list, before the first delete.
BeginApply ==
  /\ pc = "apply"
  /\ IF cmd.apply /\ ~canList
     THEN /\ pc' = "ended"
          /\ exit' = 1
          /\ UNCHANGED <<todo, runsLeft>>
     ELSE /\ pc' = "segments"
          /\ exit' = exit
          /\ todo' = plan.orphans
          /\ runsLeft' = plan.runs
  /\ UNCHANGED <<archive, world, cmd, kept, dropped, plan, res, receipt>>

\* The three answers a delete can get.  Deleting an absent key succeeds.  A
\* delete without a usable answer may have taken effect.
Deleted(k) ==
  /\ store' = store \ {k}
  /\ res' = [res EXCEPT !.deleted = @ \cup {k}]

\* Mutant of Refused: a refused delete is counted as a deletion.
RefusedCountedAsDeleted(k) ==
  /\ store' = store
  /\ res' = [res EXCEPT !.deleted = @ \cup {k}]

Refused(k) ==
  /\ store' = store
  /\ res' = [res EXCEPT !.refused = @ \cup {k}]

Failed(k) ==
  /\ store' \in {store, store \ {k}}
  /\ res' = [res EXCEPT !.failed = @ \cup {k}]

\* del: one key of the current loop.  A dry run deletes nothing.
Del(k) ==
  /\ pc \in {"segments", "tree"}
  /\ k \in todo
  /\ todo' = todo \ {k}
  /\ \/ cmd.apply /\ (Deleted(k) \/ Refused(k) \/ Failed(k))
     \/ ~cmd.apply /\ UNCHANGED <<store, res>>
  /\ UNCHANGED <<refs, index, superseded, world, pc, cmd, kept, dropped, plan, runsLeft,
                 exit, receipt>>

\* A loop has tried all its keys; the next run tree is listed, or the pass ends.
NextTree ==
  /\ pc \in {"segments", "tree"}
  /\ todo = {}
  /\ pc' = IF runsLeft = {} THEN "finish" ELSE "list"
  /\ UNCHANGED <<archive, world, cmd, kept, dropped, plan, todo, runsLeft, res, exit, receipt>>

\* The tree of run r is listed.  A held tree is counted and left alone.  A
\* backend without List yields no keys (dry run only).
ListTree(r) ==
  LET keys == IF canList THEN TreeOf(r) \cap store ELSE {}
  IN /\ pc = "list"
     /\ r \in runsLeft
     /\ runsLeft' = runsLeft \ {r}
     /\ pc' = "tree"
     /\ todo' = IF Held(r) THEN {} ELSE keys
     /\ res' = IF Held(r) THEN [res EXCEPT !.held = @ \cup keys] ELSE res
     /\ UNCHANGED <<archive, world, cmd, kept, dropped, plan, exit, receipt>>

\* A failed listing ends Apply midway; the receipt stays at "started".
ListFails ==
  /\ pc = "list"
  /\ canList
  /\ pc' = "ended"
  /\ exit' = 1
  /\ UNCHANGED <<archive, world, cmd, kept, dropped, plan, todo, runsLeft, res, receipt>>

\* Apply has returned.  The receipt is completed; a failed write only warns.
Finish ==
  /\ pc = "finish"
  /\ pc' = "ended"
  /\ exit' = PruneExit(res)
  /\ \/ cmd.receipt /\ receipt' = [status |-> "completed", res |-> res]
     \/ receipt' = receipt
  /\ UNCHANGED <<archive, world, cmd, kept, dropped, plan, todo, runsLeft, res>>

Reset ==
  /\ pc' = "idle"
  /\ cmd' = NoCmd
  /\ kept' = {}
  /\ dropped' = {}
  /\ plan' = NoPlan
  /\ todo' = {}
  /\ runsLeft' = {}
  /\ res' = NoRes
  /\ exit' = 0
  /\ receipt' = NoReceipt
  /\ UNCHANGED <<archive, world>>

\* The process exits; the next pass starts from the archive alone.
Exit == pc = "ended" /\ Reset

\* The process dies between two steps (a closed laptop, a dropped session).
Crash == pc \notin {"idle", "ended"} /\ Reset

Pass ==
  \/ \E k \in 1..MaxKeep, apply \in ApplyFlags, withReceipt \in ReceiptFlags :
       Start(k, apply, withReceipt)
  \/ RefuseRunlog
  \/ Enumerate
  \/ WriteIntent
  \/ SkipIntent
  \/ BeginApply
  \/ \E k \in Segs \cup TreeKeys : Del(k)
  \/ NextTree
  \/ \E r \in Runs : ListTree(r)
  \/ ListFails
  \/ Finish
  \/ Exit
  \/ Crash

Engine == \E r \in Runs : SealRun(r) \/ Supersede(r)

Next == Pass \/ Engine

Spec == Init /\ [][Next]_vars

(***************************************************************************)
(* Used where every pass is applied at --keep 1 without a receipt: the     *)
(* operator keeps running passes, and no fault lasts for ever.  Reads,     *)
(* deletes and listings that are tried again and again work once in a      *)
(* while, and a process that keeps dying gets past each point in the end.  *)
(***************************************************************************)
SkippedUnreadable == \A r \in plan.skipped : ~Readable(r)

Fairness ==
  /\ WF_vars(Pass)
  /\ SF_vars(\E withReceipt \in ReceiptFlags : Start(1, TRUE, withReceipt))
  /\ SF_vars(Enumerate /\ pc' = "intent" /\ SkippedUnreadable')
  /\ SF_vars(SkipIntent /\ SkippedUnreadable)
  /\ SF_vars(BeginApply /\ SkippedUnreadable)
  /\ SF_vars(NextTree)
  /\ SF_vars(\E r \in Runs : ListTree(r))
  /\ SF_vars(Finish)
  /\ \A k \in Segs \cup TreeKeys : SF_vars(Del(k) /\ k \in res'.deleted)

FairSpec == Spec /\ Fairness

-----------------------------------------------------------------------------
(* Properties *)

Result == [deleted: SUBSET (Segs \cup TreeKeys), refused: SUBSET (Segs \cup TreeKeys),
           failed: SUBSET (Segs \cup TreeKeys), held: SUBSET (Segs \cup TreeKeys)]

\* Every variable keeps its type; no run is kept, dropped or superseded that the
\* RUNLOG does not list.
TypeOK ==
  /\ store \subseteq Segs \cup TreeKeys
  /\ refs \in [Runs -> SUBSET Segs]
  /\ index \in [Runs -> Indices \cup {0}]
  /\ superseded \subseteq Logged
  /\ downpipe \in [Runs -> Downpipes]
  /\ canList \in BOOLEAN
  /\ pc \in {"idle", "enumerate", "intent", "apply", "segments", "list", "tree", "finish", "ended"}
  /\ cmd \in [keep: 1..MaxKeep, apply: BOOLEAN, receipt: BOOLEAN]
  /\ kept \subseteq Logged
  /\ dropped \subseteq Logged
  /\ plan \in [orphans: SUBSET Segs, runs: SUBSET Runs, skipped: SUBSET Runs,
               byRun: [Runs -> SUBSET Segs]]
  /\ todo \subseteq Segs \cup TreeKeys
  /\ runsLeft \subseteq Runs
  /\ res \in Result
  /\ exit \in {0, 1, 2, 11, 14}
  /\ receipt \in [status: {"none", "started", "completed"}, res: Result]

\* Compute's safety argument (plan.go, the asymmetric rule): whatever happens
\* between the passes and inside them, the newest active run of every downpipe
\* has its whole tree and every segment it references.
NewestRunRestorable ==
  \A r \in Active :
    (\A q \in Active : downpipe[q] = downpipe[r] => index[q] <= index[r])
      => TreeOf(r) \cup refs[r] \subseteq store

\* "A segment referenced by ANY retained run is never an orphan" (plan.go): no
\* step removes a segment named by a run outside the drop list, a run sealed
\* after the RUNLOG was read included.
LiveSegmentsSurvive ==
  [][\A s \in Segs : s \in store \ store' => \A r \in Logged \ dropped : s \notin refs[r]]_vars

\* Apply's order (segments, then trees; a held tree stays): a segment still in
\* the destination is always named by some run whose tree is whole, so a later
\* pass can find it again.
NothingStranded ==
  \A s \in Segs \cap store : \E r \in Logged : s \in refs[r] /\ Readable(r)

\* RECOVER.md: prune --apply exits 14 when an object it planned to delete is
\* still in the destination.  Exit 0 of an applied pass means none is.
ExitZeroMeansPlanDone ==
  pc = "ended" /\ exit = 0 /\ cmd.apply =>
    store \cap (plan.orphans \cup UNION {TreeOf(r) : r \in plan.runs}) = {}

\* receipt.go: the intent is on disk before the first delete of a pass that was
\* asked for a receipt, and it is still "started" while deletes go on.
IntentBeforeDelete ==
  [][~(store \subseteq store') /\ cmd.receipt => receipt.status = "started"]_vars

\* receipt.go: a completed receipt reports as deleted only objects that are
\* gone, and every planned object still in the destination is counted as
\* refused, failed or held.
ReceiptAccounts ==
  pc = "ended" /\ receipt.status = "completed" /\ cmd.apply =>
    /\ receipt.res.deleted \cap store = {}
    /\ store \cap (plan.orphans \cup UNION {TreeOf(r) : r \in plan.runs})
         \subseteq receipt.res.refused \cup receipt.res.failed \cup receipt.res.held

\* Apply keeps the tree of a run whose segment was not deleted "so a later pass
\* can open it and find that segment again": where trees can be listed, every
\* segment the policy no longer retains is deleted in the end, whatever refusals,
\* lost answers and crashes come first.
SegmentsReclaimed ==
  \A s \in Segs : []<>(canList => s \notin store \/ s \in Live(Keep(1)))

\* receipt.go on FailedCount: "A later prune retries them."  RECOVER.md: "running
\* prune again retries it."  Stated for run-tree objects.
FailedDeletesRetried ==
  \A k \in TreeKeys : k \in res.failed ~> k \notin store
=============================================================================
