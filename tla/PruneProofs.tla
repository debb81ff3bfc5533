---------------------------- MODULE PruneProofs ----------------------------
(***************************************************************************)
(* Proofs about the retention prune, for any runs, segments, downpipes,    *)
(* tree objects and retention count.                                       *)
(***************************************************************************)
EXTENDS Prune, FiniteSetTheorems, TLAPS

\* The pass has a plan and may still delete.
Applying == {"intent", "apply", "segments", "list", "tree", "finish"}

\* r is the newest active run of its downpipe.
Newest(r) ==
  /\ r \in Active
  /\ \A q \in Active : downpipe[q] = downpipe[r] => index[q] <= index[r]

\* A run the pass drops is never the newest of its downpipe, and is not retained.
DroppedNotNewest ==
  /\ \A r \in dropped : ~Newest(r)
  /\ kept \cap dropped = {}

\* A run sealed since the RUNLOG was read shares no segment with a dropped run.
LateRunsFresh ==
  pc = "enumerate" =>
    \A r \in Logged \ (kept \cup dropped) : \A q \in dropped : refs[r] \cap refs[q] = {}

\* The plan spares the segments of every run outside the drop list, names only
\* segments some logged run references, and is empty until it is computed.
PlanSpares ==
  /\ \A r \in Logged \ dropped : plan.orphans \cap refs[r] = {}
  /\ plan.orphans \subseteq Live(Logged)
  /\ plan.runs \subseteq dropped
  /\ pc \in {"idle", "enumerate"} => plan.orphans = {} /\ plan.runs = {}

\* A loop holds only keys and runs the plan covers.
LoopPlanned ==
  /\ pc \in {"segments", "list", "tree"} => runsLeft \subseteq plan.runs
  /\ pc = "segments" => todo \subseteq plan.orphans
  /\ pc = "tree" => \A k \in todo : k \in TreeKeys /\ k[1] \in plan.runs

\* The inductive invariant behind NewestRunRestorable and LiveSegmentsSurvive.
SafeInv ==
  /\ TypeOK
  /\ DroppedNotNewest
  /\ LateRunsFresh
  /\ PlanSpares
  /\ LoopPlanned
  /\ NewestRunRestorable

\* Retained runs stay readable while the pass may delete.
KeptReadable == pc \in Applying => \A r \in kept : Readable(r)

\* A segment of a planned run is one of its orphans or belongs to a retained run.
OrphansByRun ==
  pc \in Applying =>
    \A r \in plan.runs : /\ refs[r] \subseteq plan.byRun[r] \cup Live(kept)
                          /\ plan.byRun[r] \subseteq plan.orphans

\* What the pass counts as deleted is planned, and is gone.
DeletedGone ==
  /\ pc \in {"idle", "enumerate"} => res.deleted = {}
  /\ pc \in Applying =>
       /\ res.deleted \cap store = {}
       /\ \A k \in res.deleted : k \in plan.orphans \/ (k \in TreeKeys /\ k[1] \in plan.runs)

\* A tree in the delete loop has none of its orphan segments left.
LoopTreesBare ==
  pc = "tree" /\ cmd.apply => \A k \in todo : plan.byRun[k[1]] \cap store = {}

\* The inductive invariant behind NothingStranded.
StrandInv ==
  /\ SafeInv
  /\ KeptReadable
  /\ OrphansByRun
  /\ DeletedGone
  /\ LoopTreesBare
  /\ NothingStranded

-----------------------------------------------------------------------------
(* Type correctness *)

LEMMA InitTyped == Init => TypeOK
BY PruneAssumption DEF Init, TypeOK, NoCmd, NoPlan, NoRes, NoReceipt, Result, Logged

\* Only the engine changes the RUNLOG, and it only adds to it.
LEMMA EngineTyped ==
  ASSUME TypeOK, NEW r \in Runs, SealRun(r) \/ Supersede(r)
  PROVE  TypeOK' /\ Logged \subseteq Logged'
<1>1. CASE SealRun(r)
  <2> PICK S \in SUBSET Segs, i \in Indices :
        /\ refs' = [refs EXCEPT ![r] = S]
        /\ index' = [index EXCEPT ![r] = i]
        /\ store' = store \cup S \cup TreeOf(r)
    BY <1>1 DEF SealRun
  <2>1. UNCHANGED <<superseded, world, pc, cmd, kept, dropped, plan, todo, runsLeft, res,
                    exit, receipt>>
    BY <1>1 DEF SealRun
  <2>2. /\ index' \in [Runs -> Indices \cup {0}]
        /\ refs' \in [Runs -> SUBSET Segs]
        /\ store' \subseteq Segs \cup TreeKeys
    BY DEF TypeOK, TreeOf, TreeKeys
  <2>3. Logged \subseteq Logged'
    BY PruneAssumption DEF TypeOK, Logged
  <2> QED
    BY <2>1, <2>2, <2>3 DEF TypeOK, world
<1>2. CASE Supersede(r)
  BY <1>2 DEF Supersede, TypeOK, world, Logged, Active
<1> QED
  BY <1>1, <1>2

LEMMA ComputeTyped ==
  ASSUME TypeOK, NEW complete
  PROVE  Compute(kept, dropped, complete) \in
           [orphans: SUBSET Segs, runs: SUBSET Runs, skipped: SUBSET Runs,
            byRun: [Runs -> SUBSET Segs]]
<1>1. refs \in [Runs -> SUBSET Segs] /\ dropped \subseteq Runs
  BY DEF TypeOK, Logged
<1>2. UNION {refs[r] : r \in dropped \cap complete} \subseteq Segs
  BY <1>1
<1> QED
  BY <1>1, <1>2 DEF Compute

\* Del removes at most its key, and it records the answer.
LEMMA DelTyped ==
  ASSUME TypeOK, NEW k \in Segs \cup TreeKeys, Del(k)
  PROVE  /\ store' \in {store, store \ {k}}
         /\ res' \in Result
         /\ ~cmd.apply => store' = store /\ res' = res
<1>1. CASE Deleted(k) \/ Refused(k) \/ Failed(k)
  BY <1>1 DEF Del, Deleted, Refused, Failed, TypeOK, Result
<1>2. CASE UNCHANGED <<store, res>>
  BY <1>2 DEF TypeOK
<1> QED
  BY <1>1, <1>2 DEF Del

LEMMA PassTyped ==
  ASSUME TypeOK, Pass
  PROVE  TypeOK'
<1>1. ASSUME NEW k \in 1..MaxKeep, NEW apply \in ApplyFlags, NEW withReceipt \in ReceiptFlags,
             Start(k, apply, withReceipt)
      PROVE  TypeOK'
  BY <1>1, PruneAssumption DEF Start, TypeOK, Keep, Drop, Active, Logged, archive, world
<1>2. CASE RefuseRunlog
  BY <1>2 DEF RefuseRunlog, TypeOK, Logged, archive, world
<1>3. CASE Enumerate
  <2>1. plan' \in [orphans: SUBSET Segs, runs: SUBSET Runs, skipped: SUBSET Runs,
                   byRun: [Runs -> SUBSET Segs]]
    BY <1>3, ComputeTyped DEF Enumerate, TypeOK
  <2> QED
    BY <1>3, <2>1 DEF Enumerate, TypeOK, Logged, archive, world
<1>4. CASE WriteIntent
  BY <1>4 DEF WriteIntent, TypeOK, Logged, archive, world, NoRes, Result
<1>5. CASE SkipIntent
  BY <1>5 DEF SkipIntent, TypeOK, Logged, archive, world
<1>6. CASE BeginApply
  BY <1>6 DEF BeginApply, TypeOK, Logged, archive, world
<1>7. ASSUME NEW k \in Segs \cup TreeKeys, Del(k)
      PROVE  TypeOK'
  <2>1. store' \subseteq store /\ res' \in Result
    BY <1>7, DelTyped
  <2> QED
    BY <1>7, <2>1 DEF Del, TypeOK, Logged, world
<1>8. CASE NextTree
  BY <1>8 DEF NextTree, TypeOK, Logged, archive, world
<1>9. ASSUME NEW r \in Runs, ListTree(r)
      PROVE  TypeOK'
  <2>1. todo' \subseteq Segs \cup TreeKeys /\ res' \in Result
    BY <1>9 DEF ListTree, TypeOK, TreeOf, TreeKeys, Result
  <2> QED
    BY <1>9, <2>1 DEF ListTree, TypeOK, Logged, archive, world
<1>10. CASE ListFails
  BY <1>10 DEF ListFails, TypeOK, Logged, archive, world
<1>11. CASE Finish
  BY <1>11 DEF Finish, TypeOK, Logged, archive, world, PruneExit
<1>12. CASE Exit \/ Crash
  <2>1. /\ NoCmd \in [keep: 1..MaxKeep, apply: BOOLEAN, receipt: BOOLEAN]
        /\ NoPlan \in [orphans: SUBSET Segs, runs: SUBSET Runs, skipped: SUBSET Runs,
                       byRun: [Runs -> SUBSET Segs]]
        /\ NoRes \in Result
        /\ NoReceipt \in [status: {"none", "started", "completed"}, res: Result]
    BY PruneAssumption DEF NoCmd, NoPlan, NoRes, NoReceipt, Result
  <2> QED
    BY <1>12, <2>1 DEF Exit, Crash, Reset, TypeOK, Logged, archive, world
<1> QED
  BY <1>1, <1>2, <1>3, <1>4, <1>5, <1>6, <1>7, <1>8, <1>9, <1>10, <1>11, <1>12 DEF Pass

LEMMA NextTyped == TypeOK /\ [Next]_vars => TypeOK'
<1> SUFFICES ASSUME TypeOK, [Next]_vars PROVE TypeOK'
  OBVIOUS
<1>1. CASE Pass
  BY <1>1, PassTyped
<1>2. CASE Engine
  BY <1>2, EngineTyped DEF Engine
<1>3. CASE UNCHANGED vars
  BY <1>3 DEF vars, TypeOK, Logged
<1> QED
  BY <1>1, <1>2, <1>3 DEF Next

\* Type correctness of the prune: the archive, the RUNLOG and the pass keep
\* their types over every sequence of passes, crashes and engine writes.
THEOREM TypeCorrect == Spec => []TypeOK
BY InitTyped, NextTyped, PTL DEF Spec

-----------------------------------------------------------------------------
(* The newest run of every downpipe *)

LEMMA IndexNat ==
  ASSUME TypeOK
  PROVE  \A r \in Runs : index[r] \in Nat
<1> SUFFICES ASSUME NEW r \in Runs PROVE index[r] \in Nat
  OBVIOUS
<1>1. index[r] \in Indices \/ index[r] = 0
  BY DEF TypeOK
<1>2. \A i \in Indices : i \in Nat
  BY PruneAssumption
<1> QED
  BY <1>1, <1>2

\* A run Partition drops is superseded, or a newer active run exists.
LEMMA DropNotNewest ==
  ASSUME TypeOK, NEW k \in 1..MaxKeep, NEW r \in Drop(k)
  PROVE  ~Newest(r)
<1> SUFFICES ASSUME Newest(r) PROVE FALSE
  OBVIOUS
<1>1. r \in Active /\ ~(Cardinality(Newer(r)) < k)
  BY DEF Newest, Drop, Keep
<1>2. Newer(r) = {}
  <2> SUFFICES ASSUME NEW q \in Newer(r) PROVE FALSE
    OBVIOUS
  <2>1. index[q] <= index[r] /\ index[q] > index[r]
    BY DEF Newest, Newer
  <2>2. index[q] \in Nat /\ index[r] \in Nat
    BY <1>1, IndexNat DEF Newer, Active, Logged
  <2> QED
    BY <2>1, <2>2
<1>3. Cardinality(Newer(r)) = 0
  BY <1>2, FS_EmptySet
<1> QED
  BY <1>1, <1>3, PruneAssumption

\* The engine makes no run the newest except the one it seals: it supersedes a
\* run only when a newer one is active.
LEMMA EngineNewest ==
  ASSUME TypeOK, NEW r \in Runs, SealRun(r) \/ Supersede(r), NEW q \in Runs, Newest(q)'
  PROVE  Newest(q) \/ (q = r /\ SealRun(r))
<1> SUFFICES ASSUME ~(q = r /\ SealRun(r)) PROVE Newest(q)
  OBVIOUS
<1>0. \A p \in Runs : index[p] \in Nat
  BY IndexNat
<1>1. CASE SealRun(r)
  <2>1. \A p \in Runs \ {r} : index'[p] = index[p]
    BY <1>1 DEF SealRun, TypeOK
  <2>2. superseded' = superseded /\ downpipe' = downpipe /\ r \notin Active /\ q # r
    BY <1>1 DEF SealRun, world, Active, Logged
  <2>3. Active \subseteq Active' /\ q \in Active
    BY <2>1, <2>2 DEF Newest, Active, Logged
  <2> QED
    BY <2>1, <2>2, <2>3 DEF Newest, Active, Logged
<1>2. CASE Supersede(r)
  <2>1. /\ index' = index /\ downpipe' = downpipe
        /\ superseded' = superseded \cup {r} /\ r \in Active
    BY <1>2 DEF Supersede, world
  <2>2. PICK p \in Active : downpipe[p] = downpipe[r] /\ index[p] > index[r]
    BY <1>2 DEF Supersede, Newer
  <2>3. p \in Active' /\ Active' = Active \ {r} /\ q \in Active
    BY <1>0, <2>1, <2>2 DEF Active, Logged, Newest
  <2>4. ASSUME NEW x \in Active, downpipe[x] = downpipe[q] PROVE index[x] <= index[q]
    <3>1. CASE x # r
      BY <2>1, <2>3, <2>4, <3>1 DEF Newest
    <3>2. CASE x = r
      <4>1. index[p] <= index[q]
        BY <2>1, <2>2, <2>3, <2>4, <3>2 DEF Newest
      <4> QED
        BY <1>0, <2>2, <2>4, <3>2, <4>1 DEF Active, Logged
    <3> QED
      BY <3>1, <3>2
  <2> QED
    BY <2>3, <2>4 DEF Newest
<1> QED
  BY <1>1, <1>2

LEMMA InitSafe == Init => SafeInv
<1> SUFFICES ASSUME Init PROVE SafeInv
  OBVIOUS
<1>1. TypeOK
  BY InitTyped
<1>2. Logged = {}
  BY DEF Init, Logged
<1> QED
  BY <1>1, <1>2 DEF Init, SafeInv, DroppedNotNewest, LateRunsFresh, PlanSpares, LoopPlanned,
     NewestRunRestorable, Active, NoPlan

\* A step that leaves the archive, the partition and the plan alone.
LEMMA QuietSafe ==
  ASSUME SafeInv, UNCHANGED <<archive, world, kept, dropped, plan>>,
         pc \notin {"idle", "enumerate"}, pc' \notin {"idle", "enumerate"},
         TypeOK', LoopPlanned'
  PROVE  SafeInv'
BY DEF SafeInv, archive, world, DroppedNotNewest, LateRunsFresh, PlanSpares,
       NewestRunRestorable, Newest, Active, Logged, Live, TreeOf

\* The engine seals a run: its segments are new to the pass under way.
LEMMA SealSafe ==
  ASSUME SafeInv, ~SharingDuringPass, NEW r \in Runs, SealRun(r)
  PROVE  SafeInv'
<1>0. TypeOK' /\ TypeOK
  BY EngineTyped DEF SafeInv
<1> PICK S \in SUBSET Segs, i \in Indices :
      /\ pc = "idle" \/ S \cap Live(Logged) = {}
      /\ refs' = [refs EXCEPT ![r] = S]
      /\ index' = [index EXCEPT ![r] = i]
      /\ store' = store \cup S \cup TreeOf(r)
  BY DEF SealRun
<1>1. /\ superseded' = superseded /\ downpipe' = downpipe /\ pc' = pc /\ kept' = kept
      /\ dropped' = dropped /\ plan' = plan /\ todo' = todo /\ runsLeft' = runsLeft
  BY DEF SealRun, world
<1>2. r \notin Logged /\ Logged' = Logged \cup {r}
  BY <1>0, PruneAssumption DEF SealRun, Logged, TypeOK
<1>3. refs'[r] = S /\ \A q \in Runs \ {r} : refs'[q] = refs[q]
  BY <1>0 DEF TypeOK
<1>4. kept \subseteq Logged /\ dropped \subseteq Logged /\ Logged \subseteq Runs
  BY <1>0 DEF TypeOK, Logged
<1>5. Live(Logged) \subseteq Live(Logged)'
  BY <1>2, <1>3, <1>4 DEF Live
<1>6. DroppedNotNewest'
  BY <1>0, <1>1, <1>2, <1>4, EngineNewest DEF SafeInv, DroppedNotNewest
<1>7. LateRunsFresh'
  <2> SUFFICES ASSUME pc = "enumerate", NEW x \in Logged' \ (kept \cup dropped), NEW q \in dropped
               PROVE  refs'[x] \cap refs'[q] = {}
    BY <1>1 DEF LateRunsFresh
  <2>1. refs'[q] = refs[q] /\ refs[q] \subseteq Live(Logged)
    BY <1>2, <1>3, <1>4 DEF Live
  <2>2. CASE x = r
    BY <1>3, <2>1, <2>2
  <2>3. CASE x # r
    BY <1>2, <1>3, <1>4, <2>1, <2>3 DEF SafeInv, LateRunsFresh
  <2> QED
    BY <2>2, <2>3
<1>8. PlanSpares'
  BY <1>1, <1>2, <1>3, <1>4, <1>5 DEF SafeInv, PlanSpares
<1>9. NewestRunRestorable'
  <2> SUFFICES ASSUME NEW q \in Runs, Newest(q)'
               PROVE  TreeOf(q) \cup refs'[q] \subseteq store'
    BY DEF NewestRunRestorable, Newest, Active, Logged, TreeOf
  <2>1. CASE q = r
    BY <1>3, <2>1
  <2>2. CASE q # r
    BY <1>0, <1>3, <2>2, EngineNewest DEF SafeInv, NewestRunRestorable, Newest
  <2> QED
    BY <2>1, <2>2
<1> QED
  BY <1>0, <1>1, <1>6, <1>7, <1>8, <1>9 DEF SafeInv, LoopPlanned

LEMMA SupersedeSafe ==
  ASSUME SafeInv, NEW r \in Runs, Supersede(r)
  PROVE  SafeInv'
<1>0. TypeOK' /\ TypeOK
  BY EngineTyped DEF SafeInv
<1>1. /\ UNCHANGED <<store, refs, index, pc, kept, dropped, plan, todo, runsLeft>>
      /\ ~SealRun(r)
  BY DEF Supersede, SealRun, Active, Logged
<1>2. Logged' = Logged /\ dropped \subseteq Runs /\ Live(Logged)' = Live(Logged)
  BY <1>0, <1>1 DEF Logged, TypeOK, Live
<1>3. DroppedNotNewest'
  BY <1>0, <1>1, <1>2, EngineNewest DEF SafeInv, DroppedNotNewest
<1>4. LateRunsFresh' /\ PlanSpares' /\ LoopPlanned'
  BY <1>1, <1>2 DEF SafeInv, LateRunsFresh, PlanSpares, LoopPlanned
<1>5. NewestRunRestorable'
  <2> SUFFICES ASSUME NEW q \in Runs, Newest(q)'
               PROVE  TreeOf(q) \cup refs[q] \subseteq store
    BY <1>1 DEF NewestRunRestorable, Newest, Active, Logged, TreeOf
  <2> QED
    BY <1>0, <1>1, EngineNewest DEF SafeInv, NewestRunRestorable, Newest
<1> QED
  BY <1>0, <1>3, <1>4, <1>5 DEF SafeInv

LEMMA StartSafe ==
  ASSUME SafeInv, NEW k \in 1..MaxKeep, NEW apply, NEW withReceipt,
         Start(k, apply, withReceipt), TypeOK'
  PROVE  SafeInv'
<1>1. /\ UNCHANGED <<store, refs, index, superseded, downpipe, plan, todo, runsLeft>>
      /\ pc = "idle" /\ pc' = "enumerate" /\ kept' = Keep(k) /\ dropped' = Drop(k)
  BY DEF Start, archive, world
<1>2. /\ Logged' = Logged /\ Active' = Active /\ Live(Logged)' = Live(Logged)
      /\ \A r \in Runs : Newest(r)' = Newest(r)
  BY <1>1 DEF Logged, Active, Live, Newest
<1>3. DroppedNotNewest'
  <2>1. Drop(k) \subseteq Runs
    BY DEF Drop, Logged
  <2>2. \A r \in Drop(k) : ~Newest(r)
    BY DropNotNewest DEF SafeInv
  <2> QED
    BY <1>1, <1>2, <2>1, <2>2 DEF DroppedNotNewest, Drop
<1>4. LateRunsFresh'
  BY <1>1, <1>2 DEF LateRunsFresh, Drop
<1>5. PlanSpares'
  BY <1>1, <1>2 DEF SafeInv, PlanSpares
<1>6. NewestRunRestorable'
  BY <1>1, <1>2 DEF SafeInv, NewestRunRestorable, TreeOf
<1> QED
  BY <1>1, <1>3, <1>4, <1>5, <1>6 DEF SafeInv, LoopPlanned

\* An orphan belongs to an enumerated dropped run and to no retained run.
LEMMA OrphanMember ==
  ASSUME NEW K, NEW D, NEW C, NEW s \in Compute(K, D, C).orphans
  PROVE  (\E q \in D \cap C : s \in refs[q]) /\ (\A q \in K : s \notin refs[q])
<1>1. Compute(K, D, C).orphans = (UNION {refs[r] : r \in D \cap C}) \ Live(K)
  BY DEF Compute
<1>2. s \in UNION {refs[r] : r \in D \cap C}
  BY <1>1
<1>3. s \notin Live(K)
  BY <1>1
<1>4. \E q \in D \cap C : s \in refs[q]
  BY <1>2
<1>5. \A q \in K : s \notin refs[q]
  BY <1>3 DEF Live
<1> QED
  BY <1>4, <1>5

\* Compute subtracts the retained side, and abstains without it.
LEMMA EnumerateSafe ==
  ASSUME SafeInv, Enumerate, TypeOK'
  PROVE  SafeInv'
<1>1. /\ UNCHANGED <<store, refs, index, superseded, downpipe, kept, dropped, todo, runsLeft>>
      /\ pc = "enumerate" /\ pc' \in {"intent", "ended"}
  BY DEF Enumerate, archive, world
<1>2. /\ Logged' = Logged /\ Active' = Active /\ Live(Logged)' = Live(Logged)
      /\ \A r \in Runs : Newest(r)' = Newest(r)
  BY <1>1 DEF Logged, Active, Live, Newest
<1>3. dropped \subseteq Logged /\ Logged \subseteq Runs
  BY DEF SafeInv, TypeOK, Logged
<1>4. PlanSpares'
  <2>1. CASE pc' = "ended"
    BY <1>1, <1>2, <2>1 DEF Enumerate, SafeInv, PlanSpares
  <2>2. CASE pc' = "intent"
    <3> PICK complete \in SUBSET {r \in kept \cup dropped : Readable(r)} :
          IF kept \subseteq complete
          THEN plan' = Compute(kept, dropped, complete)
          ELSE pc' = "ended"
      BY DEF Enumerate
    <3>0. plan' = Compute(kept, dropped, complete)
      BY <2>2
    <3>1. plan'.runs = dropped \cap complete
      BY <3>0 DEF Compute
    <3>2. /\ \A s \in plan'.orphans : \E q \in dropped : s \in refs[q]
          /\ \A s \in plan'.orphans : \A q \in kept : s \notin refs[q]
      BY <3>0, OrphanMember
    <3>3. plan'.orphans \subseteq Live(Logged)
      BY <1>3, <3>2 DEF Live
    <3>4. ASSUME NEW r \in Logged \ dropped, NEW s \in plan'.orphans
          PROVE  s \notin refs[r]
      <4>1. CASE r \in kept
        BY <3>2, <4>1
      <4>2. CASE r \notin kept
        BY <1>1, <3>2, <4>2 DEF SafeInv, LateRunsFresh
      <4> QED
        BY <4>1, <4>2
    <3> QED
      BY <1>1, <1>2, <2>2, <3>1, <3>3, <3>4 DEF PlanSpares
  <2> QED
    BY <1>1, <2>1, <2>2
<1>5. DroppedNotNewest' /\ LateRunsFresh' /\ LoopPlanned'
  BY <1>1, <1>2, <1>3 DEF SafeInv, DroppedNotNewest, LateRunsFresh, LoopPlanned
<1>6. NewestRunRestorable'
  BY <1>1, <1>2 DEF SafeInv, NewestRunRestorable, TreeOf
<1> QED
  BY <1>4, <1>5, <1>6 DEF SafeInv

\* Del removes a planned segment or an object of a planned tree, so nothing of
\* the newest run.
LEMMA DelSafe ==
  ASSUME SafeInv, NEW k \in Segs \cup TreeKeys, Del(k), TypeOK'
  PROVE  SafeInv'
<1>1. /\ UNCHANGED <<refs, index, superseded, downpipe, pc, kept, dropped, plan, runsLeft>>
      /\ pc \in {"segments", "tree"} /\ k \in todo /\ todo' \subseteq todo
  BY DEF Del, world
<1>2. store' \in {store, store \ {k}}
  BY DelTyped DEF SafeInv
<1>3. /\ Logged' = Logged /\ Active' = Active /\ Live(Logged)' = Live(Logged)
      /\ \A r \in Runs : Newest(r)' = Newest(r)
  BY <1>1 DEF Logged, Active, Live, Newest
<1>4. NewestRunRestorable'
  <2> SUFFICES ASSUME NEW r \in Runs, Newest(r)
               PROVE  TreeOf(r) \cup refs[r] \subseteq store'
    BY <1>1, <1>3 DEF NewestRunRestorable, Newest, Active, Logged, TreeOf
  <2>1. TreeOf(r) \cup refs[r] \subseteq store
    BY DEF SafeInv, NewestRunRestorable, Newest
  <2>2. r \in Logged \ dropped
    BY DEF SafeInv, DroppedNotNewest, Newest, Active
  <2>3. TreeOf(r) \subseteq TreeKeys /\ refs[r] \subseteq Segs
    BY DEF TreeOf, TreeKeys, SafeInv, TypeOK
  <2>4. k \notin TreeOf(r) \cup refs[r]
    <3>1. CASE pc = "segments"
      <4>1. k \in plan.orphans /\ k \in Segs
        BY <1>1, <3>1 DEF SafeInv, LoopPlanned, TypeOK
      <4> QED
        BY <2>2, <2>3, <4>1, PruneAssumption DEF SafeInv, PlanSpares
    <3>2. CASE pc = "tree"
      <4>1. k \in TreeKeys /\ k[1] \in dropped
        BY <1>1, <3>2 DEF SafeInv, LoopPlanned, PlanSpares
      <4>2. k \notin TreeOf(r)
        BY <2>2, <4>1 DEF TreeOf
      <4> QED
        BY <2>3, <4>1, <4>2, PruneAssumption
    <3> QED
      BY <1>1, <3>1, <3>2
  <2> QED
    BY <1>2, <2>1, <2>4
<1>5. DroppedNotNewest' /\ LateRunsFresh' /\ PlanSpares' /\ LoopPlanned'
  <2>1. dropped \subseteq Runs
    BY DEF SafeInv, TypeOK, Logged
  <2> QED
    BY <1>1, <1>3, <2>1 DEF SafeInv, DroppedNotNewest, LateRunsFresh, PlanSpares, LoopPlanned
<1> QED
  BY <1>4, <1>5 DEF SafeInv

LEMMA ResetSafe ==
  ASSUME SafeInv, Reset, TypeOK'
  PROVE  SafeInv'
<1>1. /\ UNCHANGED <<store, refs, index, superseded, downpipe>>
      /\ pc' = "idle" /\ kept' = {} /\ dropped' = {} /\ plan' = NoPlan /\ todo' = {}
      /\ runsLeft' = {}
  BY DEF Reset, archive, world
<1>2. NewestRunRestorable'
  BY <1>1 DEF SafeInv, NewestRunRestorable, TreeOf, Active, Logged
<1> QED
  BY <1>1, <1>2 DEF SafeInv, DroppedNotNewest, LateRunsFresh, PlanSpares, LoopPlanned, NoPlan

LEMMA PassSafe ==
  ASSUME SafeInv, Pass
  PROVE  SafeInv'
<1>0. TypeOK /\ TypeOK'
  BY PassTyped DEF SafeInv
<1>1. ASSUME NEW k \in 1..MaxKeep, NEW apply \in ApplyFlags, NEW withReceipt \in ReceiptFlags,
             Start(k, apply, withReceipt)
      PROVE  SafeInv'
  BY <1>0, <1>1, StartSafe
<1>2. CASE RefuseRunlog
  <2>1. UNCHANGED <<archive, world, kept, dropped, plan>> /\ pc' = "ended"
    BY <1>2 DEF RefuseRunlog
  <2> QED
    BY <1>0, <2>1 DEF SafeInv, archive, world, DroppedNotNewest, LateRunsFresh, PlanSpares,
       LoopPlanned, NewestRunRestorable, Newest, Active, Logged, Live, TreeOf
<1>3. CASE Enumerate
  BY <1>0, <1>3, EnumerateSafe
<1>4. CASE WriteIntent
  BY <1>0, <1>4, QuietSafe DEF WriteIntent, LoopPlanned
<1>5. CASE SkipIntent
  BY <1>0, <1>5, QuietSafe DEF SkipIntent, LoopPlanned
<1>6. CASE BeginApply
  <2>1. UNCHANGED <<archive, world, kept, dropped, plan>> /\ pc = "apply" /\ pc' \in {"ended", "segments"}
    BY <1>6 DEF BeginApply
  <2>2. LoopPlanned'
    BY <1>6, <2>1 DEF BeginApply, LoopPlanned
  <2> QED
    BY <1>0, <2>1, <2>2, QuietSafe
<1>7. ASSUME NEW k \in Segs \cup TreeKeys, Del(k)
      PROVE  SafeInv'
  BY <1>0, <1>7, DelSafe
<1>8. CASE NextTree
  <2>1. LoopPlanned'
    BY <1>8 DEF NextTree, LoopPlanned, SafeInv
  <2> QED
    BY <1>0, <1>8, <2>1, QuietSafe DEF NextTree
<1>9. ASSUME NEW r \in Runs, ListTree(r)
      PROVE  SafeInv'
  <2>1. /\ UNCHANGED <<archive, world, kept, dropped, plan>> /\ pc = "list" /\ pc' = "tree"
        /\ r \in runsLeft /\ runsLeft' \subseteq runsLeft /\ todo' \subseteq TreeOf(r)
    BY <1>9 DEF ListTree
  <2>2. \A k \in TreeOf(r) : k \in TreeKeys /\ k[1] = r
    BY DEF TreeOf, TreeKeys
  <2>3. LoopPlanned'
    BY <2>1, <2>2 DEF SafeInv, LoopPlanned
  <2> QED
    BY <1>0, <2>1, <2>3, QuietSafe
<1>10. CASE ListFails
  BY <1>0, <1>10, QuietSafe DEF ListFails, LoopPlanned
<1>11. CASE Finish
  BY <1>0, <1>11, QuietSafe DEF Finish, LoopPlanned
<1>12. CASE Exit \/ Crash
  BY <1>0, <1>12, ResetSafe DEF Exit, Crash
<1> QED
  BY <1>1, <1>2, <1>3, <1>4, <1>5, <1>6, <1>7, <1>8, <1>9, <1>10, <1>11, <1>12 DEF Pass

LEMMA NextSafe ==
  ASSUME ~SharingDuringPass
  PROVE  SafeInv /\ [Next]_vars => SafeInv'
<1> SUFFICES ASSUME SafeInv, [Next]_vars PROVE SafeInv'
  OBVIOUS
<1>1. CASE Pass
  BY <1>1, PassSafe
<1>2. CASE Engine
  BY <1>2, SealSafe, SupersedeSafe DEF Engine
<1>3. CASE UNCHANGED vars
  BY <1>3, NextTyped DEF vars, SafeInv, DroppedNotNewest, LateRunsFresh, PlanSpares,
     LoopPlanned, NewestRunRestorable, Newest, Active, Logged, Live, TreeOf
<1> QED
  BY <1>1, <1>2, <1>3 DEF Next

\* Whatever passes, faults, crashes and engine writes come in whatever order, the
\* newest active run of every downpipe keeps its tree and its segments, provided
\* no run sealed during a pass reuses older segments.
THEOREM NewestRunAlwaysRestorable ==
  ASSUME ~SharingDuringPass
  PROVE  Spec => []NewestRunRestorable
<1>1. SafeInv => NewestRunRestorable
  BY DEF SafeInv
<1> QED
  BY <1>1, InitSafe, NextSafe, PTL DEF Spec

\* Only Del removes an object from the destination.
LEMMA OnlyDelRemoves ==
  ASSUME [Next]_vars, ~(store \subseteq store')
  PROVE  \E k \in Segs \cup TreeKeys : Del(k)
BY DEF Next, Pass, Engine, vars, archive, SealRun, Supersede, Start, RefuseRunlog,
   Enumerate, WriteIntent, SkipIntent, BeginApply, NextTree, ListTree, ListFails, Finish,
   Exit, Crash, Reset

\* A delete never removes a segment that a run outside the drop list references,
\* under the same proviso.
THEOREM LiveSegmentsAlwaysSurvive ==
  ASSUME ~SharingDuringPass
  PROVE  Spec => LiveSegmentsSurvive
<1> DEFINE Spared == \A s \in Segs :
             s \in store \ store' => \A r \in Logged \ dropped : s \notin refs[r]
<1>1. ASSUME SafeInv, [Next]_vars
      PROVE  [Spared]_vars
  <2>1. CASE store \subseteq store'
    BY <2>1
  <2>2. CASE ~(store \subseteq store')
    <3>1. PICK k \in Segs \cup TreeKeys : Del(k)
      BY <1>1, <2>2, OnlyDelRemoves
    <3>2. store' \in {store, store \ {k}} /\ k \in todo /\ pc \in {"segments", "tree"}
      BY <1>1, <3>1, DelTyped DEF SafeInv, Del
    <3>3. k \in Segs => k \in plan.orphans
      BY <1>1, <3>2, PruneAssumption DEF SafeInv, LoopPlanned
    <3> QED
      BY <1>1, <3>2, <3>3 DEF SafeInv, PlanSpares
  <2> QED
    BY <2>1, <2>2
<1> QED
  BY <1>1, InitSafe, NextSafe, PTL DEF Spec, LiveSegmentsSurvive

-----------------------------------------------------------------------------
(* Nothing is stranded *)

LEMMA InitStrand == Init => StrandInv
<1> SUFFICES ASSUME Init PROVE StrandInv
  OBVIOUS
<1>1. SafeInv
  BY InitSafe
<1> QED
  BY <1>1 DEF Init, NoRes, StrandInv, Applying, KeptReadable, OrphansByRun, DeletedGone,
     LoopTreesBare, NothingStranded

\* A step that leaves the archive, the partition and the plan alone and counts
\* no delete.
LEMMA QuietStrand ==
  ASSUME StrandInv, SafeInv', UNCHANGED <<archive, world, kept, dropped, plan>>,
         pc' \notin {"idle", "enumerate"},
         pc' \in Applying => pc \in Applying /\ res'.deleted = res.deleted,
         LoopTreesBare'
  PROVE  StrandInv'
BY DEF StrandInv, archive, KeptReadable, OrphansByRun, DeletedGone, NothingStranded, Readable,
       TreeOf, Live, Logged

\* The engine's writes only add objects, and none the pass has deleted.
LEMMA SealStrand ==
  ASSUME StrandInv, SafeInv', ~SharingDuringPass, NEW r \in Runs, SealRun(r)
  PROVE  StrandInv'
<1>0. TypeOK /\ PlanSpares /\ LoopPlanned
  BY DEF StrandInv, SafeInv
<1> PICK S \in SUBSET Segs, i \in Indices :
      /\ pc = "idle" \/ S \cap Live(Logged) = {}
      /\ refs' = [refs EXCEPT ![r] = S]
      /\ index' = [index EXCEPT ![r] = i]
      /\ store' = store \cup S \cup TreeOf(r)
  BY DEF SealRun
<1>1. UNCHANGED <<pc, cmd, kept, dropped, plan, todo, res>>
  BY DEF SealRun
<1>2. r \notin Logged /\ Logged' = Logged \cup {r}
  BY <1>0, PruneAssumption DEF SealRun, Logged, TypeOK
<1>3. refs'[r] = S /\ \A q \in Runs \ {r} : refs'[q] = refs[q]
  BY <1>0 DEF TypeOK
<1>4. kept \subseteq Logged /\ plan.runs \subseteq Logged /\ Logged \subseteq Runs
  BY <1>0 DEF TypeOK, Logged, PlanSpares
<1>5. Live(kept)' = Live(kept)
  <2>1. \A q \in kept : refs'[q] = refs[q]
    BY <1>2, <1>3, <1>4
  <2> QED
    BY <1>1, <2>1 DEF Live
<1>6. \A q \in Runs : Readable(q) => Readable(q)'
  BY DEF Readable, TreeOf
<1>7. pc \in Applying => S \cap plan.orphans = {}
  BY <1>0 DEF PlanSpares, Applying
<1>8. KeptReadable'
  BY <1>1, <1>4, <1>6 DEF StrandInv, KeptReadable
<1>9. OrphansByRun'
  BY <1>1, <1>2, <1>3, <1>4, <1>5 DEF StrandInv, OrphansByRun
<1>10. DeletedGone'
  <2> SUFFICES ASSUME pc \in Applying, NEW k \in res.deleted
               PROVE  k \notin store'
    BY <1>1 DEF StrandInv, DeletedGone
  <2>1. k \notin store /\ (k \in plan.orphans \/ (k \in TreeKeys /\ k[1] \in plan.runs))
    BY DEF StrandInv, DeletedGone
  <2>2. k \in plan.orphans => k \notin S /\ k \in Segs
    BY <1>0, <1>7 DEF TypeOK
  <2>3. k \in TreeKeys => k \notin S
    BY PruneAssumption
  <2>4. k \in TreeOf(r) => k \in TreeKeys /\ k[1] = r
    BY DEF TreeOf, TreeKeys
  <2> QED
    BY <1>2, <1>4, <2>1, <2>2, <2>3, <2>4, PruneAssumption
<1>11. LoopTreesBare'
  <2> SUFFICES ASSUME pc = "tree", cmd.apply, NEW k \in todo, NEW s \in plan.byRun[k[1]]
               PROVE  s \notin store'
    BY <1>1 DEF LoopTreesBare
  <2>1. k[1] \in plan.runs /\ pc \in Applying
    BY <1>0 DEF LoopPlanned, Applying
  <2>2. s \in plan.orphans
    BY <2>1 DEF StrandInv, OrphansByRun
  <2>3. s \in Segs /\ s \notin S
    BY <1>0, <1>7, <2>1, <2>2 DEF TypeOK
  <2>4. s \notin TreeOf(r)
    BY <2>3, PruneAssumption DEF TreeOf, TreeKeys
  <2>5. s \notin store
    BY DEF StrandInv, LoopTreesBare
  <2> QED
    BY <2>3, <2>4, <2>5
<1>12. NothingStranded'
  <2> SUFFICES ASSUME NEW s \in Segs, s \in store'
               PROVE  \E q \in Logged' : s \in refs'[q] /\ Readable(q)'
    BY DEF NothingStranded
  <2>1. CASE s \in store
    <3>1. PICK q \in Logged : s \in refs[q] /\ Readable(q)
      BY <2>1 DEF StrandInv, NothingStranded
    <3> QED
      BY <1>2, <1>3, <1>4, <1>6, <3>1
  <2>2. CASE s \notin store
    <3>1. s \in S
      BY <2>2, PruneAssumption DEF TreeOf, TreeKeys
    <3>2. Readable(r)'
      BY DEF Readable, TreeOf
    <3> QED
      BY <1>2, <1>3, <3>1, <3>2
  <2> QED
    BY <2>1, <2>2
<1> QED
  BY <1>8, <1>9, <1>10, <1>11, <1>12 DEF StrandInv

LEMMA EnumerateStrand ==
  ASSUME StrandInv, SafeInv', Enumerate
  PROVE  StrandInv'
<1>1. /\ UNCHANGED <<archive, world, kept, dropped, res, cmd>>
      /\ pc = "enumerate" /\ pc' \in {"intent", "ended"}
  BY DEF Enumerate
<1>2. CASE pc' = "ended"
  BY <1>1, <1>2 DEF StrandInv, archive, Applying, KeptReadable, OrphansByRun, DeletedGone,
     LoopTreesBare, NothingStranded, Readable, TreeOf, Logged
<1>3. CASE pc' = "intent"
  <2> PICK complete \in SUBSET {r \in kept \cup dropped : Readable(r)} :
        IF kept \subseteq complete
        THEN plan' = Compute(kept, dropped, complete)
        ELSE pc' = "ended"
    BY DEF Enumerate
  <2>1. kept \subseteq complete /\ plan' = Compute(kept, dropped, complete)
    BY <1>3
  <2>2. KeptReadable'
    BY <1>1, <2>1 DEF KeptReadable, Readable, TreeOf, archive
  <2>3. /\ plan'.orphans = (UNION {refs[r] : r \in dropped \cap complete}) \ Live(kept)
        /\ plan'.runs = dropped \cap complete
        /\ plan'.byRun = [r \in Runs |-> IF r \in dropped \cap complete
                                         THEN refs[r] \ Live(kept) ELSE {}]
    BY <2>1 DEF Compute
  <2>4. plan'.runs \subseteq Runs /\ Live(kept)' = Live(kept) /\ refs' = refs
    BY <1>1, <2>3 DEF StrandInv, SafeInv, TypeOK, Logged, Live, archive
  <2>5. OrphansByRun'
    <3> SUFFICES ASSUME NEW r \in plan'.runs
                 PROVE  /\ refs[r] \subseteq plan'.byRun[r] \cup Live(kept)
                        /\ plan'.byRun[r] \subseteq plan'.orphans
      BY <2>4 DEF OrphansByRun
    <3>1. plan'.byRun[r] = refs[r] \ Live(kept)
      BY <2>3, <2>4
    <3>2. refs[r] \subseteq UNION {refs[q] : q \in dropped \cap complete}
      BY <2>3
    <3> QED
      BY <2>3, <3>1, <3>2
  <2>6. DeletedGone' /\ LoopTreesBare'
    BY <1>1, <1>3 DEF StrandInv, DeletedGone, LoopTreesBare
  <2>7. NothingStranded'
    BY <1>1 DEF StrandInv, NothingStranded, Readable, TreeOf, Logged, archive
  <2> QED
    BY <2>2, <2>5, <2>6, <2>7 DEF StrandInv
<1> QED
  BY <1>1, <1>2, <1>3

\* A delete takes a planned segment, or an object of a tree that has no orphan
\* segment left: what is left of that run's segments is held by a retained run.
LEMMA DelStrand ==
  ASSUME StrandInv, SafeInv', NEW k \in Segs \cup TreeKeys, Del(k)
  PROVE  StrandInv'
<1>0. TypeOK /\ DroppedNotNewest /\ PlanSpares /\ LoopPlanned
  BY DEF StrandInv, SafeInv
<1>1. /\ UNCHANGED <<refs, index, superseded, pc, cmd, kept, dropped, plan>>
      /\ pc \in {"segments", "tree"} /\ k \in todo /\ todo' \subseteq todo
  BY DEF Del
<1>2. store' \in {store, store \ {k}}
  BY <1>0, DelTyped
<1>3. \/ k \in Segs /\ k \in plan.orphans
      \/ /\ k \in TreeKeys /\ k \notin Segs /\ k[1] \in plan.runs /\ pc = "tree"
  BY <1>0, <1>1, PruneAssumption DEF LoopPlanned, TypeOK
<1>4. \A q \in Runs : q \notin plan.runs => k \notin TreeOf(q)
  <2> SUFFICES ASSUME NEW q \in Runs, k \in TreeOf(q) PROVE q \in plan.runs
    OBVIOUS
  <2>1. k \in TreeKeys /\ k[1] = q
    BY DEF TreeOf, TreeKeys
  <2> QED
    BY <1>3, <2>1, PruneAssumption
<1>5. Logged' = Logged /\ Live(kept)' = Live(kept) /\ kept \subseteq Logged /\ Logged \subseteq Runs
  BY <1>0, <1>1 DEF Logged, Live, TypeOK
<1>6. kept \cap plan.runs = {}
  BY <1>0 DEF DroppedNotNewest, PlanSpares
<1>7. KeptReadable'
  BY <1>1, <1>2, <1>4, <1>5, <1>6 DEF StrandInv, KeptReadable, Readable, TreeOf
<1>8. OrphansByRun'
  BY <1>1, <1>5 DEF StrandInv, OrphansByRun
<1>9. DeletedGone'
  <2>1. \/ res'.deleted = res.deleted
        \/ store' = store \ {k} /\ res'.deleted = res.deleted \cup {k}
    BY <1>0 DEF Del, Deleted, Refused, Failed, TypeOK, Result
  <2> QED
    BY <1>1, <1>2, <1>3, <2>1 DEF StrandInv, DeletedGone, Applying
<1>10. LoopTreesBare'
  BY <1>1, <1>2 DEF StrandInv, LoopTreesBare
<1>11. NothingStranded'
  <2> SUFFICES ASSUME NEW s \in Segs, s \in store', store' = store \ {k}, store' # store
               PROVE  \E q \in Logged : s \in refs[q] /\ Readable(q)'
    BY <1>1, <1>2, <1>5 DEF NothingStranded, StrandInv, Readable, TreeOf
  <2>0. cmd.apply
    BY DEF Del
  <2>1. PICK r \in Logged : s \in refs[r] /\ Readable(r)
    BY DEF StrandInv, NothingStranded
  <2>2. CASE k \notin TreeOf(r)
    BY <2>1, <2>2 DEF Readable, TreeOf
  <2>3. CASE k \in TreeOf(r)
    <3>1. k[1] = r /\ k \in TreeKeys
      BY <1>5, <2>3 DEF TreeOf, TreeKeys
    <3>2. r \in plan.runs /\ pc = "tree" /\ pc \in Applying
      BY <1>3, <3>1, PruneAssumption DEF Applying
    <3>3. s \notin plan.byRun[r]
      BY <1>1, <2>0, <3>1, <3>2 DEF StrandInv, LoopTreesBare
    <3>4. s \in Live(kept)
      BY <2>1, <3>2, <3>3 DEF StrandInv, OrphansByRun
    <3>5. PICK q \in kept : s \in refs[q]
      BY <3>4 DEF Live
    <3>6. Readable(q)'
      BY <1>1, <1>7, <3>2 DEF KeptReadable
    <3> QED
      BY <1>5, <3>5, <3>6
  <2> QED
    BY <2>2, <2>3
<1> QED
  BY <1>7, <1>8, <1>9, <1>10, <1>11 DEF StrandInv

LEMMA ListTreeStrand ==
  ASSUME StrandInv, SafeInv', NEW r \in Runs, ListTree(r)
  PROVE  StrandInv'
<1>1. /\ UNCHANGED <<archive, world, kept, dropped, plan, cmd>> /\ pc = "list" /\ pc' = "tree"
      /\ todo' \subseteq TreeOf(r) /\ (Held(r) => todo' = {})
  BY DEF ListTree
<1>2. res'.deleted = res.deleted
  BY DEF ListTree, StrandInv, SafeInv, TypeOK, Result
<1>3. \A k \in TreeOf(r) : k[1] = r
  BY DEF TreeOf
<1>4. LoopTreesBare'
  <2> SUFFICES ASSUME cmd.apply, NEW k \in todo' PROVE plan.byRun[k[1]] \cap store = {}
    BY <1>1 DEF LoopTreesBare, archive
  <2>1. k[1] = r /\ ~Held(r)
    BY <1>1, <1>3
  <2>2. plan.byRun[r] \subseteq res.deleted
    BY <2>1 DEF Held
  <2> QED
    BY <1>1, <2>1, <2>2 DEF StrandInv, DeletedGone, Applying
<1> QED
  BY <1>1, <1>2, <1>4, QuietStrand DEF Applying

\* A pass that starts or ends leaves the archive alone and has deleted nothing yet.
LEMMA ResetStrand ==
  ASSUME StrandInv, SafeInv', UNCHANGED archive, pc' \in {"idle", "enumerate"},
         res'.deleted = {}
  PROVE  StrandInv'
BY DEF StrandInv, archive, Applying, KeptReadable, OrphansByRun, DeletedGone, LoopTreesBare,
       NothingStranded, Readable, TreeOf, Logged

LEMMA PassStrand ==
  ASSUME StrandInv, Pass
  PROVE  StrandInv'
<1>0. SafeInv'
  BY PassSafe DEF StrandInv
<1>1. ASSUME NEW k \in 1..MaxKeep, NEW apply \in ApplyFlags, NEW withReceipt \in ReceiptFlags,
             Start(k, apply, withReceipt)
      PROVE  StrandInv'
  BY <1>0, <1>1, ResetStrand DEF Start, StrandInv, DeletedGone
<1>2. CASE RefuseRunlog
  BY <1>0, <1>2, QuietStrand DEF RefuseRunlog, Applying, LoopTreesBare
<1>3. CASE Enumerate
  BY <1>0, <1>3, EnumerateStrand
<1>4. CASE WriteIntent
  BY <1>0, <1>4, QuietStrand DEF WriteIntent, Applying, LoopTreesBare
<1>5. CASE SkipIntent
  BY <1>0, <1>5, QuietStrand DEF SkipIntent, Applying, LoopTreesBare
<1>6. CASE BeginApply
  BY <1>0, <1>6, QuietStrand DEF BeginApply, Applying, LoopTreesBare
<1>7. ASSUME NEW k \in Segs \cup TreeKeys, Del(k)
      PROVE  StrandInv'
  BY <1>0, <1>7, DelStrand
<1>8. CASE NextTree
  BY <1>0, <1>8, QuietStrand DEF NextTree, Applying, LoopTreesBare
<1>9. ASSUME NEW r \in Runs, ListTree(r)
      PROVE  StrandInv'
  BY <1>0, <1>9, ListTreeStrand
<1>10. CASE ListFails
  BY <1>0, <1>10, QuietStrand DEF ListFails, Applying, LoopTreesBare
<1>11. CASE Finish
  BY <1>0, <1>11, QuietStrand DEF Finish, Applying, LoopTreesBare
<1>12. CASE Exit \/ Crash
  BY <1>0, <1>12, ResetStrand DEF Exit, Crash, Reset, NoRes
<1> QED
  BY <1>1, <1>2, <1>3, <1>4, <1>5, <1>6, <1>7, <1>8, <1>9, <1>10, <1>11, <1>12 DEF Pass

LEMMA NextStrand ==
  ASSUME ~SharingDuringPass
  PROVE  StrandInv /\ [Next]_vars => StrandInv'
<1> SUFFICES ASSUME StrandInv, [Next]_vars PROVE StrandInv'
  OBVIOUS
<1>0. SafeInv'
  BY NextSafe DEF StrandInv
<1>1. CASE Pass
  BY <1>1, PassStrand
<1>2. ASSUME NEW r \in Runs, SealRun(r)
      PROVE  StrandInv'
  BY <1>0, <1>2, SealStrand
<1>3. ASSUME NEW r \in Runs, Supersede(r)
      PROVE  StrandInv'
  BY <1>0, <1>3 DEF Supersede, StrandInv, Applying, KeptReadable, OrphansByRun, DeletedGone,
     LoopTreesBare, NothingStranded, Readable, TreeOf, Live, Logged
<1>4. CASE UNCHANGED vars
  BY <1>0, <1>4 DEF vars, StrandInv, Applying, KeptReadable, OrphansByRun, DeletedGone,
     LoopTreesBare, NothingStranded, Readable, TreeOf, Live, Logged
<1> QED
  BY <1>1, <1>2, <1>3, <1>4 DEF Next, Engine

\* Apply's order (segments first, a held tree stays) never leaves a segment in the
\* destination that no whole run tree names: a later pass can always find it,
\* whatever deletes were refused or lost and wherever the process died.
THEOREM NothingEverStranded ==
  ASSUME ~SharingDuringPass
  PROVE  Spec => []NothingStranded
<1>1. StrandInv => NothingStranded
  BY DEF StrandInv
<1> QED
  BY <1>1, InitStrand, NextStrand, PTL DEF Spec

-----------------------------------------------------------------------------
(* The intent comes before the first delete *)

\* A pass that was asked for a receipt has its intent on disk from Apply on.
IntentOnDisk ==
  pc \in {"apply", "segments", "list", "tree", "finish"} /\ cmd.receipt =>
    receipt.status = "started"

LEMMA NextIntent == IntentOnDisk /\ [Next]_vars => IntentOnDisk'
<1> SUFFICES ASSUME IntentOnDisk, [Next]_vars PROVE IntentOnDisk'
  OBVIOUS
<1>1. CASE UNCHANGED <<pc, cmd, receipt>>
  BY <1>1 DEF IntentOnDisk
<1>2. CASE pc' \in {"idle", "enumerate", "intent", "ended"}
  BY <1>2 DEF IntentOnDisk
<1>3. CASE WriteIntent \/ SkipIntent
  BY <1>3 DEF WriteIntent, SkipIntent, IntentOnDisk
<1>4. CASE BeginApply \/ NextTree
  BY <1>4 DEF BeginApply, NextTree, IntentOnDisk
<1>5. ASSUME NEW r \in Runs, ListTree(r)
      PROVE  IntentOnDisk'
  BY <1>5 DEF ListTree, IntentOnDisk
<1> QED
  BY <1>1, <1>2, <1>3, <1>4, <1>5 DEF Next, Pass, Engine, vars, SealRun, Supersede, Start,
     RefuseRunlog, Enumerate, Del, ListFails, Finish, Exit, Crash, Reset

\* receipt.go: no object goes before the intent of a pass with a receipt is on
\* disk, whatever the engine does meanwhile and wherever earlier passes died.
THEOREM IntentAlwaysFirst == Spec => IntentBeforeDelete
<1> DEFINE Recorded == ~(store \subseteq store') /\ cmd.receipt => receipt.status = "started"
<1>1. Init => IntentOnDisk
  BY DEF Init, IntentOnDisk
<1>2. ASSUME IntentOnDisk, [Next]_vars
      PROVE  [Recorded]_vars
  BY <1>2, OnlyDelRemoves DEF Del, IntentOnDisk
<1> QED
  BY <1>1, <1>2, NextIntent, PTL DEF Spec, IntentBeforeDelete

-----------------------------------------------------------------------------
(* What the exit status and the receipt say about the plan *)

\* The objects the plan would delete, and the ones the pass reports as still there.
Planned == plan.orphans \cup UNION {TreeOf(r) : r \in plan.runs}
Counted == res.refused \cup res.failed \cup res.held

\* A planned object that is still there is counted, or its turn has yet to come:
\* it is in the current loop, or its tree has not been visited.
Accounted ==
  pc \in {"segments", "list", "tree", "finish"} /\ cmd.apply =>
    /\ canList
    /\ plan.orphans \cap store \subseteq Counted \cup (IF pc = "segments" THEN todo ELSE {})
    /\ \A r \in plan.runs \ runsLeft :
         TreeOf(r) \cap store \subseteq Counted \cup (IF pc = "tree" THEN todo ELSE {})
    /\ pc = "segments" => runsLeft = plan.runs
    /\ pc = "finish" => runsLeft = {}

\* A receipt is completed by the step that ends the pass, and names planned objects.
ReceiptPlanned ==
  /\ receipt.status = "completed" => pc = "ended"
  /\ receipt.status = "completed" => receipt.res.deleted \subseteq Planned

\* The inductive invariant behind ExitZeroMeansPlanDone and ReceiptAccounts.
DoneInv ==
  /\ StrandInv
  /\ Accounted
  /\ ReceiptPlanned
  /\ ExitZeroMeansPlanDone
  /\ ReceiptAccounts

LEMMA InitDone == Init => DoneInv
BY InitStrand DEF Init, DoneInv, Accounted, ReceiptPlanned, ExitZeroMeansPlanDone,
   ReceiptAccounts, NoReceipt

\* While a pass is under way the engine adds no object of its plan.
LEMMA SealSparesPlan ==
  ASSUME DoneInv, ~SharingDuringPass, NEW r \in Runs, SealRun(r), pc # "idle"
  PROVE  Planned \cap store' = Planned \cap store
<1>0. TypeOK /\ PlanSpares
  BY DEF DoneInv, StrandInv, SafeInv
<1> PICK S \in SUBSET Segs :
      S \cap Live(Logged) = {} /\ store' = store \cup S \cup TreeOf(r)
  BY DEF SealRun
<1>1. plan.orphans \subseteq Live(Logged) /\ plan.orphans \subseteq Segs
  BY <1>0 DEF PlanSpares, TypeOK
<1>2. r \notin plan.runs
  BY <1>0 DEF SealRun, PlanSpares, TypeOK, Logged
<1>3. TreeOf(r) \subseteq TreeKeys /\ \A q \in plan.runs : TreeOf(q) \cap TreeOf(r) = {}
  BY <1>2 DEF TreeOf, TreeKeys
<1>4. \A q \in plan.runs : TreeOf(q) \subseteq TreeKeys
  BY <1>0 DEF TypeOK, TreeOf, TreeKeys
<1> QED
  BY <1>1, <1>3, <1>4, PruneAssumption DEF Planned

\* A step that leaves the pass alone and puts nothing of its plan in the destination.
LEMMA QuietDone ==
  ASSUME DoneInv, StrandInv', UNCHANGED <<pc, cmd, plan, todo, runsLeft, res, exit, receipt, canList>>,
         Planned \cap store' = Planned \cap store
  PROVE  DoneInv'
<1>1. \A k \in Planned : k \in store' => k \in store
  OBVIOUS
<1>2. plan.orphans \subseteq Planned /\ \A r \in plan.runs : TreeOf(r) \subseteq Planned
  BY DEF Planned
<1>3. Planned' = Planned /\ Counted' = Counted /\ \A r \in Runs : TreeOf(r)' = TreeOf(r)
  BY DEF Planned, Counted, TreeOf
<1>4. Accounted'
  BY <1>1, <1>2, <1>3 DEF DoneInv, Accounted, TreeOf
<1>5. ReceiptPlanned'
  BY <1>3 DEF DoneInv, ReceiptPlanned
<1>6. ExitZeroMeansPlanDone'
  BY <1>1 DEF DoneInv, ExitZeroMeansPlanDone, Planned, TreeOf
<1>7. ReceiptAccounts'
  <2> SUFFICES ASSUME pc = "ended", receipt.status = "completed", cmd.apply
               PROVE  /\ receipt.res.deleted \cap store' = {}
                      /\ store' \cap Planned
                           \subseteq receipt.res.refused \cup receipt.res.failed \cup receipt.res.held
    BY DEF ReceiptAccounts, Planned, TreeOf
  <2>1. /\ receipt.res.deleted \cap store = {}
        /\ store \cap Planned
             \subseteq receipt.res.refused \cup receipt.res.failed \cup receipt.res.held
    BY DEF DoneInv, ReceiptAccounts, Planned
  <2>2. receipt.res.deleted \subseteq Planned
    BY DEF DoneInv, ReceiptPlanned
  <2> QED
    BY <1>1, <2>1, <2>2
<1> QED
  BY <1>4, <1>5, <1>6, <1>7 DEF DoneInv

\* A step to a place where the pass has not begun to delete, or has given up.
LEMMA GivenUpDone ==
  ASSUME DoneInv, StrandInv', pc' \notin {"segments", "list", "tree", "finish"},
         pc' = "ended" => exit' # 0, receipt'.status # "completed"
  PROVE  DoneInv'
BY DEF DoneInv, Accounted, ReceiptPlanned, ExitZeroMeansPlanDone, ReceiptAccounts

LEMMA DelDone ==
  ASSUME DoneInv, StrandInv', NEW k \in Segs \cup TreeKeys, Del(k)
  PROVE  DoneInv'
<1>0. TypeOK /\ LoopPlanned
  BY DEF DoneInv, StrandInv, SafeInv
<1>1. /\ UNCHANGED <<pc, cmd, plan, runsLeft, receipt, canList>> /\ pc \in {"segments", "tree"}
      /\ todo' = todo \ {k}
  BY DEF Del, world
<1>2. /\ store' \in {store, store \ {k}} /\ Counted \subseteq Counted'
      /\ cmd.apply => k \notin store' \/ k \in Counted'
  <2>1. CASE Deleted(k) \/ Refused(k) \/ Failed(k)
    BY <1>0, <2>1 DEF Deleted, Refused, Failed, TypeOK, Result, Counted
  <2>2. CASE ~cmd.apply /\ UNCHANGED <<store, res>>
    BY <2>2 DEF Counted
  <2> QED
    BY <2>1, <2>2 DEF Del
<1>3. Accounted'
  <2> SUFFICES ASSUME cmd.apply PROVE Accounted'
    BY <1>1 DEF Accounted
  <2>1. \A x \in store' : x \in store /\ (x = k => x \in Counted')
    BY <1>2
  <2>2. \A x \in todo : x \in todo' \/ x = k
    BY <1>1
  <2> QED
    BY <1>1, <1>2, <2>1, <2>2 DEF DoneInv, Accounted, TreeOf
<1>4. ReceiptPlanned' /\ ExitZeroMeansPlanDone' /\ ReceiptAccounts'
  BY <1>1 DEF DoneInv, ReceiptPlanned, ExitZeroMeansPlanDone, ReceiptAccounts
<1> QED
  BY <1>3, <1>4 DEF DoneInv

LEMMA ListTreeDone ==
  ASSUME DoneInv, StrandInv', NEW r \in Runs, ListTree(r)
  PROVE  DoneInv'
<1>0. TypeOK
  BY DEF DoneInv, StrandInv, SafeInv
<1>1. /\ UNCHANGED <<store, canList, cmd, plan, receipt>> /\ pc = "list" /\ pc' = "tree"
      /\ runsLeft' = runsLeft \ {r}
  BY DEF ListTree, archive, world
<1>2. ASSUME cmd.apply
      PROVE  Counted \subseteq Counted' /\ TreeOf(r) \cap store \subseteq Counted' \cup todo'
  <2>1. canList
    BY <1>1, <1>2 DEF DoneInv, Accounted
  <2>2. CASE Held(r)
    BY <1>0, <2>1, <2>2 DEF ListTree, Counted, TypeOK, Result
  <2>3. CASE ~Held(r)
    BY <2>1, <2>3 DEF ListTree, Counted
  <2> QED
    BY <2>2, <2>3
<1>3. Accounted'
  <2> SUFFICES ASSUME cmd.apply PROVE Accounted'
    BY <1>1 DEF Accounted
  <2>1. /\ canList /\ plan.orphans \cap store \subseteq Counted
        /\ \A q \in plan.runs \ runsLeft : TreeOf(q) \cap store \subseteq Counted
    BY <1>1 DEF DoneInv, Accounted
  <2>2. \A q \in plan.runs \ runsLeft' : TreeOf(q) \cap store \subseteq Counted' \cup todo'
    BY <1>1, <1>2, <2>1
  <2> QED
    BY <1>1, <1>2, <2>1, <2>2 DEF Accounted, TreeOf
<1>4. ReceiptPlanned' /\ ExitZeroMeansPlanDone' /\ ReceiptAccounts'
  BY <1>1 DEF DoneInv, ReceiptPlanned, ExitZeroMeansPlanDone, ReceiptAccounts
<1> QED
  BY <1>3, <1>4 DEF DoneInv

\* The last step: what is left of the plan is what is counted, and the receipt and
\* the exit status are taken from the same counts.
LEMMA FinishDone ==
  ASSUME DoneInv, StrandInv', Finish
  PROVE  DoneInv'
<1>1. /\ UNCHANGED <<store, cmd, plan, res>> /\ pc = "finish" /\ pc' = "ended"
      /\ exit' = PruneExit(res)
      /\ receipt' = receipt \/ receipt' = [status |-> "completed", res |-> res]
  BY DEF Finish, archive
<1>2. Planned' = Planned
  BY <1>1 DEF Planned, TreeOf
<1>3. receipt.status # "completed"
  BY <1>1 DEF DoneInv, ReceiptPlanned
<1>4. cmd.apply => Planned \cap store \subseteq Counted
  BY <1>1 DEF DoneInv, Accounted, Planned
<1>5. res.deleted \cap store = {} /\ res.deleted \subseteq Planned
  <2>1. /\ res.deleted \cap store = {}
        /\ \A k \in res.deleted : k \in plan.orphans \/ (k \in TreeKeys /\ k[1] \in plan.runs)
    BY <1>1 DEF DoneInv, StrandInv, DeletedGone, Applying
  <2>2. \A k \in TreeKeys : k \in TreeOf(k[1])
    BY DEF TreeKeys, TreeOf
  <2> QED
    BY <2>1, <2>2 DEF Planned
<1>6. ReceiptPlanned'
  BY <1>1, <1>2, <1>3, <1>5 DEF ReceiptPlanned
<1>7. ExitZeroMeansPlanDone'
  <2> SUFFICES ASSUME exit' = 0, cmd.apply PROVE store \cap Planned = {}
    BY <1>1, <1>2 DEF ExitZeroMeansPlanDone, Planned
  <2>1. ~Incomplete(res)
    BY <1>1 DEF PruneExit
  <2> QED
    BY <1>4, <2>1 DEF Incomplete, Counted
<1>8. ReceiptAccounts'
  <2> SUFFICES ASSUME receipt'.status = "completed", cmd.apply
               PROVE  /\ receipt'.res.deleted \cap store = {}
                      /\ store \cap Planned
                           \subseteq receipt'.res.refused \cup receipt'.res.failed \cup receipt'.res.held
    BY <1>1, <1>2 DEF ReceiptAccounts, Planned
  <2>1. receipt'.res = res
    BY <1>1, <1>3
  <2> QED
    BY <1>4, <1>5, <2>1 DEF Counted
<1> QED
  BY <1>1, <1>6, <1>7, <1>8 DEF DoneInv, Accounted

LEMMA PassDone ==
  ASSUME DoneInv, Pass
  PROVE  DoneInv'
<1>0. StrandInv' /\ (receipt.status = "completed" => pc = "ended")
  BY PassStrand DEF DoneInv, ReceiptPlanned
<1>1. ASSUME NEW k \in 1..MaxKeep, NEW apply \in ApplyFlags, NEW withReceipt \in ReceiptFlags,
             Start(k, apply, withReceipt)
      PROVE  DoneInv'
  BY <1>0, <1>1, GivenUpDone DEF Start
<1>2. CASE RefuseRunlog \/ Enumerate
  BY <1>0, <1>2, GivenUpDone DEF RefuseRunlog, Enumerate
<1>3. CASE WriteIntent \/ SkipIntent
  BY <1>0, <1>3, GivenUpDone DEF WriteIntent, SkipIntent
<1>4. CASE BeginApply
  <2>1. CASE pc' = "ended"
    BY <1>0, <1>4, <2>1, GivenUpDone DEF BeginApply
  <2>2. CASE pc' # "ended"
    <3>1. /\ pc' = "segments" /\ (cmd.apply => canList) /\ todo' = plan.orphans
          /\ runsLeft' = plan.runs /\ UNCHANGED <<store, canList, cmd, plan, receipt>> /\ pc = "apply"
      BY <1>4, <2>2, <1>0 DEF BeginApply, archive, world, DoneInv, StrandInv, SafeInv, TypeOK
    <3>2. Accounted'
      BY <3>1 DEF Accounted
    <3> QED
      BY <1>0, <3>1, <3>2 DEF DoneInv, ReceiptPlanned, ExitZeroMeansPlanDone, ReceiptAccounts
  <2> QED
    BY <2>1, <2>2
<1>5. ASSUME NEW k \in Segs \cup TreeKeys, Del(k)
      PROVE  DoneInv'
  BY <1>0, <1>5, DelDone
<1>6. CASE NextTree
  <2>1. /\ UNCHANGED <<store, canList, cmd, plan, runsLeft, res, receipt, exit>> /\ todo = {}
        /\ pc \in {"segments", "tree"} /\ pc' = IF runsLeft = {} THEN "finish" ELSE "list"
    BY <1>6 DEF NextTree, archive, world
  <2>2. Accounted'
    BY <2>1 DEF DoneInv, Accounted, Counted, TreeOf
  <2> QED
    BY <1>0, <2>1, <2>2 DEF DoneInv, ReceiptPlanned, ExitZeroMeansPlanDone, ReceiptAccounts
<1>7. ASSUME NEW r \in Runs, ListTree(r)
      PROVE  DoneInv'
  BY <1>0, <1>7, ListTreeDone
<1>8. CASE ListFails
  BY <1>0, <1>8, GivenUpDone DEF ListFails
<1>9. CASE Finish
  BY <1>0, <1>9, FinishDone
<1>10. CASE Exit \/ Crash
  BY <1>0, <1>10, GivenUpDone DEF Exit, Crash, Reset, NoReceipt
<1> QED
  BY <1>1, <1>2, <1>3, <1>4, <1>5, <1>6, <1>7, <1>8, <1>9, <1>10 DEF Pass

LEMMA NextDone ==
  ASSUME ~SharingDuringPass
  PROVE  DoneInv /\ [Next]_vars => DoneInv'
<1> SUFFICES ASSUME DoneInv, [Next]_vars PROVE DoneInv'
  OBVIOUS
<1>0. StrandInv'
  BY NextStrand DEF DoneInv
<1>1. CASE Pass
  BY <1>1, PassDone
<1>2. ASSUME NEW r \in Runs, SealRun(r)
      PROVE  DoneInv'
  <2>1. UNCHANGED <<canList, pc, cmd, plan, todo, runsLeft, res, exit, receipt>>
    BY <1>2 DEF SealRun, world
  <2>2. CASE pc = "idle"
    BY <1>0, <2>1, <2>2, GivenUpDone DEF DoneInv, ReceiptPlanned
  <2>3. CASE pc # "idle"
    BY <1>0, <1>2, <2>1, <2>3, SealSparesPlan, QuietDone
  <2> QED
    BY <2>2, <2>3
<1>3. ASSUME NEW r \in Runs, Supersede(r)
      PROVE  DoneInv'
  BY <1>0, <1>3, QuietDone DEF Supersede, world
<1>4. CASE UNCHANGED vars
  BY <1>0, <1>4, QuietDone DEF vars
<1> QED
  BY <1>1, <1>2, <1>3, <1>4 DEF Next, Engine

\* RECOVER.md: an applied pass that exits 0 has left no object of its plan behind,
\* whatever answers the deletes got and whatever the engine wrote meanwhile, provided
\* a run sealed during the pass reuses no old segment.
THEOREM ExitZeroAlwaysDone ==
  ASSUME ~SharingDuringPass
  PROVE  Spec => []ExitZeroMeansPlanDone
<1>1. DoneInv => ExitZeroMeansPlanDone
  BY DEF DoneInv
<1> QED
  BY <1>1, InitDone, NextDone, PTL DEF Spec

\* receipt.go: a completed receipt never reports an object as deleted that is there,
\* and counts every planned object that is left, under the same proviso.
THEOREM ReceiptAlwaysAccounts ==
  ASSUME ~SharingDuringPass
  PROVE  Spec => []ReceiptAccounts
<1>1. DoneInv => ReceiptAccounts
  BY DEF DoneInv
<1> QED
  BY <1>1, InitDone, NextDone, PTL DEF Spec
=============================================================================
