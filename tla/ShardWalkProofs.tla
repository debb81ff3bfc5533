-------------------------- MODULE ShardWalkProofs --------------------------
(***************************************************************************)
(* Proofs about the prefetching shard walk, for any number of shards and   *)
(* records, any shard sizes, window and budget, and with interrupts.       *)
(***************************************************************************)
EXTENDS ShardWalk, DataLemmas, FiniteSetTheorems, TLAPS

\* The consumer is inside its loop.
Looping == cpc \in {"order", "future", "records", "release", "slot"}

\* The futures the consumer has taken, and the launcher has pushed.
Popped == IF cpc = "order" THEN turn - 1 ELSE turn
Pushed == IF lpc = "spawn" THEN next ELSE next - 1

\* The channel holds the futures of consecutive shards, from the one the consumer
\* wants next to the last one pushed.
Fifo ==
  Looping =>
    /\ turn <= NumShards
    /\ cpc # "order" => cur = turn
    /\ \A j \in 1..Len(order) : order[j] = Popped + j
    /\ lpc # "done" => Popped + Len(order) = Pushed

\* The launcher has started no fetch beyond the shard it is at.
LaunchFront == lpc # "done" => \A i \in next..NumShards : fetch[i] = "none"

\* The shard whose records are delivered is held.
TakenHeld == cpc \in {"records", "release"} => cur \in Shards /\ fetch[cur] = "taken"

Running == {i \in Shards : fetch[i] \in {"fetching", "fetched"}}

\* The WaitGroup counts the launcher and every fetch that has not ended.
GoroutinesCounted ==
  wg = (IF lpc = "done" THEN 0 ELSE 1) + Cardinality(Running)

\* Every held shard has a slot, and so have the one being launched and the one
\* being released.
SlotsCoverShards ==
  Cardinality(InFlightOrBuffered) + (IF lpc \in {"order", "spawn"} THEN 1 ELSE 0)
    + (IF cpc = "slot" THEN 1 ELSE 0) <= sem

\* The inductive invariant behind NoGoroutineLeft and WindowIsHardCap.
WalkInv ==
  /\ TypeOK
  /\ Fifo
  /\ LaunchFront
  /\ TakenHeld
  /\ GoroutinesCounted
  /\ SlotsCoverShards
  /\ NoGoroutineLeft

-----------------------------------------------------------------------------
(* Types and launch order *)

LEMMA WindowPositive == Window \in 1..NumShards /\ Window <= FetchConcurrency
BY ShardWalkAssumption DEF Window

LEMMA InitTyped == Init => TypeOK /\ Fifo
<1> SUFFICES ASSUME Init PROVE TypeOK /\ Fifo
  OBVIOUS
<1>1. 1 \in Shards /\ 1 \in 1..NumShards + 1 /\ 0 \in 0..NumShards /\ 0 \in 0..Window
  BY ShardWalkAssumption, WindowPositive DEF Shards
<1>2. order \in Seq(Shards) /\ delivered \in Seq(Shards \X Nat)
  BY DEF Init
<1>3. fetch \in [Shards -> {"none", "fetching", "fetched", "ready", "failed", "taken", "consumed"}]
  BY DEF Init
<1>4. interrupted \in BOOLEAN /\ ctxDone \in BOOLEAN
  BY DEF Init
<1>5. /\ next \in Shards /\ sem \in 0..Window /\ buffered \in Int /\ wg \in Int
      /\ turn \in 1..NumShards + 1 /\ cur \in 0..NumShards /\ rec \in Nat
  BY <1>1 DEF Init
<1>6. TypeOK
  BY <1>2, <1>3, <1>4, <1>5 DEF Init, TypeOK
<1>7. Fifo
  BY ShardWalkAssumption DEF Init, Fifo, Looping, Popped, Pushed
<1> QED
  BY <1>6, <1>7

LEMMA PushFifo ==
  ASSUME TypeOK, Fifo, PushFuture
  PROVE  Fifo'
<1>1. /\ order \in Seq(Shards) /\ next \in Shards /\ next \in Nat /\ Len(order) \in Nat
      /\ turn \in Nat
  BY DEF TypeOK, Shards
<1>2. /\ lpc = "order" /\ lpc' = "spawn" /\ order' = Append(order, next)
      /\ UNCHANGED <<next, turn, cur, cpc>>
  BY DEF PushFuture, consumer
<1>3. /\ Len(order') = Len(order) + 1 /\ order'[Len(order) + 1] = next
      /\ \A j \in 1..Len(order) : order'[j] = order[j]
  BY <1>1, <1>2
<1>4. Looping' = Looping /\ Popped' = Popped /\ Popped \in Int
  BY <1>1, <1>2 DEF Looping, Popped
<1>5. Looping => next = Popped + Len(order) + 1
  BY <1>1, <1>2, <1>4 DEF Fifo, Pushed
<1>6. ASSUME Looping, NEW j \in 1..Len(order')
      PROVE  order'[j] = Popped + j
  BY <1>1, <1>3, <1>4, <1>5, <1>6 DEF Fifo
<1>7. Looping => Popped + Len(order') = Pushed'
  BY <1>1, <1>2, <1>3, <1>4, <1>5 DEF Pushed
<1> QED
  BY <1>2, <1>4, <1>6, <1>7 DEF Fifo

LEMMA LauncherTyped ==
  ASSUME TypeOK, Fifo, Launcher
  PROVE  TypeOK' /\ Fifo'
<1> USE ShardWalkAssumption, WindowPositive
<1>1. CASE Park \/ WithinBudget \/ TakeSlot \/ LauncherQuits
  <2>0. sem' \in 0..Window /\ wg' \in Int
    BY <1>1 DEF Park, WithinBudget, TakeSlot, LauncherQuits, TypeOK
  <2>1. TypeOK'
    BY <1>1, <2>0 DEF Park, WithinBudget, TakeSlot, LauncherQuits, context, consumer, TypeOK
  <2>2. /\ UNCHANGED <<next, order, consumer>> /\ lpc # "spawn" /\ lpc # "done" /\ lpc' # "spawn"
    BY <1>1 DEF Park, WithinBudget, TakeSlot, LauncherQuits
  <2>3. Fifo'
    BY <2>2 DEF consumer, Fifo, Looping, Popped, Pushed
  <2> QED
    BY <2>1, <2>3
<1>2. CASE PushFuture
  <2>1. TypeOK'
    BY <1>2 DEF PushFuture, context, consumer, TypeOK
  <2> QED
    BY <1>2, <2>1, PushFifo
<1>3. CASE Spawn
  <2>1. TypeOK'
    BY <1>3, SMTT(30) DEF Spawn, context, consumer, TypeOK, Shards
  <2>2. next \in Nat /\ Len(order) \in Nat /\ turn \in Nat
    BY DEF TypeOK, Shards
  <2>3. /\ lpc = "spawn" /\ UNCHANGED <<turn, cur, cpc, order>>
        /\ lpc' = "done" \/ (lpc' = "budget" /\ next' = next + 1)
    BY <1>3 DEF Spawn, consumer
  <2>4. Fifo'
    BY <2>2, <2>3 DEF Fifo, Looping, Popped, Pushed
  <2> QED
    BY <2>1, <2>4
<1> QED
  BY <1>1, <1>2, <1>3 DEF Launcher

LEMMA FetcherTyped ==
  ASSUME TypeOK, Fifo, NEW i \in Shards, Fetcher(i)
  PROVE  TypeOK' /\ Fifo'
<1>1. UNCHANGED <<context, launcher, sem, order, consumer>>
  BY DEF Fetcher, Fetched, Send, FetchFails
<1>0. buffered' \in Int /\ wg' \in Int
  BY ShardWalkAssumption DEF Fetcher, Fetched, Send, FetchFails, TypeOK
<1>2. TypeOK'
  BY <1>0, <1>1 DEF Fetcher, Fetched, Send, FetchFails, context, launcher, consumer, TypeOK
<1>3. Fifo'
  BY <1>1 DEF launcher, consumer, Fifo, Looping, Popped, Pushed
<1> QED
  BY <1>2, <1>3

LEMMA TakeFutureFifo ==
  ASSUME TypeOK, Fifo, TakeFuture
  PROVE  TypeOK' /\ Fifo'
<1>0. order \in Seq(Shards) /\ order # <<>> /\ turn \in Nat /\ turn >= 1
  BY ShardWalkAssumption DEF TakeFuture, TypeOK
<1>1. Len(order) \in Nat \ {0} /\ Head(order) = order[1]
  BY <1>0
<1>2. Tail(order) \in Seq(Shards) /\ Len(Tail(order)) = Len(order) - 1
  BY <1>0, <1>1
<1>3. \A j \in 1..Len(Tail(order)) : Tail(order)[j] = order[j + 1] /\ j + 1 \in 1..Len(order)
  BY <1>0, <1>1, <1>2
<1>4. /\ cpc = "order" /\ cpc' = "future" /\ cur' = Head(order) /\ order' = Tail(order)
      /\ UNCHANGED <<context, launcher, sem, fetch, buffered, wg, turn, rec, delivered, walkErr>>
  BY DEF TakeFuture
<1>5. /\ \A j \in 1..Len(order) : order[j] = turn - 1 + j
      /\ turn <= NumShards
      /\ lpc # "done" => turn - 1 + Len(order) = Pushed
  BY <1>4 DEF Fifo, Looping, Popped
<1>6. cur' = turn /\ turn \in 0..NumShards
  BY <1>0, <1>1, <1>4, <1>5, ShardWalkAssumption, SMTT(30)
<1>7. \A j \in 1..Len(order') : order'[j] = turn + j
  BY <1>0, <1>1, <1>2, <1>3, <1>4, <1>5
<1>8. Pushed' = Pushed /\ lpc' = lpc
  BY <1>4 DEF launcher, Pushed
<1>9. Fifo'
  BY <1>0, <1>1, <1>2, <1>4, <1>5, <1>6, <1>7, <1>8 DEF Fifo, Looping, Popped
<1>10. TypeOK'
  BY <1>2, <1>4, <1>6 DEF TypeOK, context, launcher
<1> QED
  BY <1>9, <1>10

LEMMA AppendTyped ==
  ASSUME NEW S, NEW s \in Seq(S), NEW e \in S
  PROVE  Append(s, e) \in Seq(S)
OBVIOUS

LEMMA ConsumerTyped ==
  ASSUME TypeOK, Fifo, Consumer
  PROVE  TypeOK' /\ Fifo'
<1> USE ShardWalkAssumption DEF context, launcher
<1>1. CASE TakeFuture
  BY <1>1, TakeFutureFifo
<1>2. CASE TakeResult
  <2>0. rec' \in Nat /\ walkErr' \in {"none", "shard", "record"}
    BY <1>2 DEF TakeResult, TypeOK
  <2>1. TypeOK'
    BY <1>2, <2>0 DEF TakeResult, TypeOK
  <2>2. Fifo'
    BY <1>2 DEF TakeResult, Fifo, Looping, Popped, Pushed
  <2> QED
    BY <2>1, <2>2
<1>3. CASE DeliverRecord
  <2>1. cur \in Shards
    BY <1>3 DEF DeliverRecord, Fifo, Looping, TypeOK, Shards
  <2>2. rec + 1 \in Nat /\ <<cur, rec + 1>> \in Shards \X Nat
    BY <2>1 DEF TypeOK
  <2>3. Append(delivered, <<cur, rec + 1>>) \in Seq(Shards \X Nat)
    BY <2>2, AppendTyped DEF TypeOK
  <2>4. TypeOK'
    BY <1>3, <2>2, <2>3 DEF DeliverRecord, TypeOK
  <2>5. Fifo'
    BY <1>3 DEF DeliverRecord, Fifo, Looping, Popped, Pushed
  <2> QED
    BY <2>4, <2>5
<1>4. CASE ShardDone
  <2>1. TypeOK'
    BY <1>4 DEF ShardDone, TypeOK
  <2>2. Fifo'
    BY <1>4 DEF ShardDone, Fifo, Looping, Popped, Pushed
  <2> QED
    BY <2>1, <2>2
<1>5. CASE Release
  <2>1. cur \in Shards
    BY <1>5 DEF Release, Fifo, Looping, TypeOK, Shards
  <2>2. TypeOK'
    BY <1>5, <2>1 DEF Release, Broadcast, TypeOK
  <2>3. Fifo'
    BY <1>5 DEF Release, Broadcast, Fifo, Looping, Popped, Pushed
  <2> QED
    BY <2>2, <2>3
<1>6. CASE FreeSlot
  <2>0. turn <= NumShards
    BY <1>6 DEF FreeSlot, Fifo, Looping
  <2>1. turn' \in 1..NumShards + 1 /\ sem' \in 0..Window
    BY <1>6, <2>0, WindowPositive DEF FreeSlot, TypeOK
  <2>2. TypeOK'
    BY <1>6, <2>1 DEF FreeSlot, TypeOK
  <2>3. turn \in Nat
    BY DEF TypeOK
  <2>4. Fifo'
    BY <1>6, <2>0, <2>3 DEF FreeSlot, Fifo, Looping, Popped, Pushed
  <2> QED
    BY <2>2, <2>4
<1>7. CASE Cancel \/ Wake \/ Join
  <2>1. TypeOK'
    BY <1>7 DEF Cancel, Wake, Join, Broadcast, TypeOK
  <2>2. ~Looping'
    BY <1>7 DEF Cancel, Wake, Join, Looping
  <2> QED
    BY <2>1, <2>2 DEF Fifo
<1> QED
  BY <1>1, <1>2, <1>3, <1>4, <1>5, <1>6, <1>7 DEF Consumer

LEMMA NextTyped == TypeOK /\ Fifo /\ [Next]_vars => TypeOK' /\ Fifo'
<1> SUFFICES ASSUME TypeOK, Fifo, [Next]_vars PROVE TypeOK' /\ Fifo'
  OBVIOUS
<1>1. CASE Interrupt
  BY <1>1 DEF Interrupt, launcher, consumer, TypeOK, Fifo, Looping, Popped, Pushed
<1>2. CASE UNCHANGED vars
  BY <1>2 DEF vars, TypeOK, Fifo, Looping, Popped, Pushed
<1> QED
  BY <1>1, <1>2, LauncherTyped, FetcherTyped, ConsumerTyped DEF Next

\* Every variable of the walk keeps its type.
THEOREM TypeCorrect == Spec => []TypeOK
<1>1. Spec => [](TypeOK /\ Fifo)
  BY InitTyped, NextTyped, PTL DEF Spec
<1> QED
  BY <1>1, PTL

-----------------------------------------------------------------------------
(* The prefetching walk is the sequential walk *)

LEMMA InitSequential == Init => Sequential!Init
BY DEF Init, Sequential!Init, SeqAt, SeqShard

LEMMA ConsumerSequential ==
  ASSUME TypeOK, Fifo, Consumer
  PROVE  [Sequential!Next]_Sequential!vars
<1> USE ShardWalkAssumption DEF Sequential!vars, SeqAt, SeqShard, Fifo, Looping
<1>1. CASE TakeFuture
  <2>1. Sequential!Check
    BY <1>1 DEF TakeFuture, Sequential!Check, TypeOK
  <2> QED
    BY <2>1 DEF Sequential!Next
<1>2. CASE TakeResult
  <2>1. Sequential!Open
    BY <1>2 DEF TakeResult, Sequential!Open
  <2> QED
    BY <2>1 DEF Sequential!Next
<1>3. CASE DeliverRecord
  <2>1. Sequential!Deliver
    BY <1>3 DEF DeliverRecord, Sequential!Deliver
  <2> QED
    BY <2>1 DEF Sequential!Next
<1>4. CASE ShardDone
  <2>1. Sequential!NextShard
    BY <1>4 DEF ShardDone, Sequential!NextShard
  <2> QED
    BY <2>1 DEF Sequential!Next
<1>5. CASE Release \/ Cancel \/ Wake
  BY <1>5 DEF Release, Cancel, Wake
<1>6. CASE FreeSlot
  <2>1. CASE turn = NumShards
    <3>1. Sequential!Check
      BY <1>6, <2>1 DEF FreeSlot, Sequential!Check, TypeOK
    <3> QED
      BY <3>1 DEF Sequential!Next
  <2>2. CASE turn # NumShards
    BY <1>6, <2>2 DEF FreeSlot
  <2> QED
    BY <2>1, <2>2
<1>7. CASE Join
  <2>1. Sequential!Return
    BY <1>7 DEF Join, Sequential!Return
  <2> QED
    BY <2>1 DEF Sequential!Next
<1> QED
  BY <1>1, <1>2, <1>3, <1>4, <1>5, <1>6, <1>7 DEF Consumer

LEMMA NextSequential ==
  TypeOK /\ Fifo /\ [Next]_vars => [Sequential!Next]_Sequential!vars
<1> SUFFICES ASSUME TypeOK, Fifo, [Next]_vars PROVE [Sequential!Next]_Sequential!vars
  OBVIOUS
<1>1. CASE UNCHANGED consumer
  BY <1>1 DEF consumer, Sequential!vars, SeqAt, SeqShard
<1>2. CASE Consumer
  BY <1>2, ConsumerSequential
<1>3. Consumer \/ UNCHANGED consumer
  BY DEF Next, vars, Interrupt, Launcher, Park, WithinBudget, TakeSlot, PushFuture, Spawn,
     LauncherQuits, Fetcher, Fetched, Send, FetchFails, consumer
<1> QED
  BY <1>1, <1>2, <1>3

\* Whatever order the fetches end in, the records, their order and the error the
\* walk returns are those of a sequential walk of the same shards: Merkle fold and
\* apply cannot tell the two apart.
THEOREM PrefetchIsSequential == Spec => ImplementsSequentialWalk
<1>1. Spec => [](TypeOK /\ Fifo)
  BY InitTyped, NextTyped, PTL DEF Spec
<1> QED
  BY <1>1, InitSequential, NextSequential, PTL DEF Spec, ImplementsSequentialWalk, Sequential!Spec

-----------------------------------------------------------------------------
(* Goroutines and window slots *)

LEMMA ShardSetFinite ==
  ASSUME NEW S \in SUBSET Shards
  PROVE  IsFiniteSet(S) /\ Cardinality(S) \in Nat
<1>1. IsFiniteSet(Shards)
  BY FS_Interval, ShardWalkAssumption DEF Shards
<1> QED
  BY <1>1, FS_Subset, FS_CardinalityType

LEMMA InitWalk == Init => WalkInv
<1> SUFFICES ASSUME Init PROVE WalkInv
  OBVIOUS
<1>1. TypeOK /\ Fifo
  BY InitTyped
<1>2. Running = {} /\ InFlightOrBuffered = {}
  BY DEF Init, Running, InFlightOrBuffered
<1>3. LaunchFront /\ TakenHeld
  BY DEF Init, LaunchFront, TakenHeld, Shards
<1>4. GoroutinesCounted /\ SlotsCoverShards /\ NoGoroutineLeft
  BY <1>2, FS_EmptySet DEF Init, GoroutinesCounted, SlotsCoverShards, NoGoroutineLeft
<1> QED
  BY <1>1, <1>3, <1>4 DEF WalkInv

\* A step that touches no fetch, starts no launch and releases nothing.
LEMMA QuietWalk ==
  ASSUME WalkInv, TypeOK', Fifo', UNCHANGED <<fetch, next, sem, wg>>,
         lpc' = "done" <=> lpc = "done",
         lpc' \in {"order", "spawn"} <=> lpc \in {"order", "spawn"},
         cpc' = "slot" <=> cpc = "slot",
         cpc' \in {"records", "release"} => cur' \in Shards /\ fetch[cur'] = "taken",
         cpc' = "returned" => cpc = "returned" \/ wg = 0
  PROVE  WalkInv'
<1>1. Running' = Running /\ InFlightOrBuffered' = InFlightOrBuffered
  BY DEF Running, InFlightOrBuffered
<1>2. LaunchFront' /\ TakenHeld' /\ GoroutinesCounted' /\ SlotsCoverShards'
  BY <1>1 DEF WalkInv, LaunchFront, TakenHeld, GoroutinesCounted, SlotsCoverShards
<1>3. NoGoroutineLeft'
  <2>1. CASE cpc = "returned"
    BY <2>1 DEF WalkInv, NoGoroutineLeft
  <2>2. CASE wg = 0
    <3>1. IsFiniteSet(Running) /\ Cardinality(Running) \in Nat
      BY ShardSetFinite DEF Running
    <3>2. lpc = "done" /\ Running = {}
      BY <2>2, <3>1, FS_EmptySet DEF WalkInv, GoroutinesCounted
    <3> QED
      BY <3>2 DEF NoGoroutineLeft, Running
  <2>3. CASE cpc' # "returned"
    BY <2>3 DEF NoGoroutineLeft
  <2> QED
    BY <2>1, <2>2, <2>3
<1> QED
  BY <1>2, <1>3 DEF WalkInv

LEMMA LauncherWalk ==
  ASSUME WalkInv, TypeOK', Fifo', Launcher
  PROVE  WalkInv'
<1>0. UNCHANGED consumer /\ lpc # "done" /\ cpc # "returned"
  BY DEF Launcher, Park, WithinBudget, TakeSlot, PushFuture, Spawn, LauncherQuits, WalkInv,
     NoGoroutineLeft
<1>1. CASE Park \/ WithinBudget \/ PushFuture
  BY <1>0, <1>1, QuietWalk DEF Park, WithinBudget, PushFuture, WalkInv, TakenHeld, consumer
<1>2. CASE TakeSlot \/ LauncherQuits
  <2>1. /\ UNCHANGED <<fetch, next, cpc, cur>>
        /\ \/ lpc' = "order" /\ lpc = "window" /\ sem' = sem + 1 /\ wg' = wg
           \/ lpc' = "done" /\ wg' = wg - 1 /\ sem' = sem
    BY <1>0, <1>2 DEF TakeSlot, LauncherQuits, consumer
  <2>2. Running' = Running /\ InFlightOrBuffered' = InFlightOrBuffered
    BY <2>1 DEF Running, InFlightOrBuffered
  <2>3. Cardinality(Running) \in Nat /\ Cardinality(InFlightOrBuffered) \in Nat
    BY ShardSetFinite DEF Running, InFlightOrBuffered
  <2>4. sem \in Int /\ wg \in Int
    BY DEF WalkInv, TypeOK
  <2>5. GoroutinesCounted' /\ SlotsCoverShards'
    BY <1>0, <2>1, <2>2, <2>3, <2>4 DEF WalkInv, GoroutinesCounted, SlotsCoverShards
  <2>6. LaunchFront' /\ TakenHeld' /\ NoGoroutineLeft'
    BY <1>0, <2>1 DEF WalkInv, LaunchFront, TakenHeld, NoGoroutineLeft
  <2> QED
    BY <2>5, <2>6 DEF WalkInv
<1>3. CASE Spawn
  <2>1. /\ lpc = "spawn" /\ UNCHANGED <<sem, cpc, cur>>
        /\ fetch' = [fetch EXCEPT ![next] = "fetching"]
        /\ \/ lpc' = "done" /\ wg' = wg
           \/ lpc' = "budget" /\ wg' = wg + 1 /\ next' = next + 1
    BY <1>0, <1>3 DEF Spawn, consumer
  <2>2. next \in Shards /\ next \in Nat /\ fetch[next] = "none" /\ sem \in Int /\ wg \in Int
    BY <1>0, ShardWalkAssumption, SMTT(30) DEF WalkInv, TypeOK, LaunchFront, Shards
  <2>3. \A i \in Shards : fetch'[i] = IF i = next THEN "fetching" ELSE fetch[i]
    BY <2>1 DEF WalkInv, TypeOK
  <2>4. /\ Running' = Running \cup {next} /\ next \notin Running
        /\ InFlightOrBuffered' = InFlightOrBuffered \cup {next} /\ next \notin InFlightOrBuffered
    BY <2>2, <2>3 DEF Running, InFlightOrBuffered
  <2>5. /\ IsFiniteSet(Running) /\ Cardinality(Running) \in Nat
        /\ IsFiniteSet(InFlightOrBuffered) /\ Cardinality(InFlightOrBuffered) \in Nat
    BY ShardSetFinite DEF Running, InFlightOrBuffered
  <2>6. /\ Cardinality(Running') = Cardinality(Running) + 1
        /\ Cardinality(InFlightOrBuffered') = Cardinality(InFlightOrBuffered) + 1
    BY <2>4, <2>5, FS_AddElement
  <2>7. GoroutinesCounted' /\ SlotsCoverShards'
    BY <2>1, <2>2, <2>5, <2>6 DEF WalkInv, GoroutinesCounted, SlotsCoverShards
  <2>8. LaunchFront'
    <3> SUFFICES ASSUME lpc' # "done", NEW i \in next'..NumShards PROVE fetch'[i] = "none"
      BY DEF LaunchFront
    <3>1. next' = next + 1 /\ i \in next..NumShards /\ i \in Shards /\ i # next
      BY <2>1, <2>2, ShardWalkAssumption DEF Shards
    <3> QED
      BY <1>0, <2>3, <3>1 DEF WalkInv, LaunchFront
  <2>9. TakenHeld' /\ NoGoroutineLeft'
    BY <1>0, <2>1, <2>2, <2>3 DEF WalkInv, TakenHeld, NoGoroutineLeft
  <2> QED
    BY <2>7, <2>8, <2>9 DEF WalkInv
<1> QED
  BY <1>1, <1>2, <1>3 DEF Launcher

\* A fetch moves on, is taken or is consumed: it was launched before.
LEMMA FetchMoves ==
  ASSUME WalkInv, NEW i \in Shards, fetch[i] # "none", NEW s,
         fetch' = [fetch EXCEPT ![i] = s], next' = next, lpc' = "done" <=> lpc = "done"
  PROVE  /\ LaunchFront'
         /\ \A j \in Shards : fetch'[j] = IF j = i THEN s ELSE fetch[j]
<1>1. \A j \in Shards : fetch'[j] = IF j = i THEN s ELSE fetch[j]
  BY DEF WalkInv, TypeOK
<1>2. next \in Nat /\ next >= 1
  BY ShardWalkAssumption DEF WalkInv, TypeOK, Shards
<1>3. LaunchFront'
  <2> SUFFICES ASSUME lpc # "done", NEW j \in next..NumShards PROVE fetch'[j] = "none"
    BY DEF LaunchFront
  <2>1. j \in Shards /\ fetch[j] = "none"
    BY <1>2, ShardWalkAssumption DEF Shards, WalkInv, LaunchFront
  <2> QED
    BY <1>1, <2>1
<1> QED
  BY <1>1, <1>3

LEMMA FetcherWalk ==
  ASSUME WalkInv, TypeOK', Fifo', NEW i \in Shards, Fetcher(i)
  PROVE  WalkInv'
<1>1. /\ UNCHANGED <<lpc, next, sem, cpc, cur>> /\ fetch[i] \in {"fetching", "fetched"}
      /\ \/ fetch' = [fetch EXCEPT ![i] = "fetched"] /\ wg' = wg
         \/ fetch' = [fetch EXCEPT ![i] = "ready"] /\ wg' = wg - 1
         \/ fetch' = [fetch EXCEPT ![i] = "failed"] /\ wg' = wg - 1
  BY DEF Fetcher, Fetched, Send, FetchFails, launcher, consumer
<1>2. PICK s \in {"fetched", "ready", "failed"} :
        /\ fetch' = [fetch EXCEPT ![i] = s]
        /\ wg' = IF s = "fetched" THEN wg ELSE wg - 1
  BY <1>1
<1>3. LaunchFront' /\ \A j \in Shards : fetch'[j] = IF j = i THEN s ELSE fetch[j]
  <2>1. fetch[i] # "none" /\ next' = next /\ (lpc' = "done" <=> lpc = "done")
    BY <1>1
  <2>2. fetch' = [fetch EXCEPT ![i] = s]
    BY <1>2
  <2> QED
    BY <2>1, <2>2, FetchMoves
<1>4. /\ i \in Running /\ InFlightOrBuffered' = InFlightOrBuffered
      /\ Running' = IF s = "fetched" THEN Running ELSE Running \ {i}
  BY <1>1, <1>3 DEF Running, InFlightOrBuffered
<1>5. IsFiniteSet(Running) /\ Cardinality(Running) \in Nat /\ wg \in Int
  BY ShardSetFinite DEF Running, WalkInv, TypeOK
<1>6. Cardinality(Running') = IF s = "fetched" THEN Cardinality(Running) ELSE Cardinality(Running) - 1
  BY <1>4, <1>5, FS_RemoveElement
<1>7. GoroutinesCounted' /\ SlotsCoverShards'
  BY <1>1, <1>2, <1>4, <1>5, <1>6 DEF WalkInv, GoroutinesCounted, SlotsCoverShards
<1>8. TakenHeld' /\ NoGoroutineLeft'
  BY <1>1, <1>3 DEF WalkInv, TakenHeld, NoGoroutineLeft
<1> QED
  BY <1>3, <1>7, <1>8 DEF WalkInv

LEMMA ConsumerWalk ==
  ASSUME WalkInv, TypeOK', Fifo', Consumer
  PROVE  WalkInv'
<1>1. CASE TakeFuture \/ DeliverRecord \/ ShardDone \/ Cancel \/ Wake \/ Join
  BY <1>1, QuietWalk DEF TakeFuture, DeliverRecord, ShardDone, Cancel, Wake, Join, Broadcast,
     launcher, WalkInv, TakenHeld
<1>2. CASE TakeResult
  <2>0. cur \in Shards
    BY <1>2, ShardWalkAssumption DEF TakeResult, WalkInv, Fifo, Looping, TypeOK, Shards
  <2>1. CASE cpc' # "records"
    <3>1. cpc = "future" /\ cpc' = "stop" /\ UNCHANGED <<fetch, lpc, next, sem, wg>>
      BY <1>2, <2>1 DEF TakeResult, launcher
    <3> QED
      BY <3>1, QuietWalk
  <2>2. CASE cpc' = "records"
    <3>1. /\ fetch[cur] = "ready" /\ fetch' = [fetch EXCEPT ![cur] = "taken"]
          /\ cpc = "future" /\ cpc' = "records" /\ UNCHANGED <<lpc, next, sem, wg, cur>>
      BY <1>2, <2>2 DEF TakeResult, launcher
    <3>2. LaunchFront' /\ \A j \in Shards : fetch'[j] = IF j = cur THEN "taken" ELSE fetch[j]
      BY <2>0, <3>1, FetchMoves
    <3>3. Running' = Running /\ InFlightOrBuffered' = InFlightOrBuffered
      BY <3>1, <3>2 DEF Running, InFlightOrBuffered
    <3>4. GoroutinesCounted' /\ SlotsCoverShards' /\ TakenHeld' /\ NoGoroutineLeft'
      BY <2>0, <3>1, <3>2, <3>3 DEF WalkInv, GoroutinesCounted, SlotsCoverShards, TakenHeld,
         NoGoroutineLeft
    <3> QED
      BY <3>2, <3>4 DEF WalkInv
  <2> QED
    BY <2>1, <2>2
<1>3. CASE Release
  <2>1. /\ cpc = "release" /\ cpc' = "slot" /\ UNCHANGED <<next, sem, wg, cur>>
        /\ fetch' = [fetch EXCEPT ![cur] = "consumed"]
        /\ lpc' = "done" <=> lpc = "done"
        /\ lpc' \in {"order", "spawn"} <=> lpc \in {"order", "spawn"}
    BY <1>3 DEF Release, Broadcast
  <2>2. cur \in Shards /\ fetch[cur] = "taken"
    BY <2>1 DEF WalkInv, TakenHeld
  <2>3. LaunchFront' /\ \A j \in Shards : fetch'[j] = IF j = cur THEN "consumed" ELSE fetch[j]
    BY <2>1, <2>2, FetchMoves
  <2>4. /\ Running' = Running /\ cur \in InFlightOrBuffered
        /\ InFlightOrBuffered' = InFlightOrBuffered \ {cur}
    BY <2>2, <2>3 DEF Running, InFlightOrBuffered
  <2>5. IsFiniteSet(InFlightOrBuffered) /\ Cardinality(InFlightOrBuffered) \in Nat /\ sem \in Int
    BY ShardSetFinite, SMTT(30) DEF InFlightOrBuffered, WalkInv, TypeOK
  <2>6. Cardinality(InFlightOrBuffered') = Cardinality(InFlightOrBuffered) - 1
    BY <2>4, <2>5, FS_RemoveElement
  <2>7. GoroutinesCounted' /\ SlotsCoverShards' /\ TakenHeld' /\ NoGoroutineLeft'
    BY <2>1, <2>4, <2>5, <2>6 DEF WalkInv, GoroutinesCounted, SlotsCoverShards, TakenHeld,
       NoGoroutineLeft
  <2> QED
    BY <2>3, <2>7 DEF WalkInv
<1>4. CASE FreeSlot
  <2>1. /\ cpc = "slot" /\ cpc' \in {"order", "stop"} /\ sem' = sem - 1
        /\ UNCHANGED <<fetch, lpc, next, wg, cur>>
    BY <1>4 DEF FreeSlot, launcher
  <2>2. Running' = Running /\ InFlightOrBuffered' = InFlightOrBuffered
    BY <2>1 DEF Running, InFlightOrBuffered
  <2>3. Cardinality(InFlightOrBuffered) \in Nat /\ sem \in Int
    BY ShardSetFinite, SMTT(30) DEF InFlightOrBuffered, WalkInv, TypeOK
  <2>4. LaunchFront' /\ TakenHeld' /\ GoroutinesCounted' /\ SlotsCoverShards' /\ NoGoroutineLeft'
    BY <2>1, <2>2, <2>3 DEF WalkInv, LaunchFront, TakenHeld, GoroutinesCounted,
       SlotsCoverShards, NoGoroutineLeft
  <2> QED
    BY <2>4 DEF WalkInv
<1> QED
  BY <1>1, <1>2, <1>3, <1>4 DEF Consumer

LEMMA NextWalk == WalkInv /\ [Next]_vars => WalkInv'
<1> SUFFICES ASSUME WalkInv, [Next]_vars PROVE WalkInv'
  OBVIOUS
<1>1. TypeOK' /\ Fifo'
  BY NextTyped DEF WalkInv
<1>2. CASE Interrupt \/ UNCHANGED vars
  BY <1>1, <1>2, QuietWalk DEF Interrupt, vars, launcher, consumer, WalkInv, TakenHeld
<1> QED
  BY <1>1, <1>2, LauncherWalk, FetcherWalk, ConsumerWalk DEF Next

\* When the walk returns, with or without an error, no goroutine it started is
\* left running.
THEOREM WalkLeavesNoGoroutine == Spec => []NoGoroutineLeft
<1>1. WalkInv => NoGoroutineLeft
  BY DEF WalkInv
<1> QED
  BY <1>1, InitWalk, NextWalk, PTL DEF Spec

\* However the fetches, the consumer and an interrupt interleave, the walk never
\* holds more shards than the window has slots.
THEOREM WindowAlwaysHardCap == Spec => []WindowIsHardCap
<1>1. WalkInv => WindowIsHardCap
  <2> SUFFICES ASSUME WalkInv PROVE WindowIsHardCap
    OBVIOUS
  <2>1. Cardinality(InFlightOrBuffered) \in Nat /\ sem \in Int /\ sem <= Window
    BY ShardSetFinite, WindowPositive DEF InFlightOrBuffered, WalkInv, TypeOK
  <2> QED
    BY <2>1, WindowPositive, ShardWalkAssumption DEF WalkInv, SlotsCoverShards, WindowIsHardCap
<1> QED
  BY <1>1, InitWalk, NextWalk, PTL DEF Spec

-----------------------------------------------------------------------------
(* The budget *)

\* The shards whose bytes the walk holds, and what a set of shards weighs.
Held == {i \in Shards : fetch[i] \in {"fetched", "ready", "taken"}}
Weight(T) == MapThenSumSet(LAMBDA i : Size[i], T)

\* The shard the sum takes out first.
Pick(s) == CHOOSE x \in s : TRUE

\* f is the function by which the weight of T is computed.
Weighs(f, T) ==
  f = [s \in SUBSET T |-> IF s = {} THEN 0 ELSE Size[Pick(s)] + f[s \ {Pick(s)}]]

\* g adds the sizes of the shards up to k, whichever is taken out first.
Adds(g, k) ==
  /\ g \in [SUBSET (1..k) -> Nat]
  /\ g[{}] = 0
  /\ \A s \in SUBSET (1..k) : \A x \in s : g[s] = Size[x] + g[s \ {x}]

\* There is such a g: the shards are added one at a time.
LEMMA AddsExists == \E g : Adds(g, NumShards)
<1> DEFINE S == {k \in Nat : k <= NumShards => \E g : Adds(g, k)}
<1>1. 0 \in S
  <2> DEFINE g == [s \in SUBSET (1..0) |-> 0]
  <2>1. 1..0 = {}
    OBVIOUS
  <2>2. Adds(g, 0)
    BY <2>1 DEF Adds
  <2> QED BY <2>2
<1>2. ASSUME NEW k \in Nat, k \in S PROVE k + 1 \in S
  <2> SUFFICES ASSUME k + 1 <= NumShards PROVE \E g : Adds(g, k + 1)
    OBVIOUS
  <2>1. PICK g : Adds(g, k)
    BY <1>2, ShardWalkAssumption
  <2> DEFINE D == SUBSET (1..k + 1)
             h == [s \in D |-> IF k + 1 \in s THEN Size[k + 1] + g[s \ {k + 1}] ELSE g[s]]
  <2>2. \A i \in 1..k + 1 : Size[i] \in Nat
    BY ShardWalkAssumption DEF Shards
  <2>3. \A s \in D : s \ {k + 1} \in SUBSET (1..k) /\ (k + 1 \notin s => s \in SUBSET (1..k))
    OBVIOUS
  <2>4. \A s \in SUBSET (1..k) : g[s] \in Nat
    BY <2>1 DEF Adds
  <2>5. h \in [D -> Nat]
    <3> SUFFICES ASSUME NEW s \in D
                 PROVE  (IF k + 1 \in s THEN Size[k + 1] + g[s \ {k + 1}] ELSE g[s]) \in Nat
      OBVIOUS
    <3>1. Size[k + 1] \in Nat /\ g[s \ {k + 1}] \in Nat /\ (k + 1 \notin s => g[s] \in Nat)
      BY <2>2, <2>3, <2>4
    <3> HIDE DEF D
    <3> QED BY <3>1
  <2>6. h[{}] = 0
    BY <2>1 DEF Adds
  <2>7. ASSUME NEW s \in D, NEW x \in s PROVE h[s] = Size[x] + h[s \ {x}]
    <3>1. s \ {x} \in D /\ x \in 1..k + 1
      OBVIOUS
    <3>2. CASE x = k + 1
      <4>1. h[s] = Size[x] + g[s \ {x}] /\ h[s \ {x}] = g[s \ {x}]
        BY <3>1, <3>2
      <4> HIDE DEF h
      <4> QED BY <4>1
    <3>3. CASE x # k + 1 /\ k + 1 \notin s
      <4>1. h[s] = g[s] /\ h[s \ {x}] = g[s \ {x}]
        BY <3>1, <3>3
      <4>2. g[s] = Size[x] + g[s \ {x}]
        BY <2>1, <2>3, <3>3 DEF Adds
      <4> HIDE DEF h
      <4> QED BY <4>1, <4>2
    <3>4. CASE x # k + 1 /\ k + 1 \in s
      <4> DEFINE t == s \ {k + 1}  u == t \ {x}
      <4>1. t \in SUBSET (1..k) /\ x \in t /\ (s \ {x}) \ {k + 1} = u /\ u \in SUBSET (1..k)
            /\ k + 1 \in s \ {x}
        BY <3>4, <2>3
      <4>2. h[s] = Size[k + 1] + g[t] /\ h[s \ {x}] = Size[k + 1] + g[u]
        BY <3>1, <3>4, <4>1
      <4>3. g[t] = Size[x] + g[u]
        <5> HIDE DEF t
        <5> QED BY <2>1, <4>1 DEF Adds
      <4>4. Size[x] \in Nat /\ Size[k + 1] \in Nat /\ g[u] \in Nat
        <5> HIDE DEF u
        <5> QED BY <2>2, <2>4, <3>1, <4>1
      <4> HIDE DEF h, t, u
      <4> QED BY <4>2, <4>3, <4>4
    <3> QED BY <3>2, <3>3, <3>4
  <2>8. Adds(h, k + 1)
    <3> HIDE DEF h
    <3> QED BY <2>5, <2>6, <2>7 DEF Adds
  <2> HIDE DEF h
  <2> QED BY <2>8
<1>3. Nat \subseteq S
  <2> HIDE DEF S
  <2> QED BY <1>1, <1>2, InductionOnNat
<1> QED BY <1>3, ShardWalkAssumption

\* The sum the fold computes is that of g: the order it takes the shards in does not
\* matter.
LEMMA WeightAdds ==
  ASSUME NEW g, Adds(g, NumShards), NEW T \in SUBSET Shards
  PROVE  Weight(T) = g[T]
<1> DEFINE F == CHOOSE f : Weighs(f, T)
           r == [s \in SUBSET T |-> g[s]]
<1>0. \A s \in SUBSET T : s \in SUBSET (1..NumShards) /\ (s # {} => Pick(s) \in s)
  BY DEF Shards, Pick
<1>1. Weighs(r, T)
  <2>1. ASSUME NEW s \in SUBSET T
        PROVE  r[s] = IF s = {} THEN 0 ELSE Size[Pick(s)] + r[s \ {Pick(s)}]
    <3>1. s \ {Pick(s)} \in SUBSET T
      OBVIOUS
    <3>2. r[s] = g[s] /\ r[s \ {Pick(s)}] = g[s \ {Pick(s)}]
      BY <3>1
    <3> HIDE DEF r
    <3> QED BY <1>0, <3>2 DEF Adds
  <2> HIDE DEF r
  <2>2. r = [s \in SUBSET T |-> r[s]]
    BY DEF r
  <2>3. r = [s \in SUBSET T |-> IF s = {} THEN 0 ELSE Size[Pick(s)] + r[s \ {Pick(s)}]]
    BY <2>1, <2>2
  <2> QED BY <2>3 DEF Weighs
<1>2. Weighs(F, T)
  <2> HIDE DEF r
  <2> QED BY <1>1
<1>3. Weight(T) = F[T]
  BY DEF Weight, MapThenSumSet, MapThenFoldSet, Weighs, Pick
<1> HIDE DEF F
<1> DEFINE C == {n \in Nat : \A s \in SUBSET T : Cardinality(s) = n => F[s] = g[s]}
<1>4. 0 \in C
  <2> SUFFICES ASSUME NEW s \in SUBSET T, Cardinality(s) = 0 PROVE F[s] = g[s]
    OBVIOUS
  <2>1. IsFiniteSet(s)
    BY ShardSetFinite
  <2>2. s = {}
    BY <2>1, FS_EmptySet
  <2> QED BY <1>2, <2>2 DEF Weighs, Adds
<1>5. ASSUME NEW n \in Nat, n \in C PROVE n + 1 \in C
  <2> SUFFICES ASSUME NEW s \in SUBSET T, Cardinality(s) = n + 1 PROVE F[s] = g[s]
    OBVIOUS
  <2>1. IsFiniteSet(s) /\ s # {}
    BY ShardSetFinite, FS_EmptySet
  <2> DEFINE x == Pick(s)  t == s \ {x}
  <2>2. x \in s /\ t \in SUBSET T
    BY <1>0, <2>1
  <2>3. Cardinality(t) = n
    <3> HIDE DEF x
    <3>1. Cardinality(t) = Cardinality(s) - 1
      BY <2>1, <2>2, FS_RemoveElement
    <3> HIDE DEF t
    <3> QED BY <3>1
  <2>4. F[s] = Size[x] + F[t]
    BY <1>2, <2>1 DEF Weighs
  <2>5. g[s] = Size[x] + g[t]
    <3> HIDE DEF x
    <3> QED BY <1>0, <2>2 DEF Adds
  <2>6. F[t] = g[t]
    <3> HIDE DEF t
    <3> QED BY <1>5, <2>2, <2>3
  <2> HIDE DEF x, t
  <2> QED BY <2>4, <2>5, <2>6
<1>6. Nat \subseteq C
  <2> HIDE DEF C
  <2> QED BY <1>4, <1>5, InductionOnNat
<1>7. T \in SUBSET T /\ Cardinality(T) \in Nat
  BY ShardSetFinite
<1>8. F[T] = g[T]
  BY <1>6, <1>7
<1> QED BY <1>3, <1>8

\* One shard more adds its size, none weighs nothing.
LEMMA WeightStep ==
  /\ Weight({}) = 0
  /\ \A T \in SUBSET Shards : Weight(T) \in Nat
  /\ \A T \in SUBSET Shards : \A x \in T : Weight(T) = Size[x] + Weight(T \ {x})
<1>1. PICK g : Adds(g, NumShards)
  BY AddsExists
<1>2. \A T \in SUBSET Shards : Weight(T) = g[T]
  BY <1>1, WeightAdds
<1>3. \A T \in SUBSET Shards : \A x \in T : T \ {x} \in SUBSET Shards
  OBVIOUS
<1> QED BY <1>1, <1>2, <1>3 DEF Adds, Shards

\* Nothing is held and nothing is counted at first.
LEMMA BudgetInit == Init => BudgetCountsWhatIsHeld
<1> SUFFICES ASSUME Init PROVE BudgetCountsWhatIsHeld
  OBVIOUS
<1>1. Held = {} /\ buffered = 0
  BY DEF Init, Held
<1>2. Weight(Held) = 0
  BY <1>1, WeightStep
<1> QED BY <1>1, <1>2 DEF BudgetCountsWhatIsHeld, Weight, Held

\* A fetch that ends well adds its shard and its size, a release takes both away,
\* and no other step touches either.
LEMMA BudgetNext ==
  ASSUME WalkInv, BudgetCountsWhatIsHeld, [Next]_vars
  PROVE  BudgetCountsWhatIsHeld'
<1>0. /\ TypeOK /\ buffered = Weight(Held) /\ buffered \in Int
      /\ Held \in SUBSET Shards /\ \A i \in Shards : Size[i] \in Nat
  BY ShardWalkAssumption DEF WalkInv, TypeOK, BudgetCountsWhatIsHeld, Weight, Held
<1> SUFFICES buffered' = Weight(Held')
  BY DEF BudgetCountsWhatIsHeld, Weight, Held, MapThenSumSet, MapThenFoldSet
<1>1. CASE Held' = Held /\ buffered' = buffered
  BY <1>0, <1>1
<1>2. CASE Spawn
  <2>1. next \in Shards /\ fetch[next] = "none"
    BY <1>0, <1>2, ShardWalkAssumption DEF Spawn, WalkInv, TypeOK, LaunchFront, Shards
  <2> QED BY <1>0, <1>1, <1>2, <2>1 DEF Spawn, TypeOK, Held
<1>3. ASSUME NEW i \in Shards, Fetched(i) PROVE buffered' = Weight(Held')
  <2>1. i \notin Held /\ Held' = Held \cup {i} /\ buffered' = buffered + Size[i]
    BY <1>0, <1>3 DEF Fetched, TypeOK, Held
  <2>2. Held' \in SUBSET Shards /\ i \in Held' /\ Held' \ {i} = Held
    BY <1>0, <2>1
  <2>3. Weight(Held') = Size[i] + Weight(Held)
    BY <2>2, WeightStep
  <2> QED BY <1>0, <2>1, <2>3
<1>4. ASSUME NEW i \in Shards, Send(i) \/ FetchFails(i) PROVE buffered' = Weight(Held')
  BY <1>0, <1>1, <1>4 DEF Send, FetchFails, TypeOK, Held
<1>5. CASE TakeResult
  <2>1. cur \in Shards
    BY <1>5, ShardWalkAssumption DEF TakeResult, WalkInv, Fifo, Looping, TypeOK, Shards
  <2> QED BY <1>0, <1>1, <1>5, <2>1 DEF TakeResult, TypeOK, Held
<1>6. CASE Release
  <2>1. cur \in Shards /\ fetch[cur] = "taken"
    BY <1>6 DEF Release, WalkInv, TakenHeld
  <2>2. cur \in Held /\ Held' = Held \ {cur} /\ buffered' = buffered - Size[cur]
    BY <1>0, <1>6, <2>1 DEF Release, TypeOK, Held
  <2>3. Weight(Held) = Size[cur] + Weight(Held') /\ Weight(Held') \in Nat
    BY <1>0, <2>2, WeightStep
  <2> QED BY <1>0, <2>1, <2>2, <2>3
<1>7. CASE UNCHANGED <<fetch, buffered>>
  BY <1>1, <1>7 DEF Held
<1> QED
  BY <1>2, <1>3, <1>4, <1>5, <1>6, <1>7 DEF Next, vars, Interrupt, Launcher, Park, WithinBudget,
     TakeSlot, PushFuture, LauncherQuits, Fetcher, Consumer, TakeFuture, DeliverRecord, ShardDone,
     FreeSlot, Cancel, Wake, Join

\* bufferedBytes is the weight of exactly the shards that are fetched and not yet
\* consumed, whatever order the fetches end in: nothing is counted twice, and what is
\* released was counted.
THEOREM BudgetAlwaysCounts == Spec => []BudgetCountsWhatIsHeld
<1>1. WalkInv /\ BudgetCountsWhatIsHeld /\ [Next]_vars => (WalkInv /\ BudgetCountsWhatIsHeld)'
  BY NextWalk, BudgetNext
<1> QED
  BY <1>1, InitWalk, BudgetInit, PTL DEF Spec
=============================================================================
