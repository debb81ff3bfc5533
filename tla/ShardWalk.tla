----------------------------- MODULE ShardWalk -----------------------------
(***************************************************************************)
(* The prefetching shard walk (StreamReader.walkShardsConcurrent): one     *)
(* launcher goroutine starts a fetch goroutine per shard, gated by a byte  *)
(* budget and a window of slots, and the calling goroutine consumes the    *)
(* results in launch order.  A failed fetch or record, or the operator's   *)
(* interrupt, cancels the shared context.                                  *)
(***************************************************************************)
EXTENDS Integers, Sequences, FiniteSetsExt

CONSTANTS
  NumShards,        \* len(root.Shards); without shards the walk returns at once
  NumRecords,       \* the records in each shard
  Size,             \* the fetched bytes of each shard
  FetchConcurrency, \* Options.FetchConcurrency, more than one here
  MaxMemoryBytes,   \* Options.MaxMemoryBytes, 0 for no budget
  MayInterrupt      \* may the operator interrupt the walk

Shards == 1..NumShards

ASSUME ShardWalkAssumption ==
  /\ NumShards \in Nat \ {0}
  /\ NumRecords \in [Shards -> Nat]
  /\ Size \in [Shards -> Nat]
  /\ FetchConcurrency \in Nat \ {0, 1}
  /\ MaxMemoryBytes \in Nat
  /\ MayInterrupt \in BOOLEAN

\* Never more slots than shards.
Window == IF FetchConcurrency > NumShards THEN NumShards ELSE FetchConcurrency

VARIABLES
  interrupted,  \* the caller's context is done
  ctxDone,      \* the walk's own context is done
  lpc,          \* where the launcher is
  next,         \* the shard the launcher is at
  sem,          \* window slots taken
  order,        \* the futures handed to the consumer: a channel of Window places
  fetch,        \* the state of each shard's fetch and of its one-place channel
  buffered,     \* bufferedBytes
  wg,           \* the WaitGroup's counter
  cpc,          \* where the consumer is
  turn,         \* the consumer's loop variable, from 1
  cur,          \* the shard whose future it took
  rec,          \* the records of that shard handed over so far
  delivered,    \* the records perRecord has accepted, in order
  walkErr       \* the error the walk returns

launcher == <<lpc, next>>
consumer == <<cpc, turn, cur, rec, delivered, walkErr>>
context == <<interrupted, ctxDone>>
vars == <<interrupted, ctxDone, lpc, next, sem, order, fetch, buffered, wg, cpc, turn, cur,
          rec, delivered, walkErr>>

-----------------------------------------------------------------------------
\* Mutant of Init: the launcher holds no count of its own.
InitUncounted ==
  /\ interrupted = FALSE /\ ctxDone = FALSE
  /\ lpc = "budget" /\ next = 1
  /\ sem = 0 /\ order = <<>> /\ buffered = 0 /\ wg = 0
  /\ fetch = [i \in Shards |-> "none"]
  /\ cpc = "order" /\ turn = 1 /\ cur = 0 /\ rec = 0
  /\ delivered = <<>> /\ walkErr = "none"

\* The channels are made, the launcher is counted and started.
Init ==
  /\ interrupted = FALSE
  /\ ctxDone = FALSE
  /\ lpc = "budget"
  /\ next = 1
  /\ sem = 0
  /\ order = <<>>
  /\ fetch = [i \in Shards |-> "none"]
  /\ buffered = 0
  /\ wg = 1
  /\ cpc = "order"
  /\ turn = 1
  /\ cur = 0
  /\ rec = 0
  /\ delivered = <<>>
  /\ walkErr = "none"

\* SIGINT or SIGTERM cancels the caller's context, and the walk's with it.  It
\* broadcasts on no condition variable.
Interrupt ==
  /\ MayInterrupt
  /\ ~interrupted
  /\ cpc # "returned"
  /\ interrupted' = TRUE
  /\ ctxDone' = TRUE
  /\ UNCHANGED <<launcher, sem, order, fetch, buffered, wg, consumer>>

-----------------------------------------------------------------------------
(* The launcher *)

OverBudget == MaxMemoryBytes > 0 /\ buffered >= MaxMemoryBytes

\* cond.Wait: the launcher sleeps until a broadcast.
Park ==
  /\ lpc = "budget"
  /\ OverBudget /\ ~ctxDone
  /\ lpc' = "parked"
  /\ UNCHANGED <<context, next, sem, order, fetch, buffered, wg, consumer>>

WithinBudget ==
  /\ lpc = "budget"
  /\ ~OverBudget /\ ~ctxDone
  /\ lpc' = "window"
  /\ UNCHANGED <<context, next, sem, order, fetch, buffered, wg, consumer>>

\* Mutant of TakeSlot: one fetch more than the window has slots.
TakeSlotOneMore ==
  /\ lpc = "window"
  /\ sem <= Window
  /\ sem' = sem + 1
  /\ lpc' = "order"
  /\ UNCHANGED <<context, next, order, fetch, buffered, wg, consumer>>

TakeSlot ==
  /\ lpc = "window"
  /\ sem < Window
  /\ sem' = sem + 1
  /\ lpc' = "order"
  /\ UNCHANGED <<context, next, order, fetch, buffered, wg, consumer>>

\* Mutant of PushFuture: the newest future goes to the front.
PushFutureFront ==
  /\ lpc = "order"
  /\ Len(order) < Window
  /\ order' = <<next>> \o order
  /\ lpc' = "spawn"
  /\ UNCHANGED <<context, next, sem, fetch, buffered, wg, consumer>>

PushFuture ==
  /\ lpc = "order"
  /\ Len(order) < Window
  /\ order' = Append(order, next)
  /\ lpc' = "spawn"
  /\ UNCHANGED <<context, next, sem, fetch, buffered, wg, consumer>>

\* wg.Add and the go statement; after the last shard the launcher exits.
Spawn ==
  /\ lpc = "spawn"
  /\ fetch' = [fetch EXCEPT ![next] = "fetching"]
  /\ IF next = NumShards
     THEN lpc' = "done" /\ wg' = wg /\ next' = next
     ELSE lpc' = "budget" /\ wg' = wg + 1 /\ next' = next + 1
  /\ UNCHANGED <<context, sem, order, buffered, consumer>>

\* A done context ends the launcher at each of its three waits.
LauncherQuits ==
  /\ lpc \in {"budget", "window", "order"}
  /\ ctxDone
  /\ lpc' = "done"
  /\ wg' = wg - 1
  /\ UNCHANGED <<context, next, sem, order, fetch, buffered, consumer>>

-----------------------------------------------------------------------------
(* The fetch goroutine of shard i *)

\* openOneShardSized opened the shard; its bytes count before it is handed over.
Fetched(i) ==
  /\ fetch[i] = "fetching"
  /\ fetch' = [fetch EXCEPT ![i] = "fetched"]
  /\ buffered' = buffered + Size[i]
  /\ UNCHANGED <<context, launcher, sem, order, wg, consumer>>

Send(i) ==
  /\ fetch[i] = "fetched"
  /\ fetch' = [fetch EXCEPT ![i] = "ready"]
  /\ wg' = wg - 1
  /\ UNCHANGED <<context, launcher, sem, order, buffered, consumer>>

\* The shard is missing, altered or unreadable, or the context ended the read.
FetchFails(i) ==
  /\ fetch[i] = "fetching"
  /\ fetch' = [fetch EXCEPT ![i] = "failed"]
  /\ wg' = wg - 1
  /\ UNCHANGED <<context, launcher, sem, order, buffered, consumer>>

-----------------------------------------------------------------------------
(* The consumer, the goroutine that called the walk *)

\* <-order: no context ends this wait.
TakeFuture ==
  /\ cpc = "order"
  /\ order # <<>>
  /\ cur' = Head(order)
  /\ order' = Tail(order)
  /\ cpc' = "future"
  /\ UNCHANGED <<context, launcher, sem, fetch, buffered, wg, turn, rec, delivered, walkErr>>

TakeResult ==
  /\ cpc = "future"
  /\ \/ /\ fetch[cur] = "ready"
        /\ fetch' = [fetch EXCEPT ![cur] = "taken"]
        /\ cpc' = "records"
        /\ rec' = 0
        /\ walkErr' = walkErr
     \/ /\ fetch[cur] = "failed"
        /\ fetch' = fetch
        /\ cpc' = "stop"
        /\ rec' = rec
        /\ walkErr' = "shard"
  /\ UNCHANGED <<context, launcher, sem, order, buffered, wg, turn, cur, delivered>>

DeliverRecord ==
  /\ cpc = "records"
  /\ rec < NumRecords[cur]
  /\ \/ /\ delivered' = Append(delivered, <<cur, rec + 1>>)
        /\ rec' = rec + 1
        /\ UNCHANGED <<cpc, walkErr>>
     \/ /\ walkErr' = "record"
        /\ cpc' = "stop"
        /\ UNCHANGED <<rec, delivered>>
  /\ UNCHANGED <<context, launcher, sem, order, fetch, buffered, wg, turn, cur>>

ShardDone ==
  /\ cpc = "records"
  /\ rec = NumRecords[cur]
  /\ cpc' = "release"
  /\ UNCHANGED <<context, launcher, sem, order, fetch, buffered, wg, turn, cur, rec, delivered,
                 walkErr>>

\* cond.Broadcast wakes a parked launcher.
Broadcast == lpc' = IF lpc = "parked" THEN "budget" ELSE lpc

\* Mutant of Release: the broadcast is missing.
ReleaseSilently ==
  /\ cpc = "release"
  /\ buffered' = buffered - Size[cur]
  /\ fetch' = [fetch EXCEPT ![cur] = "consumed"]
  /\ cpc' = "slot"
  /\ UNCHANGED <<context, launcher, sem, order, wg, turn, cur, rec, delivered, walkErr>>

\* Mutant of Release: the weight of the shard is not given back.
ReleaseKeepsWeight ==
  /\ cpc = "release"
  /\ fetch' = [fetch EXCEPT ![cur] = "consumed"]
  /\ Broadcast
  /\ cpc' = "slot"
  /\ UNCHANGED <<context, next, buffered, sem, order, wg, turn, cur, rec, delivered, walkErr>>

Release ==
  /\ cpc = "release"
  /\ buffered' = buffered - Size[cur]
  /\ fetch' = [fetch EXCEPT ![cur] = "consumed"]
  /\ Broadcast
  /\ cpc' = "slot"
  /\ UNCHANGED <<context, next, sem, order, wg, turn, cur, rec, delivered, walkErr>>

FreeSlot ==
  /\ cpc = "slot"
  /\ sem > 0
  /\ sem' = sem - 1
  /\ turn' = turn + 1
  /\ cpc' = IF turn = NumShards THEN "stop" ELSE "order"
  /\ UNCHANGED <<context, launcher, order, fetch, buffered, wg, cur, rec, delivered, walkErr>>

\* stop: cancel, then broadcast under the mutex.
Cancel ==
  /\ cpc = "stop"
  /\ ctxDone' = TRUE
  /\ cpc' = "wake"
  /\ UNCHANGED <<interrupted, launcher, sem, order, fetch, buffered, wg, turn, cur, rec,
                 delivered, walkErr>>

Wake ==
  /\ cpc = "wake"
  /\ Broadcast
  /\ cpc' = "join"
  /\ UNCHANGED <<context, next, sem, order, fetch, buffered, wg, turn, cur, rec, delivered,
                 walkErr>>

\* wg.Wait
Join ==
  /\ cpc = "join"
  /\ wg = 0
  /\ cpc' = "returned"
  /\ UNCHANGED <<context, launcher, sem, order, fetch, buffered, wg, turn, cur, rec, delivered,
                 walkErr>>

Launcher == Park \/ WithinBudget \/ TakeSlot \/ PushFuture \/ Spawn \/ LauncherQuits
Fetcher(i) == Fetched(i) \/ Send(i) \/ FetchFails(i)
Consumer == \/ TakeFuture \/ TakeResult \/ DeliverRecord \/ ShardDone \/ Release \/ FreeSlot
            \/ Cancel \/ Wake \/ Join

Next == Interrupt \/ Launcher \/ (\E i \in Shards : Fetcher(i)) \/ Consumer

Spec == Init /\ [][Next]_vars

\* Every goroutine that can run does: the Go scheduler, and store reads that end.
Fairness ==
  /\ WF_vars(Launcher)
  /\ \A i \in Shards : WF_vars(Fetcher(i))
  /\ WF_vars(Consumer)

FairSpec == Spec /\ Fairness

-----------------------------------------------------------------------------
(* Properties *)

\* Every variable keeps its type; no more slots are taken than the window has.
TypeOK ==
  /\ interrupted \in BOOLEAN
  /\ ctxDone \in BOOLEAN
  /\ lpc \in {"budget", "parked", "window", "order", "spawn", "done"}
  /\ next \in Shards
  /\ sem \in 0..Window
  /\ order \in Seq(Shards)
  /\ fetch \in [Shards -> {"none", "fetching", "fetched", "ready", "failed", "taken", "consumed"}]
  /\ buffered \in Int
  /\ wg \in Int
  /\ cpc \in {"order", "future", "records", "release", "slot", "stop", "wake", "join", "returned"}
  /\ turn \in 1..NumShards + 1
  /\ cur \in 0..NumShards
  /\ rec \in Nat
  /\ delivered \in Seq(Shards \X Nat)
  /\ walkErr \in {"none", "shard", "record"}

\* The shards whose bytes or fetch the walk holds.
InFlightOrBuffered == {i \in Shards : fetch[i] \notin {"none", "consumed"}}

\* stream.go: "at most FetchConcurrency shards are ever in flight OR
\* fetched-and-buffered at once -- the hard cap".
WindowIsHardCap == Cardinality(InFlightOrBuffered) <= FetchConcurrency

\* bufferedBytes is the weight of exactly the shards that are fetched and not
\* yet consumed, so the budget throttles on what is really held.
BudgetCountsWhatIsHeld ==
  buffered = MapThenSumSet(LAMBDA i : Size[i],
                           {i \in Shards : fetch[i] \in {"fetched", "ready", "taken"}})

\* stream.go: a Wait that returns before every shard fetch has completed would be
\* "the real bug".  When the walk returns, no goroutine of it is left that could
\* still use the run's key.
NoGoroutineLeft ==
  cpc = "returned" => lpc = "done" /\ \A i \in Shards : fetch[i] \notin {"fetching", "fetched"}

\* Where the sequential loop is while the consumer is at cpc.  A shard that is
\* handed over is behind it; an interrupt is an openOneShard that fails.
SeqAt ==
  CASE cpc \in {"order", "release", "slot"} -> "check"
    [] cpc = "future" -> "open"
    [] cpc \in {"stop", "wake", "join"} -> "return"
    [] OTHER -> cpc

SeqShard == IF cpc \in {"release", "slot"} THEN turn + 1 ELSE turn

Sequential == INSTANCE SeqWalk WITH at <- SeqAt, shard <- SeqShard, interrupted <- FALSE

\* stream.go: the consumer sees the records "in the exact canonical order the
\* sequential walk produces", and the first error in that order ends the walk,
\* whatever order the fetches end in.
ImplementsSequentialWalk == Sequential!Spec

\* Without an interrupt the walk returns: no goroutine waits for ever on the
\* budget, the window, a future or the join.
WalkReturns == []~interrupted => <>(cpc = "returned")

\* stream.go: "an operator interrupt tears the pipeline down exactly as an
\* internal error does".  main.go: "the run stops promptly with a real error".
InterruptEndsWalk == interrupted ~> cpc = "returned"
=============================================================================
