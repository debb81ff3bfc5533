# A TLA+ model of downpipe

downpipe is the offline side of a backup service: it opens an encrypted archive
that a backup engine wrote to an object store, verifies it, restores it, drills
it, and prunes it. This directory holds TLA+ specifications of the parts in which
the order of steps, failures and concurrency decide whether a customer's backup
survives, the TLC runs that check them on small instances and TLAPS proofs of the
properties that matter most for instances of any size. Every definition is
translated from the Go source; `PROJECT.json` maps each one to its lines.

## 1. Inventory

| Part | State it keeps | Operations | What is hard | What makes it correct |
|---|---|---|---|---|
| **Prune** `internal/prune`, `cmd/downpipe/prune.go` | the destination's objects, the RUNLOG, a plan, delete counters, a receipt file | `Partition`, `enumerate`, `Compute`, `Apply`, `applyWithReceipt` | the engine writes while a pass runs; deletes are refused, fail or are lost; the process dies halfway; the plan is stale when it is used | a retained run loses nothing; what is left can be found again; the status and the receipt are honest |
| **Shard walk** `internal/format/stream.go` | window semaphore, ordered channel of futures, byte budget under a mutex and a condition variable, a context, a WaitGroup | `walkShards`, `walkShardsConcurrent` | a launcher, a goroutine per shard and a consumer; fetches end in any order; errors and interrupts tear it down | same records, order and error as the sequential loop; bounded memory; no goroutine outlives it; it returns |
| **Restore engine** `internal/restore` | the output directory, existing and claimed keys, the `Result` | `ApplyStreaming`, `classifyRecord`, `writeOneRecord`, `applyStream`, the file, env and discard targets, metadata sidecars | files appear after planning; writes fail halfway; a killed pass leaves debris; a sidecar's path may be a record's; a reader and a writer on a pipe | nothing is overwritten; a restored record is on disk; a failed write leaves nothing |
| **restore / verify commands** `cmd/downpipe/restore.go`, `verify.go` | exit status, receipt | `cmdRestore`, `cmdVerify`, `perRecordExit`, `foldPerRecordExit` | run-level code, per-record codes and three advisories are folded into one number, and again into the receipt | 0 means restored; a finding is not softened; receipt and status agree |
| **Opening a run** `internal/format/reader.go`, `stream.go`, `verify.go`, `attest.go` | the run master, the outcome, the accumulator | `Open`, `StreamOpenContext`, `EachRecord`, `Attest` | gates and override flags in many combinations; shards read twice; one get fails after another failed a check | no gate is skipped without its flag; what is handed over was verified; the status is honest |
| **Freshness and RUNLOG** `internal/format/freshness.go` | the log, its signature, the freshness result | `CheckFreshness`, `detectChainAnomaly`, `acknowledges` | the engine rewrites log and signature in two puts while they are read in two gets; entries land out of index order | a stale run is never called fresh; an honest log is never called rewritten |
| **Merkle tree** `internal/format/merkle.go` | subtree roots and heights | `Push`, `Root`, `MerkleRoot` | powers of two and their neighbours | the incremental root is the root |
| **Record reassembly and chunk stream** `format/restore.go`, `crypto/stream.go`, `crypto/segment.go` | chunk counter, one chunk of look-ahead, the running hash | `RestoreRecord(To)`, `SealStream`, `OpenStreamTo` | last chunk, empty value, chunk bound; the hash is known after the last byte | truncation, extension and reordering are detected; streamed and buffered reads agree |
| **Object stores** `internal/source` | idle timer, request context | `Get`, `GetReader`, `Delete`, `List` | a timer racing a slow reader; what counts as unreachable | a stalled stream dies |
| **Custody** `internal/custody` | shares, checksums | `Recombine` | mixed share sets | a wrong set is refused |
| **Provisioning** `internal/provision`, `cmd/downpipe/setup.go`, `preflight.go` | the account's zones, applications and bindings | `Preflight`, `Plan`, `Client.Apply` | listings shift between pages; a call is carried out and its answer lost; one call of several fails, then a retry | clearance only for what was observed; nothing exists before its gate; 0 means all was done |
| Primitives, canonical encodings, D1 transcoder, key and setup commands | none shared | pure functions and single-shot commands | | covered by vectors in the repository |

How they interact: `cmdRestore` and `cmdVerify` open a run (which walks all the
shards once to verify them), then `ApplyStreaming` walks them a second time and
reads, verifies and writes each record as it arrives. The two walks are the shard
walk; a large record goes through a pipe between a reading and a writing goroutine.
Prune opens every run to learn which segments it names. The backup engine is
another program that shares nothing with downpipe but the destination.

## 2. Modules

### Prune, MCPrune, PruneProofs

The archive is the set `store` of object keys: segments, and for every run a tree
of manifest objects. `refs`, `index`, `superseded` and `downpipe` are what the
shard manifests and the RUNLOG say. A pass goes through `pc`: `Start` (flags,
signed RUNLOG, `Partition`), `Enumerate` (open every run, `Compute` or abstain),
`WriteIntent`/`SkipIntent`, `BeginApply`, `Del` once per key, `ListTree` once per
superseded run, `Finish`, `Exit`. A delete succeeds, is refused, or fails, and a
failed one may have happened. `Crash` ends a pass anywhere. `SealRun` and
`Supersede` are the engine, at any moment, in any index order. Segments of a run
are deleted before its tree and a tree whose segments did not all go is held, as
in `Apply`. The constant `SharingDuringPass` says whether a run sealed during a
pass may reuse older segments (the format allows it, the current engine does not).

### SeqWalk, ShardWalk, MCShardWalk, ShardWalkProofs

`SeqWalk` is the sequential `walkShards` and serves as the abstract specification.
`ShardWalk` is `walkShardsConcurrent`: the launcher's steps (budget wait as a
parked state that only a broadcast ends, slot, push of the future, spawn), each
fetch goroutine's two steps, and the consumer's (take future, take result, deliver,
refund and broadcast, free the slot, then on the way out cancel, wake, join). The
walk's context is done when the caller's is or when the consumer cancels it.
`ImplementsSequentialWalk` is `SeqWalk!Spec` under the mapping `SeqAt`, `SeqShard`.

### Restore, MCRestore, RestoreProofs

One command at a time on one output directory: `restore --apply`, `restore`,
`restore --sink discard` or `verify --deep`. `Start` reads `Existing()`; `Refuse`
and `Plan` are the planner on the next record; `Read` is the buffered path's read
and verification; `Create`, `Fill` and their failures are the file sink's two-step
write, shared by the buffered path (exclusive create, then bytes) and the streamed
one (exclusive placeholder, then rename of the finished temporary file); `Sidecar*`
is `applyMetadata`; `Discard` is the discard sink; `Finish` computes status and
receipt; `Abort` is every early return. `Kill` may strike between any two steps,
`OtherProgram` may create a file at any moment. `held` is what the archive holds
for each record as a read finds out; it is fixed for a behaviour. Paths are model
data: `NameKey`, `SqlKey`, `Sidecar` and `Parents` are parameters, so the proofs
cover every layout, case-folding file systems apart (two keys for one file).

Simplifications: a D1 record's descriptor and its body agree on the format; a
removal during clean-up succeeds (the code ignores its error); the temporary file
`.downpipe-restore-*` is not at any record's path and is not represented; a store
object does not change between passes; a receipt is always asked for.

### Merkle, MerkleProofs, Runlog, OpenRun, MCOpenRun, OpenRunProofs

`Merkle` and `Runlog` are operators: the accumulator next to `MerkleRoot`, with a hash
as the term it is computed from, and `CheckFreshness` with the four checks of
`detectChainAnomaly`, the lookup of the run's own entry, the pin and `Acknowledges`
(what the override flags cover). `OpenRun` is the state machine. The engine (external)
hands out an index when a run begins (`Trigger`), appends the entry when it ends
(`Finalise`) and signs the log in a second put (`SignLog`); `Tamper` and `Garble` are
the logs the checks are there for. The reader runs `verify`, `inspect`, `attest` or
`attest` without a pinned signer through the gates in the code's order: `ReadRoot`,
`SignatureGate` or `ClassifySignature`, `RootGates` (fields, capsule, commitment,
recipient set), the verifying walk (`CheckShardCount`, `WalkShard`, `WalkRecord`,
`Tally`, or `OpenShards` and `CheckCompleteness` for `Open`, or `VerifyShardHashes`),
`ReadRunlog` and `ReadLogSig` as two gets, `Bundle`, the second walk (`Reread*`) and
`Report`. Every get may answer anything, and differently the second time. The variables
`failed`, `truth` and `how` are history: they record what happened, the reader does not
look at them. `failed` is the set of what failed a check over bytes that had been
retrieved: the root's signature, the content (root fields, shards, records), the log with
its signature and chain, the bundle. It is written whether or not a flag lets the reader
go on; a get that failed adds nothing to it.

Simplifications: at most one of the three override words on a command line; a root has
at most one wrong count; whether the key policies behind a pinned signer and an identity
accept, and whether the bundle is in order, altered or not to be had, are choices.

### Stream, AtomicRecord, RecordStream, MCRecordStream, RecordStreamProofs

`Stream` is the chunk format: `SealStream`, the streaming writer (`WritePiece`,
`CloseWriter`) and which chunk opens under which counter and last flag, with the AEAD
as an ideal box. `RecordStream` is one large record on its way: the value is sealed
through the writer (`Seal*`), the reader goroutine takes segment by segment
(`GetReader`, `OpenSegmentStream`, `ReadFirstChunk`, `ReadNextChunk`, `OpenChunk`,
`WriteDone`/`WriteBroken`, `EndSegment`, `CheckHash`), the target reserves its path,
copies from the pipe and renames (`Reserve`, `CreateTemp`, `Copy`, `CopyEnd`,
`Rename`), and `applyStream` closes the read end, waits and weighs the two errors
(`WriteReturned`, `Finish`). `Stall`, `ConnectionLost`, `Interrupt`, `TooLarge`,
`TargetFails` are the faults; `TimerFires` is the idle watchdog. What a store serves is
any payload of genuine chunks of any segment in any order, foreign bytes and stubs.
The history `fault` tells apart a transfer broken from outside (`transport`), a timer
that ran out while no read was outstanding, the reader waiting for the target to empty
the pipe (`waited`), and a target that failed (`target`). `Buffered` is `restoreRecord`
on the same objects, its ceiling on the reassembled record (`OverCeiling`) included,
which `RestoreRecordTo` does not have.
`AtomicRecord` is what the caller may rely on, and `RestoresAtomically` is its
specification under the mapping that hides the reserved path and the temporary file.

Simplifications: a record has at most one defect besides what the store serves; packed
and inline values are read on the buffered path of `Restore`.

### Preflight, Setup, MCSetup, SetupProofs

`Preflight` holds how an API answer is classed (`Client.get`), the status of each
question and the verdict. `Setup` runs commands one after another on one account:
`preflight` question by question, zones page by page (`Ask*`, `Judge`), and
`setup --apply` call by call in the order of `sortActions` (`Call`, `SkipManual`,
`RefuseUnready`, `Applied`). The account's zones are whatever they are at each call,
the token may be revoked, an answer may be lost after the call was carried out
(`Told`), and the process may be killed between two calls. Names are numbers in the
order the code compares them in; the text of a field is one of a few classes.

## 3. Runs

| Run | Instance | Shows |
|---|---|---|
| `prune` | 3 runs, 2 segments, 2 downpipes, 2 objects per tree, `--keep` 1 or 2 | `NewestRunRestorable`, `NothingStranded`, `LiveSegmentsSurvive`, `ExitZeroMeansPlanDone`, `ReceiptAccounts`, `IntentBeforeDelete` hold for any number of passes, engine writes, faults and crashes |
| `prune_reclaim` | 2 runs, 2 segments, `--keep` 1 | `SegmentsReclaimed`: what the policy no longer retains is deleted in the end |
| `prune_retry` | 2 runs, 1 segment, 2 objects per tree | **violated** `FailedDeletesRetried` |
| `prune_dedup_race` | as `prune`, `SharingDuringPass` | **violated** `LiveSegmentsSurvive` |
| `shard_walk` | 5 shards (one empty), window 3, a budget one shard reaches | `ImplementsSequentialWalk`, `WindowIsHardCap`, `BudgetCountsWhatIsHeld`, `NoGoroutineLeft`, `WalkReturns` |
| `shard_walk_interrupt` | the same | **violated** `InterruptEndsWalk` |
| `restore` | 5 records, 6 paths, 2 passes of any command, 1 foreign file | `NoClobber`, `RestoredIsOnDisk`, `ExitZeroMeansRestored`, `AllOrNothing`, `MetadataAccounted`, `FindingNotSoftened`, `ReceiptMatchesExit`, `PassEnds` |
| `open` | 2 downpipes, 3 runs, pin 0 or 2, runs of 0, 2 and 7 records in up to 2 shards, 8 recipient lists | `CompleteMeansLatest`, `HonestLogAccepted`, `AgeWordNeverCoversTheLog`, `HintNamesTheRightFlag`, `HandedOverWasVerified`, `AccumulatorAgrees`, `BreakGlassCanOpen`, `RetryCodeHidesNothing`, `AttestAgrees` |
| `record_stream` | chunks of 2 bytes, 2 chunk indices, 8 records of up to 2 segments, an HTTP store with the file target and a directory with the discard target | `WriterAgrees`, `OnlyWhatWasSealed`, `BufferedAgrees`, `BlameIsRight`, `RestoresAtomically` (refinement), `StreamReturns` |
| `setup` | 3 zones in 1-zone pages, a bound of 2 pages, 3 configurations, 2 commands | `ClearedMeansObserved`, `GatedFirst`, `AppliedMeansProvisioned` |
| `restore_unreachable` | 2 records, one altered and one unreachable | **violated** `IntegrityFindingWins` |
| `restore_drill` | 6 records, two of one name | **violated** `DrillReadsEveryRecord` |

Bounds. *Prune*: three runs are the fewest in which a downpipe has a retained run,
a dropped run and a run sealed meanwhile; two segments the fewest in which one is
shared and one is not; two objects per tree the fewest in which a tree is half
deleted. Passes are not bounded: the state returns to `idle`. *Shard walk*: five
shards and a window of three let a slot be reused while the window is full, let
the budget park the launcher with shards in flight, and put an empty shard and an
over-budget one among them. *Restore*: the five records are the cases that
interact: a record at another one's sidecar path, a streamed record with metadata,
a D1 dump (renderable or not), and a Worker whose path is its sibling's directory;
two passes so that a retry meets what the first left. *Open*: three runs of two
downpipes are the fewest in which entries land out of index order and a chain has a
middle to be left out; seven records take the accumulator over 1, 2 and 4. The engine
moves only where the reader is about to read what it writes: elsewhere its steps
commute with the reader's. `VIEW` drops the engine's state once the log has been
judged, and the log once the bundle has been checked: nothing reads them any more.
Downpipes are symmetric. *Record stream*: the records are no segment, an empty one,
exactly one chunk, a chunk and a part, two full chunks (over the store's ceiling), one
byte more than can be sealed, two segments, and two segments that together pass the
reassembly ceiling; payloads have up to two full slots and
a tail, so that a genuine one can be cut, extended, repeated and spliced. *Setup*: three
zones and two pages cut a listing off and let it shift; the configurations have
secrets and bindings that share a name, none at all, and a refused sender; the second
command meets what the first left. Deadlock is not checked where the command ends: the
walk, the restore, the opening, the stream and the setup.

Each property has a mutant in `PROJECT.json`, a plausible bug in the code (the
orphan set without its subtraction, a tree deleted although held back, a refund
that is not signalled, a sidecar opened without `O_EXCL`, a clean-up of a file that
is not ours, ...) under which TLC finds it violated.

### Fairness

*Shard walk*: weak fairness of the launcher, each fetch and the consumer: a
runnable goroutine is scheduled, and a store read ends (the clients have timeouts).
*Restore*: weak fairness of the running pass; nothing is assumed of kills, of other
programs or of a next pass. *Record stream*: weak fairness of the writer, of the
reader's and of the target's own steps and of the watchdog's timer; nothing obliges the
store to send a byte, so `StreamReturns` rests on the watchdog. *Reclaim*: passes keep being run, and no fault lasts for
ever: strong fairness of a successful read, delete and listing, and of the steps
between them, since a process that keeps dying at one point would never pass it.
This is what "run prune again" in RECOVER.md presupposes. The violated liveness
properties (`FailedDeletesRetried`, `InterruptEndsWalk`) fail under the same
fairness.

## 4. Findings

1. **A failed delete in a run tree is not retried** (`internal/prune/plan.go:116`).
   After one object of the tree is gone the run no longer opens and every later pass
   skips it, exiting 0. receipt.go, the command's message and RECOVER.md promise a
   retry.
2. **A run sealed after the plan was computed can lose a shared segment**
   (`internal/prune/apply.go:169`), if the writer deduplicates across runs as SPEC.md
   allows. Without sharing the theorems below exclude it.
3. **An interrupt can hang the walk** (`internal/format/stream.go:374`): the launcher
   quits on the cancelled context without closing `order`, and the consumer waits for
   a future that nobody will push.
4. **An unreachable segment hides a tamper finding** (`internal/restore/restore.go:737`):
   11 is the larger number, so a pass with a hash mismatch and a fetch failure exits 11.
5. **The drill skips a record that shares its name** with one of another source type
   (`internal/restore/target_discard.go:58`); `verify --deep` then exits 0 and calls
   the run complete.

### Observations

Met while modelling, without a run of their own. The first three contradict a comment or
a doc; the model has the behaviour, and a property names it as the one exception, so that
what it says of every other case is checked and proved.

- `attest` exits 11 over a root signature that was retrieved and did not verify: the
  failure is held while the other legs run, and the error of a shard or RUNLOG get that is
  unreachable takes its place (`internal/format/attest.go:203`). RECOVER.md:418 says of 11
  that "nothing is yet known about the archive". The printed result still says that the run
  is not attested. `RetryCodeHidesNothing` allows this one failure to `attest`.
- The streamed path lacks a gate of the buffered one: a record of several segments above
  the reassembly ceiling (`internal/format/restore.go:82`) is refused by `RestoreRecord`
  and restored by `RestoreRecordTo`, which "applies the same gates" (line 153).
  `BufferedAgrees` says that this is the only difference.
- A slow target is reported as a stalled store: the idle timer runs on between two reads,
  so a target that leaves the pipe full for the idle bound ends the transfer as unverified,
  "aborting the stalled stream" (`internal/source/stream.go:145`), although the watchdog
  is said to abort a body "that stalls" (line 87). `BlameIsRight` has it as a cause of its
  own (`fault.waited`), which explains no other code.
- A failure the operator acknowledged (`--allow-unverified`, `--allow-stale`,
  `--allow-unverified-runlog`) followed by an unreachable shard exits 11.
  `RetryCodeHidesNothing` says what may have failed before that code, flag by flag.
- A hash mismatch found by the second walk carries no code and exits 1; an interrupt
  during the opening walk exits 2; `checkRecoveryBundle` exits 2 when the bundle is merely
  unreachable; a transport that stalls in the middle of a body is coded unverified.
- `listZones` can report a domain as not covered when a zone is deleted between two
  pages, or when the API leaves the total out (`provision/preflight.go:207`). It errs on
  the safe side.
- `setup --apply` run again after a lost answer makes a second Access application;
  `secretEnvVar` maps two names to one variable; `setup` and `preflight` do not look at
  the interrupt that `main` catches for them.

## 5. Proofs

Every safety property a passing run checks, invariant, action property or refinement, is
also a theorem: the run shows it on a small instance, the theorem for every value of
the constants. The theorems hold under the modules' ASSUMEs (`PruneAssumption`,
`ShardWalkAssumption`, `RestoreAssumption`, `StreamAssumption`,
`RecordStreamAssumption`, the named ones of `OpenRun` and `Setup`), which TLC evaluates
on every run. One of them is about the code's own limits: `RecordStream` assumes
`MaxSegmentChunks <= MaxChunkIndex + 1`, a declared chunk can be numbered
(`maxSegmentChunks` is 16384, `streamMaxChunkIndex` the largest 64-bit number).

**DataLemmas.** Recursive functions and folds in the models are functions TLA+ chooses by
their defining equation, and proofs about them need induction. The library states
induction over an operator, which the provers cannot instantiate; `InductionOnNat`
states it over a set, from the well-foundedness of the numbers, and that they can use.
With it a proof shows that the defining equation has a solution, that solutions agree,
and then computes with it: `FlattenSeq` here, the sums, the Merkle levels and the
bagged subtrees where they are used.

**PruneProofs.** `TypeCorrect`; `NewestRunAlwaysRestorable` and
`LiveSegmentsAlwaysSurvive` from `SafeInv`; `NothingEverStranded` from `StrandInv`.
The last three assume `~SharingDuringPass`; `prune_dedup_race` shows the assumption
is needed. `NewestRunRestorable` is not inductive: one must know that a dropped run
is never the newest (`DroppedNotNewest`), that a run sealed since the RUNLOG was read
shares nothing with a dropped one (`LateRunsFresh`), that the plan spares every run
outside the drop list (`PlanSpares`), and that the delete loops hold only planned keys
(`LoopPlanned`). `NothingStranded` needs besides that retained runs stay readable
(`KeptReadable`), that each segment of a planned run is one of its orphans or some
retained run's (`OrphansByRun`), that what counts as deleted is gone (`DeletedGone`)
and so that a tree in the loop is bare (`LoopTreesBare`): the reason for the order
of the deletes. `IntentAlwaysFirst` needs only that a pass past its receipt has the
intent on disk. `ExitZeroAlwaysDone` and `ReceiptAlwaysAccounts` follow from `DoneInv`,
`StrandInv` with an account of the plan: a planned object that is still there is counted
as refused, failed or held back, or its turn has yet to come (`Accounted`), and what the
receipt names was planned (`ReceiptPlanned`).
They assume `~SharingDuringPass` too: a run that shared an old segment would put a
deleted key back.

**ShardWalkProofs.** `TypeCorrect`; `PrefetchIsSequential`, the refinement of
`SeqWalk`, from `Fifo` (the channel holds the futures of consecutive shards from the
one wanted next); `WalkLeavesNoGoroutine` and `WindowAlwaysHardCap` from `WalkInv`
(the WaitGroup counts exactly the launcher and the unfinished fetches; every shard
held has a slot, and so have the one being launched and the one being released).
`BudgetAlwaysCounts` adds the weight: the fold that sums the sizes of a set takes its
elements in an order nobody knows, so `WeightAdds` first shows that the order does not
matter; then a fetch adds a shard that was not held and a release takes away one that
was (`TakenHeld`).

**RestoreProofs.** `TypeCorrect`, `NeverClobbers`, `RestoredAlwaysOnDisk`,
`WritesAllOrNothing`, `ZeroMeansRestored` and `MetadataAlwaysAccounted`, all from one
invariant `Inv`: where the pass stands says what is known of the record in hand
(`InHand`), the file being written is the writer's own partial file (`OwnFile`), a
fate was earned (`Earned`), nothing behind the walk is unsettled (`Walked`), and
metadata is on disk, listed or in the making (`MetaKept`). The key lemma is
`DiskStep`: a step changes a path only if it was empty or is the file the write
itself created. Status 0 (`ZeroEarned`) follows from the fold of the codes: it is 0
only when nothing failed and nothing was refused. `FindingNeverSoftened` and
`ReceiptAlwaysMatches` need in addition that `IntegrityExit` remembers a failed check
whatever fails after it, and that only the step that ends a pass writes its receipt
(`Remembered`).

**OpenRunProofs.** Nine theorems, for any number of downpipes and runs, any pin, any
layout and any recipient lists. `HonestLogIsAccepted` is not inductive: `HonestLog` adds
that entries say what the engine knows and occur once (`EntriesTrue`), that a run's
predecessor is the run of its downpipe next before it and is in the log (`ChainTrue`),
and that a downpipe has at most one run in flight, its newest (`FlightTrue`).
`CompleteIsLatest`, `AgeWordIsNarrow` and `HintIsRight` need besides what tampering
leaves behind (`TamperShows`: a missing entry is missed by its successor), that the
signature is never ahead of the log (`SigBehind`) and what the reader holds between its
two gets (`LogInHand`); `CheckIsSound` turns these into the meaning of a verdict.
`BreakGlassAlwaysOpens` is a counting argument over finite sets (`BreakGlassHasWrap`).
`RetryCodeIsHonest` and `AttestAlwaysAgrees` follow from `ReaderInv`, which has one lemma
per action: while the reader goes on, what has failed is `Tolerated` (and nothing of the
log before the log is read), so whichever get turns out unreachable, the code it ends
with stands in for no refusal. `OnlyVerifiedHandedOver` follows from `WalkInv`: a walk has taken the records
of the shards before the one it is at, in order, but for those in its buffer; the second
walk can start only after the first has taken all of them. `AccumulatorIsExact` follows
from `AccInv`: from the first record on, the accumulator holds the perfect subtrees over
the records verified so far.

**MerkleProofs.** What `AccInv` rests on, about sequences of any length.
`PerfectSubtrees` says that the accumulator's subtrees are, for every height that has
an odd number of perfect subtrees, the last one of that height, and none else. `PushPerfect`:
a new leaf is a carry in a binary counter (`FullCarries`), the subtrees it merges with
are those of the heights the carry passes (`MergesCarry`), and a later leaf changes no
perfect subtree (`PerfectStays`). `RootOfAccumulator`: bagging the subtrees below height
k gives the node carried at the right edge of level k, for every k, and the last level
has nothing else. So the streaming and the load-all reader agree on every run; the `open`
run shows it up to seven records.

**RecordStreamProofs.** For chunks, segments and records of any size, any payload the
store may serve, and any interleaving of the reader, the target and the watchdog.
`FinishedSegmentsIntact` from `ReaderInv`: in the middle of a segment the reader has
opened exactly its leading non-last chunks in their order, hashed exactly the text
before them, and would have been accepted so far by the buffered path; the AEAD's
counter and last flag leave a segment only one way to end. `StreamedAsBuffered` from
`VerdictInv`, what the reader returned and that it has a cause (`HasCause`); it compares
the two paths on every record within the reassembly ceiling, and on a larger one with the
buffered path less that ceiling. `StreamRestoresAtomically`, the refinement of
`AtomicRecord`, from `FlowInv`: the temporary file and what is in the pipe are together
the text hashed so far, the path is reserved just while the file is written, and the
rename happens only after the reader closed the pipe without an error.
`BlameNeverMisplaced` needs besides that no more objects are fetched than the record has
segments (`ServedInv`); a timer that ran out over a slow target is a cause of its own,
and it can explain no code but unverified (section 4, observations). `WriterSealsAlike` from `WriterInv`: the chunks out, the buffer and what
is left continue each other, and the writer keeps a full buffer back until it knows that
more follows.

**SetupProofs.** `GateComesFirst` and `ZeroMeansProvisioned` from `ApplyInv`: while a plan
is applied, what was carried out is exactly what has left it, and once the policy has
left it, it sits on the application of this run (`PlanFront`); `GateHasFirstTurn` is what
`sortActions` contributes. `ClearanceIsObserved` from `PreflightInv`: what is listed was on
the account at some call, and every question behind the reader was answered or has left a
check that blocks.

The type invariant of the shard walk is proved and no longer part of a run.

Only model-checked: the liveness properties `SegmentsReclaimed`, `WalkReturns`,
`PassEnds` and `StreamReturns`. They rest on fairness, and the prover has no rule for
fairness or ENABLED.

## 6. Not modelled, and the plan

Not modelled: cryptographic primitives (assumed ideal), canonical JSON and numbers
and the D1 transcoder (character-level, covered by vectors), share recombination
(arithmetic over GF(256) between guards in sequence), request signing and the HTTP
clients' formatting, printed reports, the key commands and `init` (one read, one write),
packed slices, the env sink and the load-all `Apply`. `PROJECT.json` gives the reason
for each.

Planned, in this order:

1. **Proofs**: that a run which passes `Tally` was read record for record as its signed
   root states, from `WalkInv` and `AccInv`; the steps behind the liveness properties
   that are safety (what a broadcast wakes, what the watchdog's timer is armed for).
2. **Two prune processes** on one destination, with different `--keep`: a second copy of
   the pass over the shared archive.
3. **Packed records** in `RecordStream`.
