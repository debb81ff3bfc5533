------------------------------ MODULE OpenRun ------------------------------
(***************************************************************************)
(* Opening a run: the gates a reader passes before it trusts anything,     *)
(* and what verify, inspect and attest answer (internal/format/reader.go,  *)
(* stream.go, verify.go, attest.go, pruned.go, cmd/downpipe/verify.go).    *)
(*                                                                         *)
(* Three parties move: the engine, which is not in this repository, runs   *)
(* downpipes and rewrites RUNLOG and RUNLOG.sig in two puts; the           *)
(* destination answers every get as it likes, the same key twice with      *)
(* different answers included; and one reader takes its gates in the       *)
(* order of the code.  A record is a number; the bytes of an altered shard *)
(* would decode to other numbers.                                          *)
(***************************************************************************)
EXTENDS Merkle, Runlog, FiniteSets

CONSTANTS
    Downpipes,      \* the downpipes the engine runs
    Pins,           \* values of --min-runlog-index, 0 for none
    MaxRuns,        \* bound: how many runs the engine starts
    Layouts,        \* records per shard, for every shard of a run
    Manifests       \* recipient lists and capsules a root may carry

ASSUME MaxRunsAssumption == MaxRuns \in Nat
ASSUME PinsAssumption == Pins \subseteq Nat
ASSUME LayoutsAssumption == Layouts \subseteq Seq(Nat)
ASSUME ManifestsAssumption ==
    \A m \in Manifests :
        m.recipients \in Seq([role : STRING, fp : STRING, genuine : BOOLEAN])

VARIABLES
    eng,        \* the engine: next index, run in flight and last run per downpipe
    log,        \* the object _RECOVERY/RUNLOG
    logSig,     \* the object _RECOVERY/RUNLOG.sig
    rewritten,  \* how the log was tampered with: "no" when it was not
    pc,         \* where the reader stands
    opts,       \* the command and its flags
    root,       \* the run asked for, as its root manifest places it in the log
    body,       \* the rest of the root manifest, once parsed
    out,        \* Outcome, and AttestResult.Code for attest
    shard,      \* index of the shard the walk is at
    buf,        \* records opened and not yet checked
    acc,        \* the Merkle accumulator of the verifying walk
    seen,       \* records the verifying walk accepted, in order
    handed,     \* records the second walk gave to its consumer
    logRead,    \* the log as it was read, and what the engine had signed then
    fresh,      \* FreshnessResult
    exit        \* exit code, "none" while the command runs

engine == <<eng, log, logSig, rewritten>>
reader == <<pc, opts, root, body, out, shard, buf, acc, seen, handed, logRead, fresh, exit>>
vars == <<engine, reader>>

ExitUncoded == 1
ExitUnverified == 2
ExitIncomplete == 3
ExitStale == 5
ExitUsage == 6
ExitUnreachable == 11

\* codedGet: a get that never reached its object is the retry code, any other
\* failure keeps the code of the place that asked.
CodedGet(code, got) == IF got = "unreachable" THEN ExitUnreachable ELSE code

GetFails == {"absent", "unreachable"}

\* The history kept in out.failed: a check that failed over bytes that were here.  A
\* get that failed says nothing about the bytes.
Failing(what, got) == IF got \in GetFails THEN {} ELSE {what}

-----------------------------------------------------------------------------
(***************************************************************************)
(* The engine, as the freshness check relies on it: indices are handed out *)
(* when a run starts and its entry lands when it ends, one run at a time   *)
(* per downpipe; the log and its signature are two puts.                   *)
(***************************************************************************)
Unread == [log |-> [parses |-> FALSE, entries |-> <<>>], truth |-> <<>>, how |-> "no"]

\* The engine's writes matter to the reader only while it is about to read the
\* log or its signature; elsewhere they commute with its steps.  Before Start they
\* only have to have begun the run that is asked for.
LogMayMove == pc \in {"idle", "runlog", "logsig"}

Trigger(d) ==
    /\ pc \in {"idle", "runlog"} /\ rewritten = "no" /\ eng.next <= MaxRuns /\ eng.inFlight[d] = NoRun
    /\ eng' = [eng EXCEPT !.next = @ + 1, !.inFlight[d] = eng.next,
                          !.runs = Append(@, [dp |-> d, prev |-> eng.last[d]])]
    /\ UNCHANGED <<log, logSig, rewritten, reader>>

EntryFor(r) == [run |-> r, dp |-> eng.runs[r].dp, idx |-> r, prev |-> eng.runs[r].prev]

Finalise(d) ==
    /\ LogMayMove /\ rewritten = "no" /\ eng.inFlight[d] # NoRun /\ logSig.over = log
    /\ log' = [log EXCEPT !.entries = Append(@, EntryFor(eng.inFlight[d]))]
    /\ eng' = [eng EXCEPT !.last[d] = eng.inFlight[d], !.inFlight[d] = NoRun]
    /\ UNCHANGED <<logSig, rewritten, reader>>

SignLog ==
    /\ LogMayMove /\ rewritten = "no" /\ logSig.over # log
    /\ logSig' = [decodes |-> TRUE, over |-> log]
    /\ UNCHANGED <<eng, log, rewritten, reader>>

\* The log as somebody left it in the bucket, signed: cut back to an earlier
\* one or short of the last run of a downpipe, an entry with a successor out, two entries made to share an index
\* or a predecessor.
Without(s, i) == [k \in 1 .. Len(s) - 1 |-> IF k < i THEN s[k] ELSE s[k + 1]]

Tampered(how, s) ==
    CASE how = "cut"  -> {SubSeq(s, 1, k) : k \in 0 .. Len(s) - 1}
           \cup {Without(s, i) : i \in {k \in DOMAIN s :
                              \A j \in DOMAIN s : s[j].prev # s[k].run}}
      [] how = "drop" -> {Without(s, i) : i \in {k \in DOMAIN s :
                              \E j \in DOMAIN s : s[j].prev = s[k].run}}
      [] how = "dup"  -> {[s EXCEPT ![i].idx = s[j].idx] :
                              i, j \in {k \in DOMAIN s : Len(s) > 1}}
      [] how = "fork" -> {[s EXCEPT ![i].prev = s[j].prev] : i, j \in {k \in DOMAIN s :
                              s[k].prev # NoRun}}

Tamper(how) ==
    /\ pc = "runlog" /\ rewritten = "no" /\ logSig.over = log
    /\ \E s \in Tampered(how, log.entries) :
          /\ s # log.entries
          /\ log' = [log EXCEPT !.entries = s]
          /\ logSig' = [decodes |-> TRUE, over |-> log']
    /\ rewritten' = how
    /\ UNCHANGED <<eng, reader>>

\* The bytes of the log or of its signature are damaged.
Garble ==
    /\ pc = "runlog" /\ rewritten = "no"
    /\ \/ logSig' = [logSig EXCEPT !.decodes = FALSE] /\ log' = log
       \/ log' = [log EXCEPT !.parses = FALSE] /\ logSig' = [logSig EXCEPT !.over = log']
    /\ rewritten' = "garbled"
    /\ UNCHANGED <<eng, reader>>

Engine ==
    \/ \E d \in Downpipes : Trigger(d) \/ Finalise(d)
    \/ SignLog \/ Garble
    \/ \E how \in {"cut", "drop", "dup", "fork"} : Tamper(how)

-----------------------------------------------------------------------------
(***************************************************************************)
(* The reader's first gates.                                               *)
(***************************************************************************)
Finish(code) == pc' = "done" /\ exit' = code

NoManifest == [recipients |-> <<>>, wraps |-> <<>>, breakGlassPresent |-> FALSE,
               setHash |-> FALSE]
NoBody == [parsed |-> FALSE, shards |-> <<>>, shardCount |-> 0, declared |-> 0,
           merkle |-> EmptyRoot, man |-> NoManifest]
NoRoot == [run |-> NoRun, dp |-> "none", idx |-> 0, prev |-> NoRun]
NoOut == [signature |-> "valid", completeness |-> "complete", code |-> 0,
          failed |-> {}, bundle |-> FALSE]

\* The command line: what is asked for, of which run.  inspect opens with both
\* freshness flags set; attest takes none and may have no pinned signer.
Commands == {"verify", "inspect", "attest", "keyless"}

Start ==
    /\ pc = "idle"
    /\ \E c \in Commands, u \in BOOLEAN, r \in 1 .. eng.next - 1 :
          /\ u => c = "verify"
          /\ opts' = [cmd |-> c, unverified |-> u, stale |-> c = "inspect",
                      runlog |-> c = "inspect", pin |-> 0]
          /\ root' = EntryFor(r) /\ body' = NoBody
    /\ pc' = "root" /\ exit' = "none" /\ out' = NoOut
    /\ shard' = 1 /\ buf' = <<>> /\ acc' = EmptyAcc /\ seen' = <<>> /\ handed' = <<>>
    /\ logRead' = Unread /\ fresh' = UncheckedFreshness
    /\ UNCHANGED engine

\* openRootManifest: a missing root whose whole tree is gone and whose run the
\* log lists is told as a pruned run, under the same code as a tampered one.
PrunedRunEntry == log.parses /\ Listed(log.entries, root.run) # {}

ReadRoot ==
    /\ pc = "root"
    /\ \/ Finish(ExitUsage)                     \* the run id is not a ULID
       \/ pc' = "sig" /\ exit' = exit
       \/ \E got \in GetFails, treeGone \in BOOLEAN :
             Finish(IF treeGone /\ PrunedRunEntry THEN ExitUnverified
                    ELSE CodedGet(ExitUnverified, got))
    /\ UNCHANGED <<engine, opts, root, body, out, shard, buf, acc, seen, handed, logRead, fresh>>

Attesting == opts.cmd \in {"attest", "keyless"}

\* What the signature object may answer; without a pinned signer a well-formed
\* signature is left unchecked.
SigAnswers == IF opts.cmd = "keyless" THEN {"unchecked", "invalid"} \cup GetFails
              ELSE {"valid", "invalid", "wrong-signer"} \cup GetFails

SigLabel(got) == IF got \in GetFails THEN "absent" ELSE got

\* Mutant of SignatureGate: a bad signature is noted and refused only later.
SignatureGateHeld ==
    /\ pc = "sig" /\ ~Attesting
    /\ \E got \in SigAnswers :
          out' = IF got = "valid" THEN out
                 ELSE [out EXCEPT !.signature = SigLabel(got), !.code = ExitUnverified,
                           !.completeness = "UNVERIFIED", !.failed = Failing("signature", got)]
    /\ pc' = "gates"
    /\ UNCHANGED <<engine, opts, root, body, shard, buf, acc, seen, handed, logRead, fresh, exit>>

\* verifyRootSignatureGate: anything but a valid signature is refused, unless
\* --allow-unverified, which records the true outcome and goes on.
SignatureGate ==
    /\ pc = "sig" /\ ~Attesting
    /\ \E got \in SigAnswers :
          IF got = "valid" THEN pc' = "gates" /\ UNCHANGED <<out, exit>>
          ELSE /\ out' = [out EXCEPT !.signature = SigLabel(got),
                              !.completeness = "UNVERIFIED", !.code = ExitUnverified,
                              !.failed = Failing("signature", got)]
               /\ IF opts.unverified THEN pc' = "gates" /\ exit' = exit
                  ELSE Finish(CodedGet(ExitUnverified, got))
    /\ UNCHANGED <<engine, opts, root, body, shard, buf, acc, seen, handed, logRead, fresh>>

\* classifyRootSignature: attest records the failure and holds it while the
\* other legs run; out.code is the code it will return at the end.
ClassifySignature ==
    /\ pc = "sig" /\ Attesting
    /\ \E got \in SigAnswers :
          out' = IF got \in {"valid", "unchecked"}
                 THEN [out EXCEPT !.signature = got]
                 ELSE [out EXCEPT !.signature = SigLabel(got),
                           !.code = CodedGet(ExitUnverified, got),
                           !.failed = Failing("signature", got)]
    /\ pc' = "gates"
    /\ UNCHANGED <<engine, opts, root, body, shard, buf, acc, seen, handed, logRead, fresh, exit>>

\* The checks on the root's own fields, in order, with the code each refuses under.
FieldGates == <<"parse", "version", "envelope", "runId">>
FieldCode(g) == IF g = "runId" THEN ExitUnverified ELSE ExitUsage

\* validateRecipients and verifyWrapCoverage: every fingerprint is its key's,
\* exactly one recipient is break-glass, the wraps address the recipients and
\* all of them, and the set hash matches.
Fingerprints(m) == {m.recipients[i].fp : i \in DOMAIN m.recipients}
Wraps(m) == {m.wraps[i] : i \in DOMAIN m.wraps}
BreakGlass(m) == {i \in DOMAIN m.recipients : m.recipients[i].role = "break-glass"}

\* Mutant of CheckRecipientSet: wraps are not counted against the recipients.
RecipientSetUncovered(m) ==
    /\ m.breakGlassPresent /\ Cardinality(BreakGlass(m)) = 1
    /\ \A i \in DOMAIN m.recipients : m.recipients[i].genuine
    /\ Wraps(m) \subseteq Fingerprints(m) /\ m.setHash

CheckRecipientSet(m) ==
    /\ m.breakGlassPresent
    /\ \A i \in DOMAIN m.recipients : m.recipients[i].genuine
    /\ Cardinality(BreakGlass(m)) = 1
    /\ Wraps(m) \subseteq Fingerprints(m)
    /\ Cardinality(Wraps(m)) = Cardinality(Fingerprints(m))
    /\ m.setHash

\* OpenCapsule takes the first wrap for the held identity and no other.
OpenCapsule(m, fp) == fp \in Wraps(m)

\* Sum of the records of the first k shards of a layout.
RecordsBefore(layout, k) ==
    LET sum[i \in 0 .. k] == IF i = 0 THEN 0 ELSE sum[i - 1] + layout[i] IN sum[k]

RecordTotal(layout) == RecordsBefore(layout, Len(layout))

\* The root as it is parsed: its shards, the counts and the Merkle root it states,
\* one of which may be wrong, and its recipients.
Bodies ==
    {[parsed |-> TRUE, shards |-> l, man |-> m,
      shardCount |-> Len(l) + (IF wrong = "shardCount" THEN 1 ELSE 0),
      declared |-> RecordTotal(l) + (IF wrong = "count" THEN 1 ELSE 0),
      merkle |-> IF wrong = "merkle" THEN LeafHash(0)
                 ELSE MerkleRoot([i \in 1 .. RecordTotal(l) |-> i])] :
     l \in Layouts, m \in Manifests, wrong \in {"none", "shardCount", "count", "merkle"}}

\* The identity the reader holds unwraps the master and the key commitment, bound
\* to the run, matches it; then the recipient set is checked.
UnlockFails(r, fp, tag) == ~OpenCapsule(r.man, fp) \/ tag = "bad" \/ ~CheckRecipientSet(r.man)

RootGates ==
    /\ pc = "gates"
    /\ \/ /\ \E g \in {FieldGates[i] : i \in DOMAIN FieldGates} : Finish(FieldCode(g))
          /\ body' = body /\ out' = [out EXCEPT !.failed = @ \cup {"content"}]
       \/ \E r \in Bodies, tag \in {"ok", "bad"}, fp \in {"operator", "break-glass"} :
             /\ body' = r
             /\ IF Attesting
                THEN IF CheckRecipientSet(r.man)
                     THEN pc' = "hashes" /\ UNCHANGED <<out, exit>>
                     ELSE /\ Finish(ExitUnverified)
                          /\ out' = [out EXCEPT !.failed = @ \cup {"content"},
                                        !.code = IF @ = 0 THEN ExitUnverified ELSE @]
                ELSE IF UnlockFails(r, fp, tag)
                     THEN Finish(ExitUnverified) /\ out' = [out EXCEPT !.failed = @ \cup {"content"}]
                     ELSE pc' = "walk" /\ UNCHANGED <<out, exit>>
    /\ UNCHANGED <<engine, opts, root, shard, buf, acc, seen, handed, logRead, fresh>>

-----------------------------------------------------------------------------
(***************************************************************************)
(* The verifying walk of StreamOpenContext: shard by shard, record by      *)
(* record, into the accumulator.                                           *)
(***************************************************************************)
RecordsOf(layout, k) ==
    [i \in 1 .. layout[k] |-> RecordsBefore(layout, k - 1) + i]

\* openOneShardSized: how the fetch, the hash against the root, the decryption,
\* the preamble and the codec of one shard may end.
ShardAnswers == {"ok", "altered", "unopenable", "foreign", "codec"} \cup GetFails

\* Mutant of ShardOpens: the hash against the signed root is left out.
ShardOpensUnhashed(got) == got \in {"ok", "altered"}

\* The checks on the bytes once they are here; only an untouched shard passes.
ShardOpens(got) == got = "ok"

\* What the bytes decode to.
Decoded(got, k) ==
    IF got = "altered" THEN [i \in 1 .. body.shards[k] |-> 0] ELSE RecordsOf(body.shards, k)

\* bare is the code an error without one gets: the walk that opens a run calls it
\* unverified, an error of the second walk goes out as it is.
ShardCode(got, bare) ==
    IF got \in GetFails THEN CodedGet(ExitIncomplete, got)
    ELSE IF got = "codec" THEN ExitUsage ELSE bare

\* checkRecordStructural, then the record hash.
RecordAnswers == {"ok", "structural", "hash"}
RecordCode(v) == IF v = "structural" THEN ExitUsage ELSE ExitUnverified

CheckShardCount ==
    /\ pc = "walk" /\ shard = 1 /\ buf = <<>> /\ opts.cmd # "inspect"
    /\ body.shardCount # Len(body.shards)
    /\ Finish(ExitUnverified) /\ out' = [out EXCEPT !.failed = @ \cup {"content"}]
    /\ UNCHANGED <<engine, opts, root, body, shard, buf, acc, seen, handed, logRead, fresh>>

\* Both walks take their shards here.  An interrupt is seen between two shards.
FetchShard(at, bare) ==
    /\ pc = at /\ buf = <<>> /\ shard <= Len(body.shards)
    /\ \/ \E got \in ShardAnswers :
             \/ /\ ShardOpens(got)
                /\ buf' = Decoded(got, shard) /\ shard' = shard + 1
                /\ UNCHANGED <<out, pc, exit>>
             \/ /\ ~ShardOpens(got)
                /\ out' = [out EXCEPT !.failed = @ \cup Failing("content", got)]
                /\ Finish(ShardCode(got, bare)) /\ UNCHANGED <<buf, shard>>
       \/ Finish(bare) /\ UNCHANGED <<out, buf, shard>>
    /\ UNCHANGED <<engine, opts, root, body, acc, seen, handed, logRead, fresh>>

WalkShard ==
    /\ body.shardCount = Len(body.shards) /\ opts.cmd # "inspect"
    /\ FetchShard("walk", ExitUnverified)

WalkRecord ==
    /\ pc = "walk" /\ buf # <<>> /\ opts.cmd # "inspect"
    /\ \E v \in RecordAnswers :
          IF v = "ok"
          THEN /\ acc' = Push(acc, Head(buf)) /\ seen' = Append(seen, Head(buf))
               /\ buf' = Tail(buf) /\ UNCHANGED <<pc, exit, out>>
          ELSE /\ Finish(RecordCode(v)) /\ out' = [out EXCEPT !.failed = @ \cup {"content"}]
               /\ UNCHANGED <<acc, seen, buf>>
    /\ UNCHANGED <<engine, opts, root, body, shard, handed, logRead, fresh>>

\* The counts and the Merkle root the signed root states.
TallyCode(n, merkle) ==
    IF n # body.declared THEN ExitIncomplete
    ELSE IF merkle # body.merkle THEN ExitUnverified ELSE 0

Tally ==
    /\ pc = "walk" /\ buf = <<>> /\ shard > Len(body.shards) /\ opts.cmd # "inspect"
    /\ body.shardCount = Len(body.shards)
    /\ LET code == TallyCode(Len(seen), AccRoot(acc))
       IN  IF code = 0 THEN pc' = "runlog" /\ UNCHANGED <<out, exit>>
           ELSE Finish(code) /\ out' = [out EXCEPT !.failed = @ \cup {"content"}]
    /\ UNCHANGED <<engine, opts, root, body, shard, buf, acc, seen, handed, logRead, fresh>>

(***************************************************************************)
(* Open, which inspect and prune use: every shard first, then the records  *)
(* together, with the recursive Merkle root.                               *)
(***************************************************************************)
OpenShards ==
    /\ pc = "walk" /\ opts.cmd = "inspect" /\ shard <= Len(body.shards)
    /\ \E got \in ShardAnswers :
          IF ShardOpens(got)
          THEN seen' = seen \o Decoded(got, shard) /\ shard' = shard + 1
               /\ UNCHANGED <<out, pc, exit>>
          ELSE /\ out' = [out EXCEPT !.failed = @ \cup Failing("content", got)]
               /\ Finish(ShardCode(got, ExitUnverified)) /\ UNCHANGED <<seen, shard>>
    /\ UNCHANGED <<engine, opts, root, body, buf, acc, handed, logRead, fresh>>

CompletenessCode(v) ==
    IF v = "structural" THEN ExitUsage
    ELSE IF body.shardCount # Len(body.shards) THEN ExitUnverified
    ELSE IF Len(seen) # body.declared THEN ExitIncomplete
    ELSE IF v = "hash" THEN ExitUnverified
    ELSE TallyCode(Len(seen), MerkleRoot(seen))

CheckCompleteness ==
    /\ pc = "walk" /\ opts.cmd = "inspect" /\ shard > Len(body.shards)
    /\ \E v \in IF seen = <<>> THEN {"ok"} ELSE RecordAnswers :
          LET code == CompletenessCode(v)
          IN  IF code = 0 THEN pc' = "runlog" /\ UNCHANGED <<out, exit>>
              ELSE Finish(code) /\ out' = [out EXCEPT !.failed = @ \cup {"content"}]
    /\ UNCHANGED <<engine, opts, root, body, shard, buf, acc, seen, handed, logRead, fresh>>

(***************************************************************************)
(* attest: the shard bytes against the root, nothing decrypted.            *)
(***************************************************************************)
AttestFails(code, failing) ==
    /\ Finish(code)
    /\ out' = [out EXCEPT !.code = IF @ = 0 THEN code ELSE @, !.failed = @ \cup failing]

VerifyShardHashes ==
    /\ pc = "hashes"
    /\ IF body.shardCount # Len(body.shards)
       THEN AttestFails(ExitUnverified, {"content"}) /\ shard' = shard
       ELSE IF shard > Len(body.shards)
       THEN pc' = "runlog" /\ UNCHANGED <<out, exit, shard>>
       ELSE \E got \in {"ok", "altered"} \cup GetFails :
               IF got = "ok" THEN shard' = shard + 1 /\ UNCHANGED <<out, exit, pc>>
               ELSE /\ AttestFails(CodedGet(ExitUnverified, got), Failing("content", got))
                    /\ shard' = shard
    /\ UNCHANGED <<engine, opts, root, body, buf, acc, seen, handed, logRead, fresh>>

-----------------------------------------------------------------------------
(***************************************************************************)
(* Freshness: the log and its signature are two gets.                      *)
(***************************************************************************)
SetFlags(s, l, p) == [opts EXCEPT !.stale = @ \/ s, !.runlog = @ \/ l, !.pin = p]

\* The operator's freshness flags are read here for the first time.  Bound: a
\* command line carries at most one of the three override words.
ChooseFlags ==
    \E s, l \in BOOLEAN, p \in Pins :
        /\ (s \/ l) => opts.cmd = "verify" /\ ~opts.unverified /\ s # l
        /\ p > 0 => opts.cmd # "inspect"
        /\ opts' = SetFlags(s, l, p)

\* The freshness gate of Open and StreamOpenContext: UNVERIFIED, and refused
\* unless the flags cover what was found.  got is "here" when the log and its
\* signature were both retrieved, else how the get failed.
FreshnessGate(o, f, got) ==
    /\ fresh' = f
    /\ IF f.err = "none" THEN pc' = "bundle" /\ UNCHANGED <<out, exit>>
       ELSE /\ out' = [out EXCEPT !.completeness = "UNVERIFIED",
                                  !.failed = @ \cup Failing("log", got)]
            /\ IF Acknowledges(o, f) THEN pc' = "bundle" /\ exit' = exit
               ELSE Finish(CodedGet(ExitStale, got))

\* Mutant of AttestRunlog: a signature failure held so far is dropped.
AttestRunlogForgets(f, got) ==
    /\ fresh' = f
    /\ IF f.err # "none" THEN AttestFails(CodedGet(ExitStale, got), Failing("log", got))
       ELSE Finish(0) /\ out' = out

\* checkRunlog of attest: no flag covers anything; a signature failure held
\* since the first leg is returned when the log is in order.
AttestRunlog(f, got) ==
    /\ fresh' = f
    /\ IF f.err # "none" THEN AttestFails(CodedGet(ExitStale, got), Failing("log", got))
       ELSE Finish(out.code) /\ out' = out

Gate(o, f, got) == IF Attesting THEN AttestRunlog(f, got) ELSE FreshnessGate(o, f, got)

ReadRunlog ==
    /\ pc = "runlog" /\ ChooseFlags
    /\ \/ /\ pc' = "logsig"
          /\ logRead' = [log |-> log, truth |-> logSig.over.entries, how |-> rewritten]
          /\ UNCHANGED <<out, fresh, exit>>
       \/ /\ \E got \in GetFails : Gate(opts', UncheckedFreshness, got)
          /\ logRead' = logRead
    /\ UNCHANGED <<engine, root, body, shard, buf, acc, seen, handed>>

\* Without a signer attest parses the log and looks the run up in it.
KeylessFreshness ==
    LET e == logRead.log.entries
        old == opts.pin > 0 /\ MaxBelow(e, opts.pin)
    IN  IF ~logRead.log.parses \/ Listed(e, root.run) = {} THEN UncheckedFreshness
        ELSE [latest |-> FALSE, warning |-> old, unchecked |-> FALSE, untrusted |-> FALSE,
              err |-> IF old THEN "stale" ELSE "none"]

ReadLogSig ==
    /\ pc = "logsig"
    /\ IF opts.cmd = "keyless" THEN Gate(opts, KeylessFreshness, "here")
       ELSE \/ Gate(opts, CheckFreshness(logRead.log, logSig, root, opts.pin), "here")
            \/ \E got \in GetFails : Gate(opts, UncheckedFreshness, got)
    /\ UNCHANGED <<engine, opts, root, body, shard, buf, acc, seen, handed, logRead>>

(***************************************************************************)
(* The tail of the commands: the recovery bundle on request, the second    *)
(* walk of verify --deep and of restore, the receipt.                      *)
(***************************************************************************)
Bundle ==
    /\ pc = "bundle"
    /\ \E asked \in BOOLEAN, got \in {"ok", "altered"} \cup GetFails :
          LET fails == asked /\ got # "ok"
          IN  /\ asked => opts.cmd # "inspect"
              /\ out' = [out EXCEPT !.bundle = asked /\ ~fails,
                            !.code = IF fails /\ @ = 0 THEN ExitUnverified ELSE @,
                            !.failed = IF fails THEN @ \cup Failing("bundle", got) ELSE @]
              /\ IF fails /\ ~opts.unverified
                 THEN Finish(ExitUnverified)
                 ELSE /\ pc' \in IF opts.cmd = "verify" THEN {"report", "reread"} ELSE {"report"}
                      /\ exit' = exit
    /\ shard' = 1
    /\ UNCHANGED <<engine, opts, root, body, buf, acc, seen, handed, logRead, fresh>>

\* EachRecord: the shards are fetched and checked again.  The checks on a record
\* are those of the first walk, over bytes with the same hash: they hold again.
RereadShard == FetchShard("reread", ExitUncoded)

RereadRecord ==
    /\ pc = "reread" /\ buf # <<>>
    /\ handed' = Append(handed, Head(buf)) /\ buf' = Tail(buf)
    /\ UNCHANGED <<engine, pc, opts, root, body, out, shard, acc, seen, logRead, fresh, exit>>

RereadDone ==
    /\ pc = "reread" /\ buf = <<>> /\ shard > Len(body.shards) /\ pc' = "report"
    /\ UNCHANGED <<engine, opts, root, body, out, shard, buf, acc, seen, handed, logRead, fresh, exit>>

\* The summary, the receipt and the exit code.  A receipt that cannot be written
\* or signed replaces the verdict.  (What the segments of a deep pass add to the
\* code is the subject of module Restore.)
Report ==
    /\ pc = "report"
    /\ \E code \in {out.code} \cup
            (IF opts.cmd = "inspect" THEN {} ELSE {ExitUncoded, ExitUsage}) : Finish(code)
    /\ UNCHANGED <<engine, opts, root, body, out, shard, buf, acc, seen, handed, logRead, fresh>>

Reader ==
    \/ Start \/ ReadRoot \/ SignatureGate \/ ClassifySignature \/ RootGates
    \/ CheckShardCount \/ WalkShard \/ WalkRecord \/ Tally
    \/ OpenShards \/ CheckCompleteness \/ VerifyShardHashes
    \/ ReadRunlog \/ ReadLogSig \/ Bundle \/ RereadShard \/ RereadRecord \/ RereadDone
    \/ Report

Init ==
    /\ eng = [next |-> 1, inFlight |-> [d \in Downpipes |-> NoRun],
              last |-> [d \in Downpipes |-> NoRun], runs |-> <<>>]
    /\ log = [parses |-> TRUE, entries |-> <<>>]
    /\ logSig = [decodes |-> TRUE, over |-> log]
    /\ rewritten = "no" /\ pc = "idle"
    /\ opts = [cmd |-> "verify", unverified |-> FALSE, stale |-> FALSE, runlog |-> FALSE,
               pin |-> 0]
    /\ root = NoRoot /\ body = NoBody /\ out = NoOut
    /\ shard = 1 /\ buf = <<>> /\ acc = EmptyAcc /\ seen = <<>> /\ handed = <<>>
    /\ logRead = Unread /\ fresh = UncheckedFreshness /\ exit = "none"

Next == Engine \/ Reader

Spec == Init /\ [][Next]_vars

-----------------------------------------------------------------------------
(***************************************************************************)
(* Properties.                                                             *)
(***************************************************************************)
Opened == pc \in {"bundle", "reread", "report"} \/ (pc = "done" /\ exit = 0 /\ ~Attesting)

\* The run the reader opened is the newest of its downpipe: nothing the engine had
\* signed when the log was read is newer.  Only a log cut back to a shorter one can
\* hide a newer run, and then not below the operator's pin.
CompleteMeansLatest ==
    Opened /\ out.completeness = "complete" =>
        IF logRead.how = "cut" THEN opts.pin = 0 \/ ~MaxBelow(logRead.log.entries, opts.pin)
        ELSE /\ logRead.how = "no"
             /\ \A i \in DOMAIN logRead.truth :
                    logRead.truth[i].dp = root.dp => logRead.truth[i].idx <= root.idx

\* A log the engine wrote is never called rewritten, although entries land out of
\* index order when runs of two downpipes overlap (detectChainAnomaly).
HonestLogAccepted == rewritten = "no" => ~ChainAnomaly(log.entries)

\* --allow-stale is about age and nothing else: a run opened without the two wider
\* flags was opened under a log that was read whole, signed and untouched, or cut.
AgeWordNeverCoversTheLog ==
    Opened /\ ~opts.runlog /\ ~opts.unverified =>
        ~fresh.untrusted /\ logRead.log.parses /\ logRead.how \in {"no", "cut"}

\* The flag the exit-5 hint names is one that would let the command go on, and the
\* hint names the wider one only where --allow-stale would be refused again.
Hint == IF fresh.err \in {"unchecked", "anomaly"} THEN "runlog" ELSE "stale"

HintNamesTheRightFlag ==
    pc = "done" /\ exit = ExitStale /\ ~Attesting =>
        LET with(f) == [opts EXCEPT !.stale = @ \/ f = "stale", !.runlog = @ \/ f = "runlog"]
        IN  /\ Acknowledges(with(Hint), fresh)
            /\ Hint = "runlog" => ~Acknowledges(with("stale"), fresh)

\* Whatever the second walk hands to a restore, the first walk verified, in the
\* same order, even if the store answers the two walks differently (EachRecord).
HandedOverWasVerified ==
    /\ Len(handed) <= Len(seen)
    /\ \A i \in DOMAIN handed : handed[i] = seen[i]

\* The accumulator states the root of the records pushed so far, whatever their
\* number (MerkleAccumulator.Root against MerkleRoot).
AccumulatorAgrees ==
    pc = "walk" /\ opts.cmd # "inspect" => AccRoot(acc) = MerkleRoot(seen)

\* A run that was opened can be opened by its break-glass recipient: that recipient
\* is there, is one, and has a wrap (checkRecipientSet).
BreakGlassCanOpen ==
    Opened => \E i \in BreakGlass(body.man) : OpenCapsule(body.man, body.man.recipients[i].fp)

\* What may have failed in a command that goes on: nothing of the root, the shards or
\* the records; the root signature under --allow-unverified, or in attest, which keeps
\* the failure in its result; the bundle under --allow-unverified; and of the log what
\* the freshness flags cover.
Tolerated ==
    /\ "content" \notin out.failed
    /\ "signature" \in out.failed => \/ opts.unverified
                                     \/ Attesting /\ out.code = ExitUnverified
    /\ "bundle" \in out.failed => opts.unverified
    /\ "log" \in out.failed => ~Attesting /\ Acknowledges(opts, fresh)

\* The code that invites a retry replaces no refusal.  Whatever the command, what had
\* failed over retrieved bytes when a later get was unreachable is covered by a flag
\* the operator gave, a bad RUNLOG by the freshness flags included, or, for attest's
\* signature, is what the printed result reports (ExitUnreachable, codedGet).
RetryCodeHidesNothing == pc = "done" /\ exit = ExitUnreachable => Tolerated

\* attest prints "attested" exactly when it exits 0.
AttestAgrees == pc = "done" /\ Attesting /\ body.parsed => (out.code = 0 <=> exit = 0)

=============================================================================
