------------------------------ MODULE Restore ------------------------------
(***************************************************************************)
(* `downpipe restore` and `downpipe verify --deep` applying a verified run *)
(* to a target (internal/restore, cmd/downpipe/restore.go and verify.go).  *)
(*                                                                         *)
(* ApplyStreaming walks the records of the run in manifest order.  Each    *)
(* record is classified against the keys found in the target when the pass *)
(* began and the keys the pass has claimed since; a record that is not     *)
(* refused is read, hash-verified and written before the next one is       *)
(* looked at.  On the file sink a write is two file-system steps, an       *)
(* exclusive create and the bytes (or the rename of a finished temporary   *)
(* file), and a kv or r2 record is followed by its metadata sidecar.  The  *)
(* discard sink writes nothing: the same pass is then a restore drill.     *)
(*                                                                         *)
(* The process may be killed between any two steps and started again on    *)
(* the same output directory, where other programs create files as well.   *)
(***************************************************************************)
EXTENDS Integers, FiniteSets

CONSTANTS
    N,             \* records of the run; record r is the r-th in manifest order
    Name,          \* Name[r], the record's name, unique only within a source type
    Source,        \* Source[r] \in {"direct", "d1", "reprov"}
    Path,          \* the paths of the output directory (for discard: ordinals)
    NoPath,        \* a name the target cannot represent, or a path outside Path
    NameKey,       \* NameKey[n], Target.Key of a name
    SqlKey,        \* SqlKey[p], p with the .sql suffix of a D1 dump
    Sidecar,       \* Sidecar[p], p with the metadata sidecar's suffix
    Parents,       \* Parents[p], the directories above p
    HasMeta,       \* the records with kv or r2 metadata
    Streamed,      \* the records at or over the streaming threshold
    MayHold,       \* MayHold[r], what the archive may hold for r
    Commands,      \* the commands the operator runs
    RunCodes,      \* run-level codes an acknowledged run may carry (0: verified)
    MaxPasses,     \* bound: how often the command is started
    MaxOthers      \* bound: files other programs create meanwhile

Rec == 1..N

(***************************************************************************)
(* Exit statuses (format/errors.go and main.go).                           *)
(***************************************************************************)
ExitUncoded == 1
ExitUnverified == 2
ExitIncomplete == 3
ExitPlaintext == 4
ExitUsage == 6
ExitIncompleteMarkers == 8
ExitUnwritten == 10
ExitUnreachable == 11
ExitUnrenderable == 12
ExitDangling == 13
Running == 1000     \* no status yet
Killed == 1001      \* the process was killed

(***************************************************************************)
(* What the archive holds for a record, as a read of it finds out: a value *)
(* that decrypts and matches its hash ("ok"), and then perhaps an          *)
(* incompleteness marker in place of the data ("marker"), a D1 body of a   *)
(* format this release cannot render ("newer") or a broken D1 dump         *)
(* ("malformed"); a segment object that is absent; one whose AEAD tag or   *)
(* chunk count fails ("altered"); a value whose hash differs ("mismatch"); *)
(* one that does not decompress ("undecodable"); a store that sends no     *)
(* bytes ("unreachable").  A record fails for one of the bad readings or   *)
(* because the target could not take it ("write").                         *)
(***************************************************************************)
BadReadings ==
    {"absent", "altered", "mismatch", "undecodable", "unreachable", "malformed"}
Readings == {"ok", "marker", "newer"} \cup BadReadings
Causes == BadReadings \cup {"write"}

(***************************************************************************)
(* The commands: restore --apply to the file sink, the same without        *)
(* --apply, restore --sink discard, and verify --deep.                     *)
(***************************************************************************)
AllCommands == {"restore", "dryrun", "drill", "verify"}

ASSUME RestoreAssumption ==
    /\ N \in Nat \ {0}
    /\ NoPath \notin Path
    /\ Name \in [Rec -> DOMAIN NameKey]
    /\ NameKey \in [DOMAIN NameKey -> Path \cup {NoPath}]
    /\ Source \in [Rec -> {"direct", "d1", "reprov"}]
    /\ SqlKey \in [Path -> Path \cup {NoPath}]
    /\ Sidecar \in [Path -> Path \cup {NoPath}]
    /\ Parents \in [Path -> SUBSET Path]
    /\ \A p \in Path : p \notin Parents[p]
    /\ HasMeta \subseteq {r \in Rec : Source[r] = "direct"}
    /\ \A r \in HasMeta : NameKey[Name[r]] # NoPath => Sidecar[NameKey[Name[r]]] \in Path
    /\ \A r \in Rec : Source[r] = "d1" /\ NameKey[Name[r]] # NoPath =>
           SqlKey[NameKey[Name[r]]] \in Path
    /\ Streamed \subseteq Rec
    /\ MayHold \in [Rec -> SUBSET Readings]
    /\ \A r \in Rec : Source[r] # "d1" => MayHold[r] \cap {"newer", "malformed"} = {}
    /\ Commands \subseteq AllCommands
    /\ RunCodes \subseteq {0, 2, 3, 4, 5}
    /\ MaxPasses \in Nat /\ MaxOthers \in Nat

VARIABLES
    disk,           \* what is at each path
    held,           \* what the archive holds for each record
    cmd,            \* the command of this pass
    pc,             \* where the pass stands; "idle" between passes
    rec,            \* the record being handled
    existing,       \* Target.Existing() when the pass began
    claimed,        \* destination keys this pass has claimed
    fate,           \* what the pass recorded of each record
    integrityExit,  \* Result.IntegrityExit
    unapplied,      \* Result.MetadataUnapplied
    runCode,        \* the run-level code
    exit,           \* the exit status of the pass
    receipt,        \* exitCode and completeness of the receipt, if one was written
    passes,         \* starts left
    others,         \* foreign files left
    killed          \* some pass was killed

vars == <<disk, held, cmd, pc, rec, existing, claimed, fate, integrityExit,
          unapplied, runCode, exit, receipt, passes, others, killed>>
pass == <<cmd, rec, existing, claimed, fate, integrityExit, unapplied, runCode>>
outcome == <<exit, receipt>>
world == <<held, passes, others, killed>>

Absent == [what |-> "absent", of |-> 0]
Dir == [what |-> "dir", of |-> 0]
Foreign == [what |-> "foreign", of |-> 0]
Partial(r) == [what |-> "partial", of |-> r]     \* empty, or some of the bytes
Value(r) == [what |-> "value", of |-> r]         \* all of r's verified bytes
Meta(r) == [what |-> "meta", of |-> r]
NoReceipt == [exitCode |-> Running, completeness |-> "none"]

Sink == IF cmd \in {"restore", "dryrun"} THEN "file" ELSE "discard"
Apply == cmd # "dryrun"

(***************************************************************************)
(* The destination of a record.  A d1 record on the file sink is written   *)
(* as name.sql unless its descriptor says it is not SQL.  The discard sink *)
(* numbers the names it meets, which keeps distinct names apart and gives  *)
(* a name it has met before the number it had: the name stands for it.     *)
(***************************************************************************)
D1File(r) == Source[r] = "d1" /\ Sink = "file"

DestKey(r) ==
    LET k == NameKey[Name[r]]
    IN  IF Sink = "discard" THEN Name[r]
        ELSE IF D1File(r) /\ held[r] # "newer" /\ k # NoPath THEN SqlKey[k] ELSE k

MetaKey(r) == Sidecar[DestKey(r)]
KeepsMeta(r) == Sink = "file" /\ r \in HasMeta

\* A body is parsed as a D1 dump only when it is written as one.
Verdict(r) ==
    IF held[r] \in BadReadings /\ (held[r] = "malformed" => D1File(r))
    THEN held[r] ELSE "ok"

\* Large values flow through a pipe; d1 files and re-provision records never do.
Streams(r) == r \in Streamed /\ ~D1File(r) /\ Source[r] # "reprov"

-----------------------------------------------------------------------------
Init ==
    /\ disk = [p \in Path |-> Absent]
    /\ held \in {h \in [Rec -> Readings] : \A r \in Rec : h[r] \in MayHold[r]}
    /\ pc = "idle" /\ cmd = "dryrun" /\ rec = 1
    /\ existing = {} /\ claimed = {}
    /\ fate = [r \in Rec |-> "pending"]
    /\ integrityExit = 0 /\ unapplied = {} /\ runCode = 0
    /\ exit = Running /\ receipt = NoReceipt
    /\ passes = MaxPasses /\ others = MaxOthers /\ killed = FALSE

(***************************************************************************)
(* A pass begins: the run is open with its run-level code, and the target  *)
(* lists the files it already holds.  A directory is not listed.           *)
(***************************************************************************)
Files == {p \in Path : disk[p] \notin {Absent, Dir}}

Start ==
    /\ pc = "idle" /\ passes > 0
    /\ passes' = passes - 1
    /\ cmd' \in Commands
    /\ existing' = IF cmd' \in {"restore", "dryrun"} THEN Files ELSE {}
    /\ \E c \in RunCodes : runCode' = c
    /\ rec' = 1 /\ claimed' = {} /\ integrityExit' = 0 /\ unapplied' = {}
    /\ fate' = [r \in Rec |-> "pending"]
    /\ exit' = Running /\ receipt' = NoReceipt
    /\ pc' = "classify"
    /\ UNCHANGED <<disk, held, others, killed>>

(***************************************************************************)
(* The planner: unrepresentable, existing or colliding records are         *)
(* refused; any other claims its key and, when free, its sidecar's.        *)
(***************************************************************************)
Conflicts(r) ==
    \/ DestKey(r) = NoPath
    \/ DestKey(r) \in existing
    \/ DestKey(r) \in claimed

ClaimedBy(r) ==
    {DestKey(r)} \cup
        IF KeepsMeta(r) /\ MetaKey(r) \notin existing THEN {MetaKey(r)} ELSE {}

\* Mutant: the walk drops the record after a refused one.
RefuseAndSkip ==
    /\ pc = "classify" /\ rec \in Rec /\ Conflicts(rec)
    /\ fate' = [fate EXCEPT ![rec] = "conflict"]
    /\ rec' = rec + 2
    /\ UNCHANGED <<cmd, disk, pc, existing, claimed, integrityExit, unapplied, runCode>>
    /\ UNCHANGED <<outcome, world>>

Refuse ==
    /\ pc = "classify" /\ rec \in Rec /\ Conflicts(rec)
    /\ fate' = [fate EXCEPT ![rec] = "conflict"]
    /\ rec' = rec + 1
    /\ UNCHANGED <<cmd, disk, pc, existing, claimed, integrityExit, unapplied, runCode>>
    /\ UNCHANGED <<outcome, world>>

Plan ==
    /\ pc = "classify" /\ rec \in Rec /\ ~Conflicts(rec)
    /\ claimed' = claimed \cup ClaimedBy(rec)
    /\ IF Apply THEN /\ pc' = IF Streams(rec) THEN "create" ELSE "read"
                     /\ rec' = rec
                ELSE pc' = pc /\ rec' = rec + 1
    /\ UNCHANGED <<cmd, disk, existing, fate, integrityExit, unapplied, runCode>>
    /\ UNCHANGED <<outcome, world>>

(***************************************************************************)
(* What a pass records of a record it did not write (recordFailure and     *)
(* recordReprovision).  A re-provision record reaches the write only once  *)
(* verified, and a write that then fails is not a failure of the record.   *)
(***************************************************************************)
CodeOf(cause) ==
    CASE cause \in {"absent", "altered"} -> ExitUnverified
      [] cause = "mismatch" -> ExitPlaintext
      [] cause = "unreachable" -> ExitUnreachable
      [] OTHER -> 0

Larger(a, b) == IF a > b THEN a ELSE b

GiveUp(r, cause) ==
    /\ IF cause = "write" /\ Source[r] = "reprov"
       THEN /\ fate' = [fate EXCEPT ![r] = "reprovisioned"]
            /\ UNCHANGED integrityExit
       ELSE /\ fate' = [fate EXCEPT ![r] = cause]
            /\ integrityExit' = Larger(CodeOf(cause), integrityExit)
    /\ rec' = rec + 1 /\ pc' = "classify"

(***************************************************************************)
(* The buffered path reads and verifies the whole value before the target  *)
(* is touched.                                                             *)
(***************************************************************************)
Read ==
    /\ pc = "read"
    /\ \/ /\ Verdict(rec) = "ok"
          /\ pc' = "create"
          /\ UNCHANGED <<rec, fate, integrityExit>>
       \/ /\ Verdict(rec) # "ok"
          /\ GiveUp(rec, Verdict(rec))
    /\ UNCHANGED <<cmd, disk, existing, claimed, unapplied, runCode, outcome, world>>

\* On the streamed path the target's own error is reported only when the reader
\* had not reached a verdict of its own by the time the pipe was torn down.
FailureCauses(r) ==
    IF Streams(r) THEN ({"write"} \cup {Verdict(r)}) \ {"ok"} ELSE {"write"}

(***************************************************************************)
(* The file sink's write.  mkdirAllIn makes the directories, then O_EXCL   *)
(* creates the file: empty, the placeholder of a streamed value or the     *)
(* start of a buffered one.                                                *)
(***************************************************************************)
CanCreate(p) ==
    /\ disk[p] = Absent
    /\ \A d \in Parents[p] : disk[d] \in {Absent, Dir}

WithDirs(p) ==
    [q \in Path |-> IF q \in Parents[p] /\ disk[q] = Absent THEN Dir ELSE disk[q]]

Create ==
    /\ pc = "create" /\ Sink = "file"
    /\ CanCreate(DestKey(rec))
    /\ disk' = [WithDirs(DestKey(rec)) EXCEPT ![DestKey(rec)] = Partial(rec)]
    /\ pc' = "fill"
    /\ UNCHANGED <<pass, outcome, world>>

\* Mutant: the clean-up of a failed write runs although the file is not ours.
CreateRefusedRemoves ==
    /\ pc = "create" /\ Sink = "file"
    /\ \E cause \in FailureCauses(rec) : GiveUp(rec, cause)
    /\ disk' = [disk EXCEPT ![DestKey(rec)] = Absent]
    /\ UNCHANGED <<cmd, existing, claimed, unapplied, runCode, outcome, world>>

\* Mutant: a refused stream waits for a reader that is blocked in the pipe.
CreateRefusedHangs ==
    /\ pc = "create" /\ Sink = "file" /\ ~Streams(rec)
    /\ \E cause \in FailureCauses(rec) : GiveUp(rec, cause)
    /\ UNCHANGED <<cmd, disk, existing, claimed, unapplied, runCode, outcome, world>>

\* The path is taken, a directory is in the way, or the file system says no
\* (in which case the directories may or may not have been made).
CreateRefused ==
    /\ pc = "create" /\ Sink = "file"
    /\ \E cause \in FailureCauses(rec) : GiveUp(rec, cause)
    /\ \/ UNCHANGED disk
       \/ /\ \A d \in Parents[DestKey(rec)] : disk[d] \in {Absent, Dir}
          /\ disk' = WithDirs(DestKey(rec))
    /\ UNCHANGED <<cmd, existing, claimed, unapplied, runCode, outcome, world>>

\* The bytes are all there (Close, or the rename over the placeholder).
Fill ==
    /\ pc = "fill"
    /\ Verdict(rec) = "ok"
    /\ disk' = [disk EXCEPT ![DestKey(rec)] = Value(rec)]
    /\ fate' = [fate EXCEPT ![rec] = "restored"]
    /\ IF KeepsMeta(rec) THEN pc' = "sidecar" /\ rec' = rec
                         ELSE pc' = "classify" /\ rec' = rec + 1
    /\ UNCHANGED <<cmd, existing, claimed, integrityExit, unapplied, runCode>>
    /\ UNCHANGED <<outcome, world>>

\* Mutant: the file is left behind, cut short.
FillFailsLeavesFile ==
    /\ pc = "fill"
    /\ \E cause \in FailureCauses(rec) : GiveUp(rec, cause)
    /\ UNCHANGED <<cmd, disk, existing, claimed, unapplied, runCode, outcome, world>>

\* A full disk, a failed close or rename, or the reader's verdict: the file this
\* write created is removed again.
FillFails ==
    /\ pc = "fill"
    /\ disk' = [disk EXCEPT ![DestKey(rec)] = Absent]
    /\ \E cause \in FailureCauses(rec) : GiveUp(rec, cause)
    /\ UNCHANGED <<cmd, existing, claimed, unapplied, runCode, outcome, world>>

\* The discard sink: a value that verified is counted, and dropped.
Discard ==
    /\ pc = "create" /\ Sink = "discard"
    /\ IF Verdict(rec) = "ok"
       THEN /\ fate' = [fate EXCEPT ![rec] = "restored"]
            /\ rec' = rec + 1 /\ pc' = "classify"
            /\ UNCHANGED integrityExit
       ELSE GiveUp(rec, Verdict(rec))
    /\ UNCHANGED <<cmd, disk, existing, claimed, unapplied, runCode, outcome, world>>

(***************************************************************************)
(* The metadata sidecar of a record just written (applyMetadata).  It goes *)
(* through the same exclusive write; a refusal is listed, not a failure.   *)
(***************************************************************************)
\* Mutant: the sidecar is opened without O_EXCL.
SidecarOverwrites ==
    /\ pc = "sidecar"
    /\ disk' = [disk EXCEPT ![MetaKey(rec)] = Partial(rec)]
    /\ pc' = "sidecarFill"
    /\ UNCHANGED <<pass, outcome, world>>

SidecarCreate ==
    /\ pc = "sidecar"
    /\ CanCreate(MetaKey(rec))
    /\ disk' = [disk EXCEPT ![MetaKey(rec)] = Partial(rec)]
    /\ pc' = "sidecarFill"
    /\ UNCHANGED <<pass, outcome, world>>

SidecarFill ==
    /\ pc = "sidecarFill"
    /\ disk' = [disk EXCEPT ![MetaKey(rec)] = Meta(rec)]
    /\ rec' = rec + 1 /\ pc' = "classify"
    /\ UNCHANGED <<cmd, existing, claimed, fate, integrityExit, unapplied, runCode>>
    /\ UNCHANGED <<outcome, world>>

\* Mutant: a refused sidecar is not listed.
SidecarFailsSilently ==
    /\ pc \in {"sidecar", "sidecarFill"}
    /\ disk' = IF pc = "sidecar" THEN disk
               ELSE [disk EXCEPT ![MetaKey(rec)] = Absent]
    /\ rec' = rec + 1 /\ pc' = "classify"
    /\ UNCHANGED <<cmd, existing, claimed, fate, integrityExit, unapplied, runCode>>
    /\ UNCHANGED <<outcome, world>>

SidecarFails ==
    /\ pc \in {"sidecar", "sidecarFill"}
    /\ disk' = IF pc = "sidecar" THEN disk
               ELSE [disk EXCEPT ![MetaKey(rec)] = Absent]
    /\ unapplied' = unapplied \cup {rec}
    /\ rec' = rec + 1 /\ pc' = "classify"
    /\ UNCHANGED <<cmd, existing, claimed, fate, integrityExit, runCode, outcome, world>>

-----------------------------------------------------------------------------
(***************************************************************************)
(* The end of a pass: the exit status and the receipt.                     *)
(***************************************************************************)
With(f) == {r \in Rec : fate[r] = f}
Failed == {r \in Rec : fate[r] \in Causes}

\* noteMarker and noteUnrenderable: restored, and worth telling the operator.
Noted(reading) == {r \in With("restored") : held[r] = reading}

\* Mutant: one absent object is enough for the milder verdict.
DanglingAny == With("absent") # {}

DanglingOnly == Failed # {} /\ Failed = With("absent")

PerRecordExit ==
    IF DanglingOnly THEN ExitDangling
    ELSE IF integrityExit # 0 THEN integrityExit
    ELSE ExitUncoded

FoldPerRecordExit(code, recordCode) ==
    IF code = 0 THEN recordCode
    ELSE IF recordCode \notin {ExitDangling, ExitUnreachable} /\ recordCode > code
    THEN recordCode
    ELSE code

\* The code of the checks, run-level and per record; the receipt records it.
CheckedCode ==
    IF Apply /\ Failed # {} THEN FoldPerRecordExit(runCode, PerRecordExit) ELSE runCode

\* Mutant: the receipt records the run-level code alone.
ReceiptRunCode == runCode

ReceiptCode == CheckedCode

\* Mutant: records the target refused do not change the status.
RestoreExitIgnoresConflicts ==
    IF CheckedCode # 0 \/ ~Apply THEN CheckedCode
    ELSE IF Noted("marker") # {} THEN ExitIncompleteMarkers
    ELSE IF \E r \in Noted("newer") : D1File(r) THEN ExitUnrenderable
    ELSE 0

RestoreExit ==
    IF CheckedCode # 0 \/ ~Apply THEN CheckedCode
    ELSE IF With("conflict") # {} THEN ExitUnwritten
    ELSE IF Noted("marker") # {} THEN ExitIncompleteMarkers
    ELSE IF \E r \in Noted("newer") : D1File(r) THEN ExitUnrenderable
    ELSE 0

VerifyExit ==
    IF CheckedCode # 0 THEN CheckedCode
    ELSE IF Noted("marker") # {} THEN ExitIncompleteMarkers
    ELSE 0

\* A dry run reads no value and leaves the completeness of the manifests in place.
Completeness ==
    IF ~Apply THEN "structural" ELSE IF DanglingOnly THEN "incomplete"
    ELSE IF Failed # {} THEN "UNVERIFIED" ELSE "complete"

Finish ==
    /\ pc = "classify" /\ rec = N + 1
    /\ pc' = "idle"
    /\ exit' = IF cmd = "verify" THEN VerifyExit ELSE RestoreExit
    /\ receipt' = [exitCode |-> ReceiptCode, completeness |-> Completeness]
    /\ UNCHANGED <<disk, pass, world>>

\* The manifests could not be walked to the end (a shard that is gone by now counts
\* as incomplete), the target could not be listed, or the receipt could not be
\* written: no receipt, and never status 0.
Abort ==
    /\ pc = "classify"
    /\ pc' = "idle"
    /\ exit' \in {ExitUncoded, ExitUnverified, ExitIncomplete, ExitUsage, ExitUnreachable}
    /\ UNCHANGED <<disk, pass, receipt, world>>

(***************************************************************************)
(* The surroundings: the process is killed, another program makes a file.  *)
(***************************************************************************)
Kill ==
    /\ pc # "idle"
    /\ pc' = "idle" /\ exit' = Killed /\ killed' = TRUE
    /\ UNCHANGED <<disk, pass, receipt, held, passes, others>>

OtherProgram(p) ==
    /\ others > 0
    /\ CanCreate(p)
    /\ disk' = [disk EXCEPT ![p] = Foreign]
    /\ others' = others - 1
    /\ UNCHANGED <<held, pc, pass, outcome, passes, killed>>

Step ==
    \/ Refuse \/ Plan \/ Read \/ Create \/ CreateRefused \/ Fill \/ FillFails
    \/ Discard \/ SidecarCreate \/ SidecarFill \/ SidecarFails \/ Finish \/ Abort

Next == Start \/ Step \/ Kill \/ \E p \in Path : OtherProgram(p)

Spec == Init /\ [][Next]_vars

\* A pass that is running and is not killed takes its next step.
FairSpec == Spec /\ WF_vars(Step)

-----------------------------------------------------------------------------
(***************************************************************************)
(* Properties.                                                             *)
(***************************************************************************)

\* Every variable keeps its type; the walk never steps past the end of the run.
TypeOK ==
    /\ disk \in [Path -> [what : {"absent", "dir", "foreign", "partial", "value", "meta"},
                          of : 0..N]]
    /\ held \in [Rec -> Readings] /\ cmd \in AllCommands
    /\ pc \in {"idle", "classify", "read", "create", "fill", "sidecar", "sidecarFill"}
    /\ rec \in 1..(N + 1)
    /\ existing \subseteq Path /\ claimed \subseteq Path \cup DOMAIN NameKey
    /\ fate \in [Rec -> Causes \cup {"pending", "conflict", "restored", "reprovisioned"}]
    /\ integrityExit \in 0..ExitUnreachable
    /\ unapplied \subseteq Rec
    /\ runCode \in 0..5
    /\ exit \in Nat /\ receipt.exitCode \in Nat
    /\ passes \in 0..MaxPasses /\ others \in 0..MaxOthers /\ killed \in BOOLEAN

\* The file the pass is writing right now.
Owned(p) ==
    \/ pc = "fill" /\ p = DestKey(rec)
    \/ pc = "sidecarFill" /\ p = MetaKey(rec)

\* No clobber: whatever is in the output directory stays as it is, the one file
\* the running write has itself created excepted.  It covers other programs' files,
\* files of earlier passes, the debris of a killed pass and the values and
\* sidecars this pass has finished (DirTarget.Write and WriteStream, O_EXCL).
NoClobber ==
    [][\A p \in Path : disk[p] # Absent /\ ~Owned(p) => disk'[p] = disk[p]]_vars

\* A record counted in Result.Restored has its verified value, its own and whole,
\* at its destination from then on, whatever later records, sidecars, passes and
\* other programs do.
RestoredIsOnDisk ==
    cmd = "restore" =>
        \A r \in Rec : fate[r] = "restored" => disk[DestKey(r)] = Value(r)

\* Status 0 of an applied restore means the whole run is on disk: each record's
\* value is at its destination, or the record restores by re-provisioning, has
\* been verified, and only its courtesy copy is missing (cmdRestore).
ExitZeroMeansRestored ==
    exit = 0 /\ cmd = "restore" =>
        \A r \in Rec :
            \/ disk[DestKey(r)] = Value(r)
            \/ Source[r] = "reprov" /\ Verdict(r) = "ok"

\* A write that fails leaves nothing at its destination, so that the retry is not
\* refused: as long as no process was killed, a partial file is never found
\* outside the write that owns it (the comments of DirTarget.Write and WriteStream).
AllOrNothing ==
    ~killed => \A p \in Path : disk[p].what = "partial" => Owned(p)

\* Metadata is never lost silently: after a pass, the sidecar of every restored
\* record that has metadata is on disk or the record is listed as unapplied.
MetadataAccounted ==
    pc = "idle" /\ exit \notin {Running, Killed} =>
        \A r \in Rec : fate[r] = "restored" /\ KeepsMeta(r) =>
            disk[MetaKey(r)] = Meta(r) \/ r \in unapplied

\* A finding is not softened: once a record failed its tag or its hash, the status
\* is none of the advisories and not the one for absent objects, which tells the
\* operator that nothing failed a check (perRecordExit).
FindingNotSoftened ==
    receipt # NoReceipt /\ With("altered") \cup With("mismatch") # {} =>
        exit \notin {0, ExitUncoded, ExitIncompleteMarkers, ExitUnwritten,
                     ExitUnrenderable, ExitDangling}

\* When records failed, the receipt records the status the process exits with
\* (SPEC.md 8.5), and it calls the run complete only when nothing failed.
ReceiptMatchesExit ==
    receipt # NoReceipt /\ Failed # {} =>
        receipt.exitCode = exit /\ receipt.completeness # "complete"

\* A pass ends: no record, readable or not, stops the walk.
PassEnds == pc # "idle" ~> pc = "idle"

\* "A real integrity finding anywhere in the pass takes precedence over the milder
\* verdict" (perRecordExit): a failed tag or hash is never reported with the status
\* that says no bytes arrived and a retry is the remedy.
IntegrityFindingWins ==
    receipt # NoReceipt /\ With("altered") \cup With("mismatch") # {} =>
        exit # ExitUnreachable

\* The drill reads every record: a deep verify that exits 0 has decrypted and
\* hash-checked all of them ("every record is planned as a write (and therefore
\* decrypted and verified)", target_discard.go).
DrillReadsEveryRecord ==
    cmd = "verify" /\ exit = 0 => \A r \in Rec : fate[r] = "restored"
=============================================================================
