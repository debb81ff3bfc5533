--------------------------- MODULE RestoreProofs ---------------------------
(***************************************************************************)
(* What an applied restore promises, proved for every run, every directory *)
(* layout, every number of passes and every pattern of kills.              *)
(***************************************************************************)
EXTENDS Restore, TLAPS

(***************************************************************************)
(* The inductive invariant.  Where the pass stands says what has been      *)
(* established about the record in hand; the file being written is the     *)
(* writer's own; what is recorded of a record was earned.                  *)
(***************************************************************************)
InHand ==
    pc \in {"read", "create", "fill", "sidecar", "sidecarFill"} =>
        /\ rec \in Rec /\ Apply
        /\ Sink = "file" => DestKey(rec) \in Path /\ (KeepsMeta(rec) => MetaKey(rec) \in Path)
        /\ pc \in {"fill", "sidecar", "sidecarFill"} => Sink = "file"
        /\ pc \in {"sidecar", "sidecarFill"} => KeepsMeta(rec)

Earned ==
    /\ \A r \in Rec : fate[r] = "reprovisioned" => Source[r] = "reprov" /\ Verdict(r) = "ok"
    /\ pc \in {"create", "fill"} /\ Source[rec] = "reprov" => Verdict(rec) = "ok"
    /\ Sink = "file" => \A r \in Rec : fate[r] = "restored" =>
           DestKey(r) \in Path /\ (KeepsMeta(r) => MetaKey(r) \in Path)

OwnFile ==
    /\ pc = "fill" => disk[DestKey(rec)] = Partial(rec)
    /\ pc = "sidecarFill" => disk[MetaKey(rec)] = Partial(rec)

Walked ==
    Apply => \A r \in Rec :
        r < rec \/ (r = rec /\ pc \in {"sidecar", "sidecarFill"}) => fate[r] # "pending"

NoStatusYet == pc # "idle" => exit = Running

MetaKept ==
    \A r \in Rec : fate[r] = "restored" /\ KeepsMeta(r) =>
        \/ disk[MetaKey(r)] = Meta(r)
        \/ r \in unapplied
        \/ r = rec /\ pc \in {"sidecar", "sidecarFill"}
        \/ pc = "idle" /\ exit = Killed

ZeroEarned ==
    exit = 0 /\ cmd = "restore" =>
        \A r \in Rec : fate[r] \in {"restored", "reprovisioned"}

Inv ==
    /\ TypeOK /\ InHand /\ Earned /\ OwnFile /\ Walked /\ NoStatusYet
    /\ RestoredIsOnDisk /\ AllOrNothing /\ MetaKept /\ ZeroEarned

-----------------------------------------------------------------------------
\* A destination the planner accepted is a path of the output directory, and so
\* is the path of its sidecar.
LEMMA DestIsPath ==
    ASSUME NEW r \in Rec, Sink = "file", DestKey(r) # NoPath
    PROVE  DestKey(r) \in Path /\ (KeepsMeta(r) => MetaKey(r) \in Path)
  <1>. DEFINE k == NameKey[Name[r]]
  <1>1. k \in Path \cup {NoPath} BY RestoreAssumption
  <1>2. k # NoPath BY <1>1 DEF DestKey
  <1>3. CASE D1File(r)
    <2>1. SqlKey[k] \in Path BY <1>2, <1>3, RestoreAssumption DEF D1File
    <2>2. ~KeepsMeta(r) BY <1>3, RestoreAssumption DEF D1File, KeepsMeta
    <2>. QED BY <1>1, <1>2, <2>1, <2>2 DEF DestKey
  <1>4. CASE ~D1File(r)
    <2>1. DestKey(r) = k BY <1>4 DEF DestKey
    <2>2. r \in HasMeta => Sidecar[k] \in Path BY <1>2, RestoreAssumption
    <2>. QED BY <1>1, <1>2, <2>1, <2>2 DEF MetaKey, KeepsMeta
  <1>. QED BY <1>3, <1>4

\* Within a pass the command and the archive are fixed, and so is everything
\* the pass derives from them alone.
LEMMA KeysStable ==
    ASSUME UNCHANGED <<cmd, held>>
    PROVE  /\ Sink' = Sink /\ Apply' = Apply
           /\ \A r \in Rec : /\ DestKey(r)' = DestKey(r) /\ MetaKey(r)' = MetaKey(r)
                             /\ KeepsMeta(r)' = KeepsMeta(r) /\ Verdict(r)' = Verdict(r)
                             /\ Streams(r)' = Streams(r)
  <1>1. Sink' = Sink /\ Apply' = Apply BY DEF Sink, Apply
  <1>2. ASSUME NEW r \in Rec
        PROVE  /\ D1File(r)' = D1File(r) /\ DestKey(r)' = DestKey(r)
    BY <1>1 DEF D1File, DestKey
  <1>. QED BY <1>1, <1>2 DEF MetaKey, KeepsMeta, Verdict, Streams

\* The kinds of file are told apart by their tag.
LEMMA KindsDiffer ==
    ASSUME NEW r \in Rec, NEW q \in Rec
    PROVE  /\ Partial(r) # Absent /\ Partial(r) # Dir /\ Partial(r) # Foreign
           /\ Value(r) # Absent /\ Value(r) # Partial(q) /\ Value(r) # Dir
           /\ Value(r) # Foreign /\ Value(r) # Meta(q)
           /\ Absent.what # "partial" /\ Dir.what # "partial" /\ Foreign.what # "partial"
           /\ Value(r).what # "partial" /\ Meta(r).what # "partial"
           /\ Partial(r).what = "partial"
  BY DEF Partial, Value, Absent, Dir, Foreign, Meta

Content == [what : {"absent", "dir", "foreign", "partial", "value", "meta"}, of : 0..N]

\* Every kind of file is one of the contents the type invariant allows.
LEMMA ContentTyped ==
    /\ Absent \in Content /\ Dir \in Content /\ Foreign \in Content
    /\ \A r \in Rec : Partial(r) \in Content /\ Value(r) \in Content /\ Meta(r) \in Content
  BY RestoreAssumption DEF Content, Absent, Dir, Foreign, Partial, Value, Meta, Rec

Fates == Causes \cup {"pending", "conflict", "restored", "reprovisioned"}

\* The reasons a record can fail for are all causes.
LEMMA CausesTyped ==
    ASSUME NEW r \in Rec, held \in [Rec -> Readings]
    PROVE  /\ Verdict(r) # "ok" => Verdict(r) \in Causes /\ Verdict(r) \in BadReadings
           /\ FailureCauses(r) \subseteq Causes
  <1>1. Verdict(r) # "ok" => Verdict(r) \in BadReadings BY DEF Verdict
  <1>. QED BY <1>1 DEF FailureCauses, Causes

\* Giving up on a record records a fate for it and moves on.
LEMMA GiveUpTyped ==
    ASSUME TypeOK, rec \in Rec, NEW cause \in Causes, GiveUp(rec, cause)
    PROVE  /\ fate' \in [Rec -> Fates] /\ integrityExit' \in 0..ExitUnreachable
           /\ rec' = rec + 1 /\ rec' \in 1..(N + 1) /\ pc' = "classify"
           /\ fate' = [fate EXCEPT ![rec] = fate'[rec]]
           /\ fate'[rec] \in Causes \cup {"reprovisioned"}
           /\ fate'[rec] = "reprovisioned" => cause = "write" /\ Source[rec] = "reprov"
  <1>1. CodeOf(cause) \in 0..ExitUnreachable
    BY DEF CodeOf, ExitUnverified, ExitPlaintext, ExitUnreachable
  <1>2. Larger(CodeOf(cause), integrityExit) \in 0..ExitUnreachable
    BY <1>1 DEF Larger, TypeOK
  <1>3. rec + 1 \in 1..(N + 1) BY RestoreAssumption DEF Rec
  <1>4. fate \in [Rec -> Fates] BY DEF TypeOK, Fates
  <1>5. integrityExit \in 0..ExitUnreachable BY DEF TypeOK
  <1>6. "reprovisioned" \notin Causes BY DEF Causes, BadReadings
  <1>7. CASE cause = "write" /\ Source[rec] = "reprov"
    <2>1. fate' = [fate EXCEPT ![rec] = "reprovisioned"] BY <1>7 DEF GiveUp
    <2>. QED BY <1>3, <1>4, <1>5, <1>7, <2>1 DEF GiveUp, Fates
  <1>8. CASE ~(cause = "write" /\ Source[rec] = "reprov")
    <2>1. fate' = [fate EXCEPT ![rec] = cause] BY <1>8 DEF GiveUp
    <2>2. integrityExit' = Larger(CodeOf(cause), integrityExit) BY <1>8 DEF GiveUp
    <2>. QED BY <1>2, <1>3, <1>4, <1>6, <2>1, <2>2 DEF GiveUp, Fates
  <1>. QED BY <1>7, <1>8

\* Making directories changes nothing that was there.
LEMMA DirsTyped ==
    ASSUME disk \in [Path -> Content], NEW p \in Path
    PROVE  /\ WithDirs(p) \in [Path -> Content]
           /\ \A q \in Path : WithDirs(p)[q] = disk[q] \/ (disk[q] = Absent /\ WithDirs(p)[q] = Dir)
           /\ WithDirs(p)[p] = disk[p]
  BY ContentTyped, RestoreAssumption DEF WithDirs

-----------------------------------------------------------------------------
\* Every step keeps the types.
LEMMA TypeStep ==
    ASSUME TypeOK, InHand, Next
    PROVE  TypeOK'
  <1>. USE DEF Fates, Content
  <1>0. /\ disk \in [Path -> Content] /\ held \in [Rec -> Readings] /\ N \in Nat
        /\ fate \in [Rec -> Fates]
    BY RestoreAssumption DEF TypeOK
  <1>1. CASE Start
    <2>1. existing' \subseteq Path BY <1>1 DEF Start, Files
    <2>2. cmd' \in AllCommands BY <1>1, RestoreAssumption DEF Start
    <2>3. runCode' \in 0..5 BY <1>1, RestoreAssumption DEF Start
    <2>4. fate' \in [Rec -> Fates] BY <1>1 DEF Start
    <2>5. exit' \in Nat /\ integrityExit' \in 0..ExitUnreachable
      BY <1>1 DEF Start, Running, ExitUnreachable
    <2>7. receipt'.exitCode \in Nat BY <1>1 DEF Start, NoReceipt, Running
    <2>6. passes' \in 0..MaxPasses BY <1>1, RestoreAssumption DEF Start, TypeOK
    <2>. QED BY <1>0, <1>1, <2>1, <2>2, <2>3, <2>4, <2>5, <2>6, <2>7 DEF Start, TypeOK
  <1>2. CASE Refuse
    <2>1. fate' \in [Rec -> Fates] BY <1>0, <1>2 DEF Refuse
    <2>2. rec' \in 1..(N + 1) BY <1>0, <1>2 DEF Refuse, Rec
    <2>. QED BY <1>2, <2>1, <2>2 DEF Refuse, TypeOK, outcome, world
  <1>3. CASE Plan
    <2>1. ClaimedBy(rec) \subseteq Path \cup DOMAIN NameKey
      <3>1. CASE Sink = "file"
        <4>1. DestKey(rec) # NoPath BY <1>3 DEF Plan, Conflicts
        <4>2. DestKey(rec) \in Path /\ (KeepsMeta(rec) => MetaKey(rec) \in Path)
          BY <1>3, <3>1, <4>1, DestIsPath DEF Plan
        <4>. QED BY <4>2 DEF ClaimedBy
      <3>2. CASE Sink # "file"
        <4>1. DestKey(rec) = Name[rec] BY <3>2 DEF DestKey, Sink
        <4>2. Name[rec] \in DOMAIN NameKey BY <1>3, RestoreAssumption DEF Plan
        <4>. QED BY <3>2, <4>1, <4>2 DEF ClaimedBy, KeepsMeta
      <3>. QED BY <3>1, <3>2
    <2>2. claimed' \subseteq Path \cup DOMAIN NameKey BY <1>3, <2>1 DEF Plan, TypeOK
    <2>3. rec' \in 1..(N + 1) BY <1>0, <1>3 DEF Plan, Rec
    <2>4. pc' \in {"classify", "create", "read"} BY <1>3 DEF Plan
    <2>. QED BY <1>3, <2>2, <2>3, <2>4 DEF Plan, TypeOK, outcome, world
  <1>4. CASE Read
    <2>1. rec \in Rec BY <1>4 DEF Read, InHand
    <2>2. CASE Verdict(rec) = "ok"
      BY <1>4, <2>2 DEF Read, TypeOK, outcome, world
    <2>3. CASE Verdict(rec) # "ok"
      <3>1. Verdict(rec) \in Causes BY <1>0, <2>1, <2>3, CausesTyped
      <3>2. GiveUp(rec, Verdict(rec)) BY <1>4, <2>3 DEF Read
      <3>3. /\ fate' \in [Rec -> Fates] /\ integrityExit' \in 0..ExitUnreachable
            /\ rec' \in 1..(N + 1) /\ pc' = "classify"
        BY <2>1, <3>1, <3>2, GiveUpTyped
      <3>. QED BY <1>4, <3>3 DEF Read, TypeOK, outcome, world
    <2>. QED BY <2>2, <2>3
  <1>5. CASE Create
    <2>1. rec \in Rec /\ DestKey(rec) \in Path BY <1>5 DEF Create, InHand
    <2>2. disk' \in [Path -> Content] BY <1>0, <1>5, <2>1, DirsTyped, ContentTyped DEF Create
    <2>. QED BY <1>5, <2>2 DEF Create, TypeOK, pass, outcome, world
  <1>6. CASE CreateRefused
    <2>1. rec \in Rec /\ DestKey(rec) \in Path BY <1>6 DEF CreateRefused, InHand
    <2>2. PICK cause \in FailureCauses(rec) : GiveUp(rec, cause) BY <1>6 DEF CreateRefused
    <2>3. cause \in Causes BY <1>0, <2>1, <2>2, CausesTyped
    <2>4. /\ fate' \in [Rec -> Fates] /\ integrityExit' \in 0..ExitUnreachable
          /\ rec' \in 1..(N + 1) /\ pc' = "classify"
      BY <2>1, <2>2, <2>3, GiveUpTyped
    <2>5. disk' \in [Path -> Content] BY <1>0, <1>6, <2>1, DirsTyped DEF CreateRefused
    <2>. QED BY <1>6, <2>4, <2>5 DEF CreateRefused, TypeOK, outcome, world
  <1>7. CASE Fill
    <2>1. rec \in Rec /\ DestKey(rec) \in Path BY <1>7 DEF Fill, InHand
    <2>2. disk' \in [Path -> Content] BY <1>0, <1>7, <2>1, ContentTyped DEF Fill
    <2>3. fate' \in [Rec -> Fates] BY <1>0, <1>7, <2>1 DEF Fill
    <2>4. rec' \in 1..(N + 1) /\ pc' \in {"sidecar", "classify"} BY <1>0, <1>7, <2>1 DEF Fill, Rec
    <2>. QED BY <1>7, <2>2, <2>3, <2>4 DEF Fill, TypeOK, outcome, world
  <1>8. CASE FillFails
    <2>1. rec \in Rec /\ DestKey(rec) \in Path BY <1>8 DEF FillFails, InHand
    <2>2. PICK cause \in FailureCauses(rec) : GiveUp(rec, cause) BY <1>8 DEF FillFails
    <2>3. cause \in Causes BY <1>0, <2>1, <2>2, CausesTyped
    <2>4. /\ fate' \in [Rec -> Fates] /\ integrityExit' \in 0..ExitUnreachable
          /\ rec' \in 1..(N + 1) /\ pc' = "classify"
      BY <2>1, <2>2, <2>3, GiveUpTyped
    <2>5. disk' \in [Path -> Content] BY <1>0, <1>8, <2>1, ContentTyped DEF FillFails
    <2>. QED BY <1>8, <2>4, <2>5 DEF FillFails, TypeOK, outcome, world
  <1>9. CASE Discard
    <2>1. rec \in Rec BY <1>9 DEF Discard, InHand
    <2>2. CASE Verdict(rec) = "ok"
      <3>1. fate' \in [Rec -> Fates] BY <1>0, <1>9, <2>1, <2>2 DEF Discard
      <3>2. rec' \in 1..(N + 1) BY <1>0, <1>9, <2>1, <2>2 DEF Discard, Rec
      <3>. QED BY <1>9, <2>2, <3>1, <3>2 DEF Discard, TypeOK, outcome, world
    <2>3. CASE Verdict(rec) # "ok"
      <3>1. Verdict(rec) \in Causes BY <1>0, <2>1, <2>3, CausesTyped
      <3>2. GiveUp(rec, Verdict(rec)) BY <1>9, <2>3 DEF Discard
      <3>3. /\ fate' \in [Rec -> Fates] /\ integrityExit' \in 0..ExitUnreachable
            /\ rec' \in 1..(N + 1) /\ pc' = "classify"
        BY <2>1, <3>1, <3>2, GiveUpTyped
      <3>. QED BY <1>9, <3>3 DEF Discard, TypeOK, outcome, world
    <2>. QED BY <2>2, <2>3
  <1>10. CASE SidecarCreate
    <2>1. rec \in Rec /\ MetaKey(rec) \in Path BY <1>10 DEF SidecarCreate, InHand
    <2>2. disk' \in [Path -> Content] BY <1>0, <1>10, <2>1, ContentTyped DEF SidecarCreate
    <2>. QED BY <1>10, <2>2 DEF SidecarCreate, TypeOK, pass, outcome, world
  <1>11. CASE SidecarFill
    <2>1. rec \in Rec /\ MetaKey(rec) \in Path BY <1>11 DEF SidecarFill, InHand
    <2>2. disk' \in [Path -> Content] BY <1>0, <1>11, <2>1, ContentTyped DEF SidecarFill
    <2>3. rec' \in 1..(N + 1) BY <1>0, <1>11, <2>1 DEF SidecarFill, Rec
    <2>. QED BY <1>11, <2>2, <2>3 DEF SidecarFill, TypeOK, outcome, world
  <1>12. CASE SidecarFails
    <2>1. rec \in Rec /\ MetaKey(rec) \in Path BY <1>12 DEF SidecarFails, InHand
    <2>2. disk' \in [Path -> Content] BY <1>0, <1>12, <2>1, ContentTyped DEF SidecarFails
    <2>3. rec' \in 1..(N + 1) BY <1>0, <1>12, <2>1 DEF SidecarFails, Rec
    <2>4. unapplied' \subseteq Rec BY <1>12, <2>1 DEF SidecarFails, TypeOK
    <2>. QED BY <1>12, <2>2, <2>3, <2>4 DEF SidecarFails, TypeOK, outcome, world
  <1>13. CASE Finish
    <2>1. CheckedCode \in Nat
      BY <1>0 DEF CheckedCode, FoldPerRecordExit, PerRecordExit, TypeOK, ExitDangling,
                  ExitUnreachable, ExitUncoded
    <2>2. exit' \in Nat
      BY <1>13, <2>1 DEF Finish, VerifyExit, RestoreExit, ExitUnwritten,
                         ExitIncompleteMarkers, ExitUnrenderable
    <2>3. receipt'.exitCode \in Nat BY <1>13, <2>1 DEF Finish, ReceiptCode
    <2>. QED BY <1>13, <2>2, <2>3 DEF Finish, TypeOK, pass, world
  <1>14. CASE Abort
    BY <1>14 DEF Abort, TypeOK, pass, world, ExitUncoded, ExitUnverified, ExitIncomplete,
         ExitUsage, ExitUnreachable
  <1>15. CASE Kill
    BY <1>15 DEF Kill, TypeOK, pass, Killed
  <1>16. ASSUME NEW p \in Path, OtherProgram(p) PROVE TypeOK'
    <2>1. disk' \in [Path -> Content] BY <1>0, <1>16, ContentTyped DEF OtherProgram
    <2>2. others' \in 0..MaxOthers BY <1>16, RestoreAssumption DEF OtherProgram, TypeOK
    <2>. QED BY <1>16, <2>1, <2>2 DEF OtherProgram, TypeOK, pass, outcome
  <1>. QED
    BY <1>1, <1>2, <1>3, <1>4, <1>5, <1>6, <1>7, <1>8, <1>9, <1>10, <1>11, <1>12,
       <1>13, <1>14, <1>15, <1>16 DEF Next, Step

-----------------------------------------------------------------------------
\* Only the start of a pass changes the command; nothing changes the archive.
LEMMA SamePass ==
    ASSUME Next, ~Start
    PROVE  UNCHANGED <<cmd, held>>
  BY DEF Next, Step, Refuse, Plan, Read, Create, CreateRefused, Fill, FillFails, Discard,
         SidecarCreate, SidecarFill, SidecarFails, Finish, Abort, Kill, OtherProgram,
         pass, world

\* What a step may do to a path: nothing, create something where there was
\* nothing, or finish or remove the file the writer has itself created.
LEMMA DiskStep ==
    ASSUME TypeOK, InHand, OwnFile, Next, NEW p \in Path
    PROVE  disk'[p] = disk[p] \/ disk[p] = Absent \/ (disk[p].what = "partial" /\ Owned(p))
  <1>0. disk \in [Path -> Content] BY DEF TypeOK, Content
  <1>1. CASE Create
    <2>1. rec \in Rec /\ DestKey(rec) \in Path BY <1>1 DEF Create, InHand
    <2>2. disk[DestKey(rec)] = Absent BY <1>1 DEF Create, CanCreate
    <2>3. WithDirs(DestKey(rec)) \in [Path -> Content] BY <1>0, <2>1, DirsTyped
    <2>4. p # DestKey(rec) => disk'[p] = WithDirs(DestKey(rec))[p]
      BY <1>1, <2>3 DEF Create
    <2>. QED BY <1>0, <2>1, <2>2, <2>4, DirsTyped
  <1>2. CASE CreateRefused
    <2>1. rec \in Rec /\ DestKey(rec) \in Path BY <1>2 DEF CreateRefused, InHand
    <2>2. disk' = disk \/ disk' = WithDirs(DestKey(rec)) BY <1>2 DEF CreateRefused
    <2>. QED BY <1>0, <2>1, <2>2, DirsTyped
  <1>3. CASE Fill \/ FillFails
    <2>1. rec \in Rec /\ DestKey(rec) \in Path BY <1>3 DEF Fill, FillFails, InHand
    <2>2. disk[DestKey(rec)].what = "partial" BY <1>3, <2>1, KindsDiffer DEF Fill, FillFails, OwnFile
    <2>3. p # DestKey(rec) => disk'[p] = disk[p] BY <1>0, <1>3 DEF Fill, FillFails
    <2>. QED BY <1>3, <2>2, <2>3 DEF Owned, Fill, FillFails
  <1>4. CASE SidecarCreate
    <2>1. disk[MetaKey(rec)] = Absent BY <1>4 DEF SidecarCreate, CanCreate
    <2>2. p # MetaKey(rec) => disk'[p] = disk[p] BY <1>0, <1>4 DEF SidecarCreate
    <2>. QED BY <2>1, <2>2
  <1>5. CASE SidecarFill \/ SidecarFails
    <2>1. rec \in Rec /\ pc \in {"sidecar", "sidecarFill"} BY <1>5 DEF SidecarFill, SidecarFails, InHand
    <2>2. pc = "sidecar" => disk' = disk BY <1>5 DEF SidecarFill, SidecarFails
    <2>3. pc = "sidecarFill" => disk[MetaKey(rec)].what = "partial" BY <2>1, KindsDiffer DEF OwnFile
    <2>4. p # MetaKey(rec) => disk'[p] = disk[p] BY <1>0, <1>5 DEF SidecarFill, SidecarFails
    <2>. QED BY <2>1, <2>2, <2>3, <2>4 DEF Owned
  <1>6. ASSUME NEW q \in Path, OtherProgram(q)
        PROVE  disk'[p] = disk[p] \/ disk[p] = Absent
    BY <1>0, <1>6 DEF OtherProgram, CanCreate
  <1>7. CASE Start \/ Refuse \/ Plan \/ Read \/ Discard \/ Finish \/ Abort \/ Kill
    BY <1>7 DEF Start, Refuse, Plan, Read, Discard, Finish, Abort, Kill
  <1>. QED BY <1>1, <1>2, <1>3, <1>4, <1>5, <1>6, <1>7 DEF Next, Step

\* How the fate of a record changes: it is reset, or it is settled for the record
\* in hand, by a write that finished, by a refusal or by giving up.
LEMMA FateStep ==
    ASSUME TypeOK, InHand, Next, ~Start, NEW r \in Rec, fate'[r] # fate[r]
    PROVE  /\ r = rec /\ fate'[r] # "pending"
           /\ fate'[r] = "restored" => Fill \/ Discard
           /\ fate'[r] = "reprovisioned" => pc \in {"create", "fill"} /\ Source[r] = "reprov"
  <1>0. fate \in [Rec -> Fates] /\ held \in [Rec -> Readings] BY DEF TypeOK, Fates
  <1>1. CASE Refuse
    BY <1>0, <1>1 DEF Refuse
  <1>2. CASE Fill
    BY <1>0, <1>2 DEF Fill
  <1>3. ASSUME NEW cause \in Causes, GiveUp(rec, cause), rec \in Rec,
               pc = "read" => cause # "write"
        PROVE  r = rec /\ fate'[r] \in Causes \cup {"reprovisioned"}
               /\ (fate'[r] = "reprovisioned" => pc # "read" /\ Source[r] = "reprov")
    <2>1. /\ fate' = [fate EXCEPT ![rec] = fate'[rec]]
          /\ fate'[rec] \in Causes \cup {"reprovisioned"}
          /\ fate'[rec] = "reprovisioned" => cause = "write" /\ Source[rec] = "reprov"
      BY <1>3, GiveUpTyped
    <2>2. r = rec BY <1>0, <2>1
    <2>. QED BY <1>3, <2>1, <2>2
  <1>4. \A f \in Causes : f # "pending" /\ f # "restored" /\ f # "reprovisioned"
    BY DEF Causes, BadReadings
  <1>5. CASE Read
    <2>1. rec \in Rec BY <1>5 DEF Read, InHand
    <2>2. Verdict(rec) # "ok" /\ GiveUp(rec, Verdict(rec)) BY <1>5 DEF Read
    <2>3. Verdict(rec) \in Causes /\ Verdict(rec) # "write"
      BY <1>0, <2>1, <2>2, CausesTyped DEF BadReadings
    <2>4. pc = "read" BY <1>5 DEF Read
    <2>. QED BY <1>3, <1>4, <2>1, <2>2, <2>3, <2>4
  <1>6. CASE Discard
    <2>1. rec \in Rec /\ pc = "create" BY <1>6 DEF Discard, InHand
    <2>2. CASE Verdict(rec) = "ok" BY <1>0, <1>6, <2>1, <2>2 DEF Discard
    <2>3. CASE Verdict(rec) # "ok"
      <3>1. GiveUp(rec, Verdict(rec)) /\ Verdict(rec) \in Causes
        BY <1>0, <1>6, <2>1, <2>3, CausesTyped DEF Discard
      <3>. QED BY <1>3, <1>4, <2>1, <3>1
    <2>. QED BY <2>2, <2>3
  <1>7. CASE CreateRefused \/ FillFails
    <2>1. rec \in Rec /\ pc \in {"create", "fill"} BY <1>7 DEF CreateRefused, FillFails, InHand
    <2>2. PICK cause \in FailureCauses(rec) : GiveUp(rec, cause)
      BY <1>7 DEF CreateRefused, FillFails
    <2>3. cause \in Causes BY <1>0, <2>1, <2>2, CausesTyped
    <2>. QED BY <1>3, <1>4, <2>1, <2>2, <2>3
  <1>8. CASE \/ Plan \/ Create \/ SidecarCreate \/ SidecarFill \/ SidecarFails \/ Finish
             \/ Abort \/ Kill \/ \E p \in Path : OtherProgram(p)
    BY <1>8 DEF Plan, Create, SidecarCreate, SidecarFill, SidecarFails, Finish, Abort, Kill,
                OtherProgram, pass
  <1>. QED BY <1>1, <1>2, <1>5, <1>6, <1>7, <1>8 DEF Next, Step

\* The keys of the record in hand do not move while it is in hand.
LEMMA HandStable ==
    ASSUME UNCHANGED <<cmd, held, rec>>
    PROVE  /\ DestKey(rec)' = DestKey(rec) /\ MetaKey(rec)' = MetaKey(rec)
           /\ KeepsMeta(rec)' = KeepsMeta(rec) /\ Verdict(rec)' = Verdict(rec)
  <1>1. Sink' = Sink BY DEF Sink
  <1>2. D1File(rec)' = D1File(rec) BY <1>1 DEF D1File
  <1>3. DestKey(rec)' = DestKey(rec) BY <1>1, <1>2 DEF DestKey
  <1>. QED BY <1>1, <1>2, <1>3 DEF MetaKey, KeepsMeta, Verdict

\* Giving up returns the walk to the planner.
LEMMA BackToPlanner ==
    ASSUME Next
    PROVE  /\ Start \/ Refuse \/ CreateRefused \/ FillFails \/ Discard \/ SidecarFill \/ SidecarFails
                  => pc' = "classify"
           /\ Finish \/ Abort \/ Kill => pc' = "idle"
  BY DEF Start, Refuse, CreateRefused, FillFails, Discard, SidecarFill, SidecarFails,
         Finish, Abort, Kill, GiveUp

-----------------------------------------------------------------------------
\* What the position of the pass says of the record in hand stays true.
LEMMA InHandStep ==
    ASSUME TypeOK, InHand, Next
    PROVE  InHand'
  <1>1. CASE Start \/ Refuse \/ CreateRefused \/ FillFails \/ Discard \/ SidecarFill
             \/ SidecarFails \/ Finish \/ Abort \/ Kill
    <2>1. pc' \in {"classify", "idle"} BY <1>1, BackToPlanner
    <2>. QED BY <2>1 DEF InHand
  <1>2. ASSUME Plan \/ Read \/ Create \/ Fill \/ SidecarCreate \/ \E p \in Path : OtherProgram(p),
               rec' = rec
        PROVE  InHand'
    <2>1. UNCHANGED <<cmd, held>>
      BY <1>2 DEF Plan, Read, Create, Fill, SidecarCreate, OtherProgram, pass, world
    <2>2. /\ DestKey(rec)' = DestKey(rec) /\ MetaKey(rec)' = MetaKey(rec)
          /\ KeepsMeta(rec)' = KeepsMeta(rec)
      BY <1>2, <2>1, HandStable
    <2>3. Sink' = Sink /\ Apply' = Apply BY <2>1 DEF Sink, Apply
    <2>4. CASE Plan
      <3>1. rec \in Rec BY <2>4 DEF Plan
      <3>2. pc' # "classify" => Apply BY <2>4 DEF Plan
      <3>3. pc' \in {"classify", "create", "read"} BY <2>4 DEF Plan
      <3>4. Sink = "file" => DestKey(rec) \in Path /\ (KeepsMeta(rec) => MetaKey(rec) \in Path)
        BY <2>4, <3>1, DestIsPath DEF Plan, Conflicts
      <3>. QED BY <1>2, <2>2, <2>3, <3>1, <3>2, <3>3, <3>4 DEF InHand
    <2>5. CASE Read \/ Create
      <3>1. pc \in {"read", "create"} /\ pc' \in {"classify", "create", "fill"}
        BY <2>5 DEF Read, Create, GiveUp
      <3>2. pc' = "fill" => Sink = "file" BY <2>5 DEF Read, Create, GiveUp
      <3>. QED BY <1>2, <2>2, <2>3, <3>1, <3>2 DEF InHand
    <2>6. CASE Fill \/ SidecarCreate
      <3>1. pc \in {"fill", "sidecar"} /\ pc' \in {"classify", "sidecar", "sidecarFill"}
        BY <2>6 DEF Fill, SidecarCreate
      <3>2. pc' \in {"sidecar", "sidecarFill"} => KeepsMeta(rec)
        BY <2>6 DEF Fill, SidecarCreate, InHand
      <3>. QED BY <1>2, <2>2, <2>3, <3>1, <3>2 DEF InHand
    <2>7. CASE \E p \in Path : OtherProgram(p)
      <3>1. pc' = pc BY <2>7 DEF OtherProgram
      <3>. QED BY <1>2, <2>2, <2>3, <3>1 DEF InHand
    <2>. QED BY <1>2, <2>4, <2>5, <2>6, <2>7
  <1>3. ASSUME Plan \/ Read \/ Create \/ Fill \/ SidecarCreate \/ \E p \in Path : OtherProgram(p),
               rec' # rec
        PROVE  InHand'
    <2>1. pc' = "classify"
      BY <1>3 DEF Plan, Read, Create, Fill, SidecarCreate, OtherProgram, pass, GiveUp
    <2>. QED BY <2>1 DEF InHand
  <1>. QED BY <1>1, <1>2, <1>3 DEF Next, Step

\* What is recorded of a record stays earned.
LEMMA EarnedStep ==
    ASSUME TypeOK, InHand, Earned, Next
    PROVE  Earned'
  <1>1. CASE Start
    <2>1. \A r \in Rec : fate'[r] = "pending" BY <1>1 DEF Start
    <2>2. pc' = "classify" BY <1>1 DEF Start
    <2>. QED BY <2>1, <2>2 DEF Earned
  <1>2. CASE ~Start
    <2>0. UNCHANGED <<cmd, held>> BY <1>2, SamePass
    <2>1. /\ Sink' = Sink
          /\ \A r \in Rec : /\ DestKey(r)' = DestKey(r) /\ MetaKey(r)' = MetaKey(r)
                            /\ KeepsMeta(r)' = KeepsMeta(r) /\ Verdict(r)' = Verdict(r)
      BY <2>0, KeysStable
    <2>2. ASSUME NEW r \in Rec, fate'[r] = "reprovisioned"
          PROVE  Source[r] = "reprov" /\ Verdict(r)' = "ok"
      <3>1. CASE fate'[r] = fate[r] BY <2>1, <2>2, <3>1 DEF Earned
      <3>2. CASE fate'[r] # fate[r]
        <4>1. r = rec /\ pc \in {"create", "fill"} /\ Source[r] = "reprov"
          BY <1>2, <2>2, <3>2, FateStep
        <4>2. Verdict(r) = "ok" BY <4>1 DEF Earned
        <4>. QED BY <2>1, <4>1, <4>2
      <3>. QED BY <3>1, <3>2
    <2>3. ASSUME NEW r \in Rec, Sink = "file", fate'[r] = "restored"
          PROVE  (DestKey(r) \in Path /\ (KeepsMeta(r) => MetaKey(r) \in Path))'
      <3>1. CASE fate'[r] = fate[r] BY <2>1, <2>3, <3>1 DEF Earned
      <3>2. CASE fate'[r] # fate[r]
        <4>1. r = rec /\ Fill BY <1>2, <2>3, <3>2, FateStep DEF Discard
        <4>2. DestKey(r) \in Path /\ (KeepsMeta(r) => MetaKey(r) \in Path)
          BY <2>3, <4>1 DEF Fill, InHand
        <4>. QED BY <2>1, <4>2
      <3>. QED BY <3>1, <3>2
    <2>4. ASSUME pc' \in {"create", "fill"}, Source[rec'] = "reprov"
          PROVE  Verdict(rec)' = "ok"
      <3>1. Plan \/ Read \/ Create \/ \E p \in Path : OtherProgram(p)
        BY <1>2, <2>4, BackToPlanner DEF Next, Step, Fill, SidecarCreate
      <3>2. rec' = rec
        BY <2>4, <3>1 DEF Plan, Read, Create, OtherProgram, pass, GiveUp
      <3>3. Verdict(rec)' = Verdict(rec) BY <2>0, <3>2, HandStable
      <3>4. CASE Plan BY <2>4, <3>2, <3>4 DEF Plan, Streams
      <3>5. CASE Read BY <2>4, <3>3, <3>5 DEF Read, GiveUp
      <3>6. CASE Create \/ \E p \in Path : OtherProgram(p)
        <4>1. pc \in {"create", "fill"} BY <2>4, <3>6 DEF Create, OtherProgram
        <4>. QED BY <2>4, <3>2, <3>3, <4>1 DEF Earned
      <3>. QED BY <3>1, <3>4, <3>5, <3>6
    <2>. QED BY <2>1, <2>2, <2>3, <2>4 DEF Earned
  <1>. QED BY <1>1, <1>2

\* The file being written is the writer's own until the write ends.
LEMMA OwnFileStep ==
    ASSUME TypeOK, InHand, OwnFile, Next
    PROVE  OwnFile'
  <1>0. disk \in [Path -> Content] BY DEF TypeOK, Content
  <1>1. ASSUME pc' = "fill" PROVE (disk[DestKey(rec)] = Partial(rec))'
    <2>1. Create \/ \E p \in Path : OtherProgram(p)
      BY <1>1, BackToPlanner DEF Next, Step, Plan, Read, GiveUp, Fill, SidecarCreate
    <2>2. UNCHANGED <<cmd, held, rec>> BY <2>1 DEF Create, OtherProgram, pass, world
    <2>3. DestKey(rec)' = DestKey(rec) BY <2>2, HandStable
    <2>4. CASE Create
      <3>1. rec \in Rec /\ DestKey(rec) \in Path BY <2>4 DEF Create, InHand
      <3>2. WithDirs(DestKey(rec)) \in [Path -> Content] BY <1>0, <3>1, DirsTyped
      <3>3. disk'[DestKey(rec)] = Partial(rec) BY <2>4, <3>1, <3>2 DEF Create
      <3>. QED BY <2>2, <2>3, <3>3 DEF Partial
    <2>5. ASSUME NEW p \in Path, OtherProgram(p) PROVE (disk[DestKey(rec)] = Partial(rec))'
      <3>1. pc = "fill" BY <1>1, <2>5 DEF OtherProgram
      <3>2. rec \in Rec /\ DestKey(rec) \in Path BY <3>1 DEF InHand
      <3>3. disk[DestKey(rec)] = Partial(rec) BY <3>1 DEF OwnFile
      <3>4. p # DestKey(rec) BY <2>5, <3>2, <3>3, KindsDiffer DEF OtherProgram, CanCreate
      <3>5. disk'[DestKey(rec)] = disk[DestKey(rec)] BY <1>0, <2>5, <3>2, <3>4 DEF OtherProgram
      <3>. QED BY <2>2, <2>3, <3>3, <3>5 DEF Partial
    <2>. QED BY <2>1, <2>4, <2>5
  <1>2. ASSUME pc' = "sidecarFill" PROVE (disk[MetaKey(rec)] = Partial(rec))'
    <2>1. SidecarCreate \/ \E p \in Path : OtherProgram(p)
      BY <1>2, BackToPlanner DEF Next, Step, Plan, Read, GiveUp, Fill, Create
    <2>2. UNCHANGED <<cmd, held, rec>> BY <2>1 DEF SidecarCreate, OtherProgram, pass, world
    <2>3. MetaKey(rec)' = MetaKey(rec) BY <2>2, HandStable
    <2>4. CASE SidecarCreate
      <3>1. rec \in Rec /\ MetaKey(rec) \in Path BY <2>4 DEF SidecarCreate, InHand
      <3>3. disk'[MetaKey(rec)] = Partial(rec) BY <1>0, <2>4, <3>1 DEF SidecarCreate
      <3>. QED BY <2>2, <2>3, <3>3 DEF Partial
    <2>5. ASSUME NEW p \in Path, OtherProgram(p) PROVE (disk[MetaKey(rec)] = Partial(rec))'
      <3>1. pc = "sidecarFill" BY <1>2, <2>5 DEF OtherProgram
      <3>2. rec \in Rec /\ MetaKey(rec) \in Path BY <3>1 DEF InHand
      <3>3. disk[MetaKey(rec)] = Partial(rec) BY <3>1 DEF OwnFile
      <3>4. p # MetaKey(rec) BY <2>5, <3>2, <3>3, KindsDiffer DEF OtherProgram, CanCreate
      <3>5. disk'[MetaKey(rec)] = disk[MetaKey(rec)] BY <1>0, <2>5, <3>2, <3>4 DEF OtherProgram
      <3>. QED BY <2>2, <2>3, <3>3, <3>5 DEF Partial
    <2>. QED BY <2>1, <2>4, <2>5
  <1>. QED BY <1>1, <1>2 DEF OwnFile

\* The walk moves by one record at most, and only past a record it has settled
\* (a dry run settles nothing).
LEMMA WalkStep ==
    ASSUME TypeOK, InHand, Walked, Next, ~Start, Apply
    PROVE  /\ rec' = rec \/ (rec' = rec + 1 /\ rec \in Rec /\ fate'[rec] # "pending")
           /\ pc' \in {"sidecar", "sidecarFill"} => rec' = rec /\ fate'[rec] # "pending"
  <1>0. fate \in [Rec -> Fates] /\ held \in [Rec -> Readings] BY DEF TypeOK, Fates
  <1>1. \A f \in Causes \cup {"reprovisioned"} : f # "pending" BY DEF Causes, BadReadings
  <1>2. ASSUME NEW cause \in Causes, GiveUp(rec, cause), rec \in Rec
        PROVE  rec' = rec + 1 /\ fate'[rec] # "pending" /\ pc' = "classify"
    <2>1. rec' = rec + 1 /\ pc' = "classify" /\ fate'[rec] \in Causes \cup {"reprovisioned"}
      BY <1>2, GiveUpTyped
    <2>. QED BY <1>1, <2>1
  <1>3. CASE Refuse
    BY <1>0, <1>3 DEF Refuse
  <1>4. CASE Read
    <2>1. rec \in Rec BY <1>4 DEF Read, InHand
    <2>2. CASE Verdict(rec) = "ok" BY <1>4, <2>2 DEF Read
    <2>3. CASE Verdict(rec) # "ok"
      <3>1. Verdict(rec) \in Causes /\ GiveUp(rec, Verdict(rec))
        BY <1>0, <1>4, <2>1, <2>3, CausesTyped DEF Read
      <3>. QED BY <1>2, <2>1, <3>1
    <2>. QED BY <2>2, <2>3
  <1>5. CASE Discard
    <2>1. rec \in Rec BY <1>5 DEF Discard, InHand
    <2>2. CASE Verdict(rec) = "ok" BY <1>0, <1>5, <2>1, <2>2 DEF Discard
    <2>3. CASE Verdict(rec) # "ok"
      <3>1. Verdict(rec) \in Causes /\ GiveUp(rec, Verdict(rec))
        BY <1>0, <1>5, <2>1, <2>3, CausesTyped DEF Discard
      <3>. QED BY <1>2, <2>1, <3>1
    <2>. QED BY <2>2, <2>3
  <1>6. CASE CreateRefused \/ FillFails
    <2>1. rec \in Rec BY <1>6 DEF CreateRefused, FillFails, InHand
    <2>2. PICK cause \in FailureCauses(rec) : GiveUp(rec, cause)
      BY <1>6 DEF CreateRefused, FillFails
    <2>3. cause \in Causes BY <1>0, <2>1, <2>2, CausesTyped
    <2>. QED BY <1>2, <2>1, <2>2, <2>3
  <1>7. CASE Fill
    <2>1. rec \in Rec BY <1>7 DEF Fill, InHand
    <2>. QED BY <1>0, <1>7, <2>1 DEF Fill
  <1>8. CASE SidecarCreate \/ SidecarFill \/ SidecarFails
    <2>1. rec \in Rec /\ pc \in {"sidecar", "sidecarFill"}
      BY <1>8 DEF SidecarCreate, SidecarFill, SidecarFails, InHand
    <2>2. fate' = fate BY <1>8 DEF SidecarCreate, SidecarFill, SidecarFails, pass
    <2>3. fate[rec] # "pending" BY <2>1 DEF Walked
    <2>4. rec' = rec \/ (rec' = rec + 1 /\ pc' = "classify")
      BY <1>8 DEF SidecarCreate, SidecarFill, SidecarFails, pass
    <2>. QED BY <2>1, <2>2, <2>3, <2>4
  <1>9. CASE Plan \/ Create \/ Finish \/ Abort \/ Kill
    BY <1>9 DEF Plan, Create, Finish, Abort, Kill, pass
  <1>10. CASE \E p \in Path : OtherProgram(p)
    <2>1. UNCHANGED <<fate, rec, pc>> BY <1>10 DEF OtherProgram, pass
    <2>2. pc \in {"sidecar", "sidecarFill"} => rec \in Rec BY DEF InHand
    <2>. QED BY <2>1, <2>2 DEF Walked
  <1>. QED BY <1>3, <1>4, <1>5, <1>6, <1>7, <1>8, <1>9, <1>10 DEF Next, Step

\* An applied pass leaves no record behind it unsettled.
LEMMA WalkedStep ==
    ASSUME TypeOK, InHand, Walked, Next
    PROVE  Walked'
  <1>1. CASE Start
    <2>1. rec' = 1 /\ pc' = "classify" BY <1>1 DEF Start
    <2>2. \A r \in Rec : ~(r < 1) BY DEF Rec
    <2>. QED BY <2>1, <2>2 DEF Walked
  <1>2. CASE ~Start
    <2>1. SUFFICES ASSUME Apply', NEW r \in Rec,
                          r < rec' \/ (r = rec' /\ pc' \in {"sidecar", "sidecarFill"})
                   PROVE  fate'[r] # "pending"
      BY DEF Walked
    <2>2. Apply BY <1>2, <2>1, SamePass DEF Apply
    <2>3. /\ rec' = rec \/ (rec' = rec + 1 /\ rec \in Rec /\ fate'[rec] # "pending")
          /\ pc' \in {"sidecar", "sidecarFill"} => rec' = rec /\ fate'[rec] # "pending"
      BY <1>2, <2>2, WalkStep
    <2>4. r \in Int /\ rec \in Int BY RestoreAssumption DEF Rec, TypeOK
    <2>5. r < rec \/ r = rec BY <2>1, <2>3, <2>4
    <2>6. CASE r < rec
      <3>1. fate[r] # "pending" BY <2>2, <2>6 DEF Walked
      <3>. QED BY <1>2, <3>1, FateStep
    <2>7. CASE r = rec BY <2>1, <2>3, <2>4, <2>7
    <2>. QED BY <2>5, <2>6, <2>7
  <1>. QED BY <1>1, <1>2

\* A pass that is running has no status.
LEMMA NoStatusStep ==
    ASSUME NoStatusYet, Next
    PROVE  NoStatusYet'
  BY DEF NoStatusYet, Next, Step, Start, Refuse, Plan, Read, Create, CreateRefused, Fill,
         FillFails, Discard, SidecarCreate, SidecarFill, SidecarFails, Finish, Abort, Kill,
         OtherProgram, outcome

\* A restored value stays where it was put.
LEMMA RestoredStep ==
    ASSUME TypeOK, InHand, Earned, OwnFile, RestoredIsOnDisk, Next
    PROVE  RestoredIsOnDisk'
  <1>1. CASE Start
    <2>1. \A r \in Rec : fate'[r] = "pending" BY <1>1 DEF Start
    <2>. QED BY <2>1 DEF RestoredIsOnDisk
  <1>2. CASE ~Start
    <2>0. UNCHANGED <<cmd, held>> BY <1>2, SamePass
    <2>1. \A r \in Rec : DestKey(r)' = DestKey(r) BY <2>0, KeysStable
    <2>2. ASSUME cmd = "restore", NEW r \in Rec, fate'[r] = "restored"
          PROVE  disk'[DestKey(r)] = Value(r)
      <3>0. Sink = "file" BY <2>2 DEF Sink
      <3>1. CASE fate'[r] = fate[r]
        <4>1. disk[DestKey(r)] = Value(r) BY <2>2, <3>1 DEF RestoredIsOnDisk
        <4>2. DestKey(r) \in Path BY <2>2, <3>0, <3>1 DEF Earned
        <4>3. disk[DestKey(r)] # Absent /\ disk[DestKey(r)].what # "partial"
          BY <4>1, KindsDiffer
        <4>. QED BY <4>1, <4>2, <4>3, DiskStep
      <3>2. CASE fate'[r] # fate[r]
        <4>1. r = rec /\ Fill BY <1>2, <2>2, <3>0, <3>2, FateStep DEF Discard
        <4>2. DestKey(rec) \in Path BY <3>0, <4>1 DEF Fill, InHand
        <4>3. disk \in [Path -> Content] BY DEF TypeOK, Content
        <4>. QED BY <4>1, <4>2, <4>3 DEF Fill
      <3>. QED BY <3>1, <3>2
    <2>. QED BY <2>0, <2>1, <2>2 DEF RestoredIsOnDisk, Value
  <1>. QED BY <1>1, <1>2

\* Without kills, a partial file is found only under the write that owns it.
LEMMA AllOrNothingStep ==
    ASSUME TypeOK, InHand, OwnFile, AllOrNothing, Next
    PROVE  AllOrNothing'
  <1>. SUFFICES ASSUME ~killed', NEW p \in Path, disk'[p].what = "partial"
                PROVE  Owned(p)'
    BY DEF AllOrNothing
  <1>0. disk \in [Path -> Content] BY DEF TypeOK, Content
  <1>1. ~Kill /\ ~killed
    BY DEF Next, Step, Start, Refuse, Plan, Read, Create, CreateRefused, Fill, FillFails,
           Discard, SidecarCreate, SidecarFill, SidecarFails, Finish, Abort, Kill,
           OtherProgram, world
  <1>2. ASSUME disk'[p] = disk[p], ~Owned(p) PROVE FALSE
    BY <1>1, <1>2 DEF AllOrNothing
  <1>3. CASE Start \/ Refuse \/ Plan \/ Read \/ Discard \/ Finish \/ Abort
    <2>1. disk' = disk BY <1>3 DEF Start, Refuse, Plan, Read, Discard, Finish, Abort
    <2>2. ~Owned(p)
      BY <1>3 DEF Owned, Start, Refuse, Plan, Read, Discard, Finish, Abort
    <2>. QED BY <1>2, <2>1, <2>2
  <1>4. CASE Create
    <2>1. rec \in Rec /\ DestKey(rec) \in Path BY <1>4 DEF Create, InHand
    <2>2. WithDirs(DestKey(rec)) \in [Path -> Content] BY <1>0, <2>1, DirsTyped
    <2>3. ~Owned(p) BY <1>4 DEF Owned, Create
    <2>4. CASE p # DestKey(rec)
      <3>1. disk'[p] = WithDirs(DestKey(rec))[p] BY <1>4, <2>2, <2>4 DEF Create
      <3>2. disk'[p] = disk[p] \/ disk'[p] = Dir BY <1>0, <2>1, <3>1, DirsTyped
      <3>. QED BY <1>2, <2>1, <2>3, <3>2, KindsDiffer
    <2>5. CASE p = DestKey(rec)
      <3>1. UNCHANGED <<cmd, held, rec>> /\ pc' = "fill" BY <1>4 DEF Create, pass, world
      <3>2. DestKey(rec)' = DestKey(rec) BY <3>1, HandStable
      <3>. QED BY <2>5, <3>1, <3>2 DEF Owned
    <2>. QED BY <2>4, <2>5
  <1>5. CASE CreateRefused
    <2>1. rec \in Rec /\ DestKey(rec) \in Path BY <1>5 DEF CreateRefused, InHand
    <2>2. disk' = disk \/ disk' = WithDirs(DestKey(rec)) BY <1>5 DEF CreateRefused
    <2>3. ~Owned(p) BY <1>5 DEF Owned, CreateRefused
    <2>4. disk'[p] = disk[p] \/ disk'[p] = Dir BY <1>0, <2>1, <2>2, DirsTyped
    <2>. QED BY <1>2, <2>1, <2>3, <2>4, KindsDiffer
  <1>6. CASE Fill \/ FillFails
    <2>1. rec \in Rec /\ DestKey(rec) \in Path BY <1>6 DEF Fill, FillFails, InHand
    <2>2. disk'[DestKey(rec)] = Value(rec) \/ disk'[DestKey(rec)] = Absent
      BY <1>0, <1>6, <2>1 DEF Fill, FillFails
    <2>3. p # DestKey(rec) BY <2>1, <2>2, KindsDiffer
    <2>4. disk'[p] = disk[p] BY <1>0, <1>6, <2>3 DEF Fill, FillFails
    <2>5. ~Owned(p) BY <1>6, <2>3 DEF Owned, Fill, FillFails
    <2>. QED BY <1>2, <2>4, <2>5
  <1>7. CASE SidecarCreate
    <2>1. rec \in Rec /\ MetaKey(rec) \in Path BY <1>7 DEF SidecarCreate, InHand
    <2>2. ~Owned(p) BY <1>7 DEF Owned, SidecarCreate
    <2>3. p = MetaKey(rec) BY <1>0, <1>2, <1>7, <2>2 DEF SidecarCreate
    <2>4. UNCHANGED <<cmd, held, rec>> /\ pc' = "sidecarFill"
      BY <1>7 DEF SidecarCreate, pass, world
    <2>5. MetaKey(rec)' = MetaKey(rec) BY <2>4, HandStable
    <2>. QED BY <2>3, <2>4, <2>5 DEF Owned
  <1>8. CASE SidecarFill \/ SidecarFails
    <2>1. rec \in Rec /\ MetaKey(rec) \in Path /\ pc \in {"sidecar", "sidecarFill"}
      BY <1>8 DEF SidecarFill, SidecarFails, InHand
    <2>2. CASE pc = "sidecar"
      <3>1. disk' = disk BY <1>8, <2>2 DEF SidecarFill, SidecarFails
      <3>. QED BY <1>2, <2>2, <3>1 DEF Owned
    <2>3. CASE pc = "sidecarFill"
      <3>1. disk'[MetaKey(rec)] = Meta(rec) \/ disk'[MetaKey(rec)] = Absent
        BY <1>0, <1>8, <2>1, <2>3 DEF SidecarFill, SidecarFails
      <3>2. p # MetaKey(rec) BY <2>1, <3>1, KindsDiffer
      <3>3. disk'[p] = disk[p] BY <1>0, <1>8, <2>3, <3>2 DEF SidecarFill, SidecarFails
      <3>. QED BY <1>2, <2>3, <3>2, <3>3 DEF Owned
    <2>. QED BY <2>1, <2>2, <2>3
  <1>9. ASSUME NEW q \in Path, OtherProgram(q) PROVE Owned(p)'
    <2>1. disk' = [disk EXCEPT ![q] = Foreign] BY <1>9 DEF OtherProgram
    <2>2. p # q BY <1>0, <2>1 DEF Foreign
    <2>3. disk'[p] = disk[p] BY <1>0, <2>1, <2>2
    <2>4. Owned(p) BY <1>2, <2>3
    <2>5. UNCHANGED <<cmd, held, rec, pc>> BY <1>9 DEF OtherProgram, pass
    <2>6. DestKey(rec)' = DestKey(rec) /\ MetaKey(rec)' = MetaKey(rec) BY <2>5, HandStable
    <2>. QED BY <2>4, <2>5, <2>6 DEF Owned
  <1>. QED BY <1>1, <1>3, <1>4, <1>5, <1>6, <1>7, <1>8, <1>9 DEF Next, Step

\* The metadata of a restored record stays on disk, listed, or in the making.
LEMMA MetaKeptStep ==
    ASSUME TypeOK, InHand, Earned, OwnFile, MetaKept, Next
    PROVE  MetaKept'
  <1>1. CASE Start
    <2>1. \A r \in Rec : fate'[r] = "pending" BY <1>1 DEF Start
    <2>. QED BY <2>1 DEF MetaKept
  <1>2. CASE ~Start
    <2>0. UNCHANGED <<cmd, held>> BY <1>2, SamePass
    <2>1. \A r \in Rec : MetaKey(r)' = MetaKey(r) /\ KeepsMeta(r)' = KeepsMeta(r)
      BY <2>0, KeysStable
    <2>2. disk \in [Path -> Content] BY DEF TypeOK, Content
    <2>3. ASSUME NEW r \in Rec, fate'[r] = "restored", KeepsMeta(r)
          PROVE  \/ disk'[MetaKey(r)] = Meta(r)
                 \/ r \in unapplied'
                 \/ r = rec' /\ pc' \in {"sidecar", "sidecarFill"}
                 \/ pc' = "idle" /\ exit' = Killed
      <3>0. Sink = "file" BY <2>3 DEF KeepsMeta
      <3>1. CASE fate'[r] # fate[r]
        <4>1. r = rec /\ Fill BY <1>2, <2>3, <3>0, <3>1, FateStep DEF Discard
        <4>. QED BY <2>3, <4>1 DEF Fill
      <3>2. CASE fate'[r] = fate[r]
        <4>1. MetaKey(r) \in Path BY <2>3, <3>0, <3>2 DEF Earned
        <4>2. CASE disk[MetaKey(r)] = Meta(r)
          <5>1. Meta(r) # Absent /\ Meta(r).what # "partial" BY DEF Meta, Absent
          <5>. QED BY <4>1, <4>2, <5>1, DiskStep
        <4>3. CASE r \in unapplied
          BY <1>2, <4>3 DEF Next, Step, Refuse, Plan, Read, Create, CreateRefused, Fill,
             FillFails, Discard, SidecarCreate, SidecarFill, SidecarFails, Finish, Abort,
             Kill, OtherProgram, pass
        <4>4. CASE r = rec /\ pc \in {"sidecar", "sidecarFill"}
          <5>1. \/ SidecarCreate \/ SidecarFill \/ SidecarFails \/ Kill
                \/ \E p \in Path : OtherProgram(p)
            BY <1>2, <4>4 DEF Next, Step, Refuse, Plan, Read, Create, CreateRefused, Fill,
               FillFails, Discard, Finish, Abort
          <5>2. CASE SidecarFill
            BY <2>2, <4>1, <4>4, <5>2 DEF SidecarFill
          <5>3. CASE SidecarCreate \/ SidecarFails \/ Kill \/ \E p \in Path : OtherProgram(p)
            BY <4>4, <5>3 DEF SidecarCreate, SidecarFails, Kill, OtherProgram, pass
          <5>. QED BY <5>1, <5>2, <5>3
        <4>5. CASE pc = "idle" /\ exit = Killed
          <5>1. \E p \in Path : OtherProgram(p)
            BY <1>2, <4>5 DEF Next, Step, Refuse, Plan, Read, Create, CreateRefused, Fill,
               FillFails, Discard, SidecarCreate, SidecarFill, SidecarFails, Finish, Abort,
               Kill
          <5>. QED BY <4>5, <5>1 DEF OtherProgram, outcome
        <4>. QED BY <2>3, <3>2, <4>2, <4>3, <4>4, <4>5 DEF MetaKept
      <3>. QED BY <3>1, <3>2
    <2>. QED BY <2>1, <2>3 DEF MetaKept, Meta
  <1>. QED BY <1>1, <1>2

\* Status 0 is given only when every record has been settled in its favour.
LEMMA ZeroEarnedStep ==
    ASSUME TypeOK, Walked, NoStatusYet, ZeroEarned, Next
    PROVE  ZeroEarned'
  <1>1. CASE Finish
    <2>1. SUFFICES ASSUME exit' = 0, cmd = "restore", NEW r \in Rec
                   PROVE  fate[r] \in {"restored", "reprovisioned"}
      BY <1>1 DEF ZeroEarned, Finish, pass
    <2>2. RestoreExit = 0 /\ Apply BY <1>1, <2>1 DEF Finish, Apply
    <2>3. CheckedCode = 0 BY <2>2 DEF RestoreExit
    <2>4. PerRecordExit # 0 BY DEF PerRecordExit, ExitDangling, ExitUncoded
    <2>5. FoldPerRecordExit(runCode, PerRecordExit) # 0 BY <2>4 DEF FoldPerRecordExit
    <2>6. Failed = {} BY <2>2, <2>3, <2>5 DEF CheckedCode
    <2>7. With("conflict") = {} BY <2>2, <2>3 DEF RestoreExit, ExitUnwritten
    <2>8. r < rec BY <1>1, RestoreAssumption DEF Finish, Rec
    <2>9. fate[r] # "pending" BY <2>2, <2>8 DEF Walked
    <2>10. fate[r] \notin Causes /\ fate[r] # "conflict" BY <2>6, <2>7 DEF Failed, With
    <2>11. fate[r] \in Causes \cup {"pending", "conflict", "restored", "reprovisioned"}
      BY DEF TypeOK
    <2>. QED BY <2>9, <2>10, <2>11
  <1>2. CASE Start \/ Abort \/ Kill
    BY <1>2 DEF ZeroEarned, Start, Abort, Kill, Running, Killed, ExitUncoded,
                ExitUnverified, ExitIncomplete, ExitUsage, ExitUnreachable
  <1>3. CASE \E p \in Path : OtherProgram(p)
    BY <1>3 DEF ZeroEarned, OtherProgram, pass, outcome
  <1>4. CASE \/ Refuse \/ Plan \/ Read \/ Create \/ CreateRefused \/ Fill \/ FillFails
             \/ Discard \/ SidecarCreate \/ SidecarFill \/ SidecarFails
    <2>1. exit' = exit /\ pc # "idle"
      BY <1>4 DEF Refuse, Plan, Read, Create, CreateRefused, Fill, FillFails, Discard,
                  SidecarCreate, SidecarFill, SidecarFails, outcome
    <2>. QED BY <2>1 DEF ZeroEarned, NoStatusYet, Running
  <1>. QED BY <1>1, <1>2, <1>3, <1>4 DEF Next, Step

-----------------------------------------------------------------------------
\* The initial states satisfy the invariant.
LEMMA InitInv == Init => Inv
  <1>. SUFFICES ASSUME Init PROVE Inv OBVIOUS
  <1>1. disk \in [Path -> Content] BY ContentTyped DEF Init
  <1>2. fate \in [Rec -> Fates] /\ \A r \in Rec : fate[r] = "pending" BY DEF Init, Fates
  <1>3. /\ exit \in Nat /\ exit = Running /\ exit # 0 /\ receipt.exitCode \in Nat
        /\ integrityExit \in 0..ExitUnreachable
    BY DEF Init, Running, NoReceipt, ExitUnreachable
  <1>4. pc = "idle" /\ rec = 1 BY DEF Init
  <1>5. /\ passes \in 0..MaxPasses /\ others \in 0..MaxOthers /\ rec \in 1..(N + 1)
        /\ held \in [Rec -> Readings] /\ cmd \in AllCommands /\ runCode \in 0..5
    BY RestoreAssumption DEF Init, AllCommands
  <1>6. TypeOK BY <1>1, <1>2, <1>3, <1>4, <1>5 DEF TypeOK, Init, Fates, Content
  <1>7. AllOrNothing BY DEF AllOrNothing, Init, Absent
  <1>8. Walked BY <1>4 DEF Walked, Rec
  <1>9. InHand /\ OwnFile BY <1>4 DEF InHand, OwnFile
  <1>10. Earned BY <1>2, <1>4 DEF Earned
  <1>11. NoStatusYet /\ ZeroEarned BY <1>3 DEF NoStatusYet, ZeroEarned
  <1>12. RestoredIsOnDisk /\ MetaKept BY <1>2 DEF RestoredIsOnDisk, MetaKept
  <1>. QED BY <1>6, <1>7, <1>8, <1>9, <1>10, <1>11, <1>12 DEF Inv

\* Every step, and every stutter, keeps the invariant.
LEMMA StepInv == Inv /\ [Next]_vars => Inv'
  <1>1. ASSUME Inv, Next PROVE Inv'
    <2>1. /\ TypeOK /\ InHand /\ Earned /\ OwnFile /\ Walked /\ NoStatusYet
          /\ RestoredIsOnDisk /\ AllOrNothing /\ MetaKept /\ ZeroEarned
      BY <1>1 DEF Inv
    <2>2. TypeOK' /\ InHand' BY <1>1, <2>1, TypeStep, InHandStep
    <2>3. Earned' /\ OwnFile' BY <1>1, <2>1, EarnedStep, OwnFileStep
    <2>4. Walked' /\ NoStatusYet' BY <1>1, <2>1, WalkedStep, NoStatusStep
    <2>5. RestoredIsOnDisk' /\ AllOrNothing' BY <1>1, <2>1, RestoredStep, AllOrNothingStep
    <2>6. MetaKept' /\ ZeroEarned' BY <1>1, <2>1, MetaKeptStep, ZeroEarnedStep
    <2>. QED BY <2>2, <2>3, <2>4, <2>5, <2>6 DEF Inv
  <1>2. ASSUME Inv, UNCHANGED vars PROVE Inv'
    <2>0. /\ TypeOK /\ InHand /\ Earned /\ OwnFile /\ Walked /\ NoStatusYet
          /\ RestoredIsOnDisk /\ AllOrNothing /\ MetaKept /\ ZeroEarned
      BY <1>2 DEF Inv
    <2>. USE <1>2 DEF vars
    <2>1. Sink' = Sink /\ Apply' = Apply BY DEF Sink, Apply
    <2>2. /\ DestKey(rec)' = DestKey(rec) /\ MetaKey(rec)' = MetaKey(rec)
          /\ KeepsMeta(rec)' = KeepsMeta(rec) /\ Verdict(rec)' = Verdict(rec)
      BY HandStable
    <2>3. \A r \in Rec : /\ DestKey(r)' = DestKey(r) /\ MetaKey(r)' = MetaKey(r)
                         /\ KeepsMeta(r)' = KeepsMeta(r) /\ Verdict(r)' = Verdict(r)
      BY KeysStable
    <2>4. \A p \in Path : Owned(p)' = Owned(p) BY <2>2 DEF Owned
    <2>5. TypeOK' BY <2>0 DEF TypeOK
    <2>6. InHand' BY <2>0, <2>1, <2>2 DEF InHand
    <2>7. Earned' BY <2>0, <2>1, <2>2, <2>3 DEF Earned
    <2>8. OwnFile' BY <2>0, <2>2 DEF OwnFile, Partial
    <2>9. Walked' /\ NoStatusYet' /\ ZeroEarned'
      BY <2>0, <2>1 DEF Walked, NoStatusYet, ZeroEarned
    <2>10. RestoredIsOnDisk' BY <2>0, <2>3 DEF RestoredIsOnDisk, Value
    <2>11. AllOrNothing' BY <2>0, <2>4 DEF AllOrNothing
    <2>12. MetaKept' BY <2>0, <2>3 DEF MetaKept, Meta
    <2>. QED BY <2>5, <2>6, <2>7, <2>8, <2>9, <2>10, <2>11, <2>12 DEF Inv
  <1>. QED BY <1>1, <1>2

\* The invariant holds throughout every behaviour.
LEMMA Invariance == Spec => []Inv
  BY InitInv, StepInv, PTL DEF Spec

\* Every variable keeps its type in every run of any length, on any layout of the
\* output directory.
THEOREM TypeCorrect == Spec => []TypeOK
  <1>1. Inv => TypeOK BY DEF Inv
  <1>. QED BY <1>1, Invariance, PTL

\* No pass changes or removes a file it is not itself in the middle of writing:
\* not another program's, not an earlier pass's, not one of its own.
THEOREM NeverClobbers == Spec => NoClobber
  <1>1. ASSUME Inv, [Next]_vars
        PROVE  [\A p \in Path : disk[p] # Absent /\ ~Owned(p) => disk'[p] = disk[p]]_vars
    <2>1. TypeOK /\ InHand /\ OwnFile BY <1>1 DEF Inv
    <2>. QED BY <1>1, <2>1, DiskStep
  <1>. QED BY <1>1, Invariance, PTL DEF Spec, NoClobber

\* A record counted as restored has its own verified value on disk from then on.
THEOREM RestoredAlwaysOnDisk == Spec => []RestoredIsOnDisk
  <1>1. Inv => RestoredIsOnDisk BY DEF Inv
  <1>. QED BY <1>1, Invariance, PTL

\* As long as no process is killed, a failed write leaves nothing behind.
THEOREM WritesAllOrNothing == Spec => []AllOrNothing
  <1>1. Inv => AllOrNothing BY DEF Inv
  <1>. QED BY <1>1, Invariance, PTL

\* Exit status 0 of an applied restore means that the whole run is on disk.
THEOREM ZeroMeansRestored == Spec => []ExitZeroMeansRestored
  <1>1. ASSUME Inv PROVE ExitZeroMeansRestored
    <2>1. SUFFICES ASSUME exit = 0, cmd = "restore", NEW r \in Rec
                   PROVE  \/ disk[DestKey(r)] = Value(r)
                          \/ Source[r] = "reprov" /\ Verdict(r) = "ok"
      BY DEF ExitZeroMeansRestored
    <2>2. fate[r] \in {"restored", "reprovisioned"} BY <1>1, <2>1 DEF Inv, ZeroEarned
    <2>3. CASE fate[r] = "restored" BY <1>1, <2>1, <2>3 DEF Inv, RestoredIsOnDisk
    <2>4. CASE fate[r] = "reprovisioned" BY <1>1, <2>4 DEF Inv, Earned
    <2>. QED BY <2>2, <2>3, <2>4
  <1>. QED BY <1>1, Invariance, PTL

\* The metadata of a restored record is on disk or listed as not applied, whenever
\* a pass has ended by itself.
THEOREM MetadataAlwaysAccounted == Spec => []MetadataAccounted
  <1>1. ASSUME Inv PROVE MetadataAccounted
    <2>1. MetaKept BY <1>1 DEF Inv
    <2>. QED BY <2>1 DEF MetaKept, MetadataAccounted
  <1>. QED BY <1>1, Invariance, PTL

-----------------------------------------------------------------------------
(***************************************************************************)
(* The exit status and the receipt.  Result.IntegrityExit remembers that a *)
(* check failed, whatever fails after it; a dry run has no failures; the   *)
(* receipt is written by the step that ends the pass.                      *)
(***************************************************************************)
Remembered ==
    /\ integrityExit \in {0, ExitUnverified, ExitPlaintext, ExitUnreachable}
    /\ With("altered") \cup With("mismatch") # {} => integrityExit # 0
    /\ ~Apply => Failed = {}
    /\ runCode \in {0, 2, 3, 4, 5}
    /\ pc # "idle" => receipt = NoReceipt

VerdictInv == Remembered /\ FindingNotSoftened /\ ReceiptMatchesExit

\* A step that records nothing of any record.
LEMMA QuietRemembered ==
    ASSUME Remembered, UNCHANGED <<cmd, fate, integrityExit, runCode, receipt>>,
           pc = "idle" => pc' = "idle"
    PROVE  Remembered'
  BY DEF Remembered, With, Failed, Apply

\* Giving up on a record keeps a finding in mind, its own or an earlier one.
LEMMA GiveUpRemembered ==
    ASSUME TypeOK, Remembered, Apply, rec \in Rec, NEW cause \in Causes, GiveUp(rec, cause),
           UNCHANGED <<cmd, runCode, receipt>>, pc # "idle"
    PROVE  Remembered'
  <1>1. fate \in [Rec -> Fates] BY DEF TypeOK, Fates
  <1>2. Apply' BY DEF Apply
  <1>3. CASE cause = "write" /\ Source[rec] = "reprov"
    <2>1. fate' = [fate EXCEPT ![rec] = "reprovisioned"] /\ integrityExit' = integrityExit
      BY <1>3 DEF GiveUp
    <2>2. \A r \in Rec : fate'[r] \in {"altered", "mismatch"} => fate[r] \in {"altered", "mismatch"}
      BY <1>1, <2>1
    <2>. QED BY <1>2, <2>1, <2>2 DEF Remembered, With
  <1>4. CASE ~(cause = "write" /\ Source[rec] = "reprov")
    <2>1. /\ fate' = [fate EXCEPT ![rec] = cause]
          /\ integrityExit' = Larger(CodeOf(cause), integrityExit)
      BY <1>4 DEF GiveUp
    <2>2. \A r \in Rec : fate'[r] = IF r = rec THEN cause ELSE fate[r] BY <1>1, <2>1
    <2>3. /\ CodeOf(cause) \in {0, ExitUnverified, ExitPlaintext, ExitUnreachable}
          /\ cause \in {"altered", "mismatch"} => CodeOf(cause) # 0
      BY DEF CodeOf, ExitUnverified, ExitPlaintext, ExitUnreachable
    <2>4. /\ integrityExit' \in {0, ExitUnverified, ExitPlaintext, ExitUnreachable}
          /\ CodeOf(cause) # 0 \/ integrityExit # 0 => integrityExit' # 0
      BY <2>1, <2>3 DEF Remembered, Larger, ExitUnverified, ExitPlaintext, ExitUnreachable
    <2>5. With("altered")' \cup With("mismatch")' # {} =>
              cause \in {"altered", "mismatch"} \/ With("altered") \cup With("mismatch") # {}
      BY <2>2 DEF With
    <2>. QED BY <1>2, <2>3, <2>4, <2>5 DEF Remembered
  <1>. QED BY <1>3, <1>4

\* A record that is refused or restored is no failure.
LEMMA SettleRemembered ==
    ASSUME TypeOK, Remembered, NEW f \in {"conflict", "restored"},
           fate' = [fate EXCEPT ![rec] = f], pc # "idle",
           UNCHANGED <<cmd, integrityExit, runCode, receipt>>
    PROVE  Remembered'
  <1>1. fate \in [Rec -> Fates] BY DEF TypeOK, Fates
  <1>2. f \notin Causes BY DEF Causes, BadReadings
  <1>3. \A r \in Rec : fate'[r] \in Causes => fate'[r] = fate[r] BY <1>1, <1>2
  <1>4. {"altered", "mismatch"} \subseteq Causes BY DEF Causes, BadReadings
  <1>5. /\ With("altered")' \subseteq With("altered") /\ With("mismatch")' \subseteq With("mismatch")
        /\ Failed' \subseteq Failed
    BY <1>3, <1>4 DEF With, Failed
  <1>6. Apply' = Apply BY DEF Apply
  <1>. QED BY <1>5, <1>6 DEF Remembered

\* The steps between the start and the end of a pass.
LEMMA WorkingRemembered ==
    ASSUME TypeOK, InHand, Remembered,
           \/ Refuse \/ Plan \/ Read \/ Create \/ CreateRefused \/ Fill \/ FillFails
           \/ Discard \/ SidecarCreate \/ SidecarFill \/ SidecarFails
    PROVE  Remembered' /\ pc # "idle" /\ pc' # "idle"
  <1>0. held \in [Rec -> Readings] BY DEF TypeOK
  <1>1. CASE Refuse
    BY <1>1, SettleRemembered DEF Refuse, outcome
  <1>2. CASE Plan \/ Create \/ SidecarCreate \/ SidecarFill \/ SidecarFails
    BY <1>2, QuietRemembered DEF Plan, Create, SidecarCreate, SidecarFill, SidecarFails, pass, outcome
  <1>3. CASE Read
    <2>1. rec \in Rec /\ Apply /\ pc # "idle" BY <1>3 DEF Read, InHand
    <2>2. CASE Verdict(rec) = "ok"
      BY <1>3, <2>2, QuietRemembered DEF Read, outcome
    <2>3. CASE Verdict(rec) # "ok"
      <3>1. Verdict(rec) \in Causes BY <1>0, <2>1, <2>3, CausesTyped
      <3>2. GiveUp(rec, Verdict(rec)) /\ UNCHANGED <<cmd, runCode, receipt>>
        BY <1>3, <2>3 DEF Read, outcome
      <3>. QED BY <2>1, <3>1, <3>2, GiveUpRemembered DEF GiveUp
    <2>. QED BY <2>2, <2>3
  <1>4. CASE CreateRefused \/ FillFails
    <2>1. rec \in Rec /\ Apply /\ pc # "idle" BY <1>4 DEF CreateRefused, FillFails, InHand
    <2>2. PICK cause \in FailureCauses(rec) : GiveUp(rec, cause)
      BY <1>4 DEF CreateRefused, FillFails
    <2>3. cause \in Causes BY <1>0, <2>1, <2>2, CausesTyped
    <2>4. UNCHANGED <<cmd, runCode, receipt>> BY <1>4 DEF CreateRefused, FillFails, outcome
    <2>. QED BY <2>1, <2>2, <2>3, <2>4, GiveUpRemembered DEF GiveUp
  <1>5. CASE Fill
    BY <1>5, SettleRemembered DEF Fill, outcome
  <1>6. CASE Discard
    <2>1. rec \in Rec /\ Apply /\ pc # "idle" BY <1>6 DEF Discard, InHand
    <2>2. CASE Verdict(rec) = "ok"
      BY <1>6, <2>2, SettleRemembered DEF Discard, outcome
    <2>3. CASE Verdict(rec) # "ok"
      <3>1. Verdict(rec) \in Causes BY <1>0, <2>1, <2>3, CausesTyped
      <3>2. GiveUp(rec, Verdict(rec)) /\ UNCHANGED <<cmd, runCode, receipt>>
        BY <1>6, <2>3 DEF Discard, outcome
      <3>. QED BY <2>1, <3>1, <3>2, GiveUpRemembered DEF GiveUp
    <2>. QED BY <2>2, <2>3
  <1>. QED BY <1>1, <1>2, <1>3, <1>4, <1>5, <1>6

\* The status and the receipt a pass ends with: a failure makes the code non-zero,
\* a finding makes it one of the codes of a failed check.
LEMMA CodeIsHonest ==
    ASSUME Remembered, Failed # {}
    PROVE  /\ CheckedCode # 0 /\ Apply
           /\ With("altered") \cup With("mismatch") # {} =>
                  CheckedCode \notin {ExitUncoded, ExitIncompleteMarkers, ExitUnwritten,
                                      ExitUnrenderable, ExitDangling}
  <1>. USE DEF ExitUncoded, ExitUnverified, ExitPlaintext, ExitUnreachable, ExitDangling,
         ExitIncompleteMarkers, ExitUnwritten, ExitUnrenderable
  <1>1. Apply BY DEF Remembered
  <1>2. CheckedCode = FoldPerRecordExit(runCode, PerRecordExit) BY <1>1 DEF CheckedCode
  <1>3. PerRecordExit \in {1, 2, 4, 11, 13} BY DEF PerRecordExit, Remembered
  <1>4. CheckedCode # 0 BY <1>2, <1>3 DEF FoldPerRecordExit
  <1>5. ASSUME With("altered") \cup With("mismatch") # {}
        PROVE  CheckedCode \in {2, 3, 4, 5, 11}
    <2>1. PICK r \in Rec : fate[r] \in {"altered", "mismatch"} BY <1>5 DEF With
    <2>2. r \in Failed /\ r \notin With("absent") BY <2>1 DEF Failed, With, Causes, BadReadings
    <2>3. ~DanglingOnly BY <2>2 DEF DanglingOnly
    <2>4. integrityExit \in {2, 4, 11} BY <1>5 DEF Remembered
    <2>5. PerRecordExit \in {2, 4, 11} BY <2>3, <2>4 DEF PerRecordExit
    <2>. QED BY <1>2, <2>5 DEF FoldPerRecordExit, Remembered
  <1>. QED BY <1>1, <1>4, <1>5

LEMMA FinishVerdict ==
    ASSUME VerdictInv, Finish
    PROVE  VerdictInv'
  <1>1. UNCHANGED <<cmd, fate, integrityExit, runCode>> /\ pc' = "idle" BY DEF Finish, pass
  <1>2. /\ With("altered")' = With("altered") /\ With("mismatch")' = With("mismatch")
        /\ Failed' = Failed /\ Apply' = Apply
    BY <1>1 DEF With, Failed, Apply
  <1>3. Remembered' BY <1>1, <1>2 DEF VerdictInv, Remembered
  <1>4. ASSUME Failed # {}
        PROVE  exit' = CheckedCode /\ receipt'.exitCode = CheckedCode /\ receipt'.completeness # "complete"
    <2>1. CheckedCode # 0 /\ Apply BY <1>4, CodeIsHonest DEF VerdictInv
    <2>2. RestoreExit = CheckedCode /\ VerifyExit = CheckedCode BY <2>1 DEF RestoreExit, VerifyExit
    <2>3. Completeness # "complete" BY <1>4 DEF Completeness
    <2>. QED BY <2>2, <2>3 DEF Finish, ReceiptCode
  <1>5. ReceiptMatchesExit' BY <1>2, <1>4 DEF ReceiptMatchesExit
  <1>6. FindingNotSoftened'
    <2>1. SUFFICES ASSUME With("altered") \cup With("mismatch") # {}
                   PROVE  exit' \notin {0, ExitUncoded, ExitIncompleteMarkers, ExitUnwritten,
                                        ExitUnrenderable, ExitDangling}
      BY <1>2 DEF FindingNotSoftened
    <2>2. Failed # {} BY <2>1 DEF With, Failed, Causes, BadReadings
    <2>. QED BY <1>4, <2>1, <2>2, CodeIsHonest DEF VerdictInv
  <1>. QED BY <1>3, <1>5, <1>6 DEF VerdictInv

LEMMA InitVerdict == Init => VerdictInv
  BY DEF Init, VerdictInv, Remembered, FindingNotSoftened, ReceiptMatchesExit, With, Failed,
     Causes, BadReadings, Apply

LEMMA NextVerdict == Inv /\ VerdictInv /\ [Next]_vars => VerdictInv'
  <1>. SUFFICES ASSUME Inv, VerdictInv, [Next]_vars PROVE VerdictInv' OBVIOUS
  <1>0. TypeOK /\ InHand /\ Remembered BY DEF Inv, VerdictInv
  <1>1. CASE Start
    <2>1. /\ receipt' = NoReceipt /\ integrityExit' = 0 /\ fate' = [r \in Rec |-> "pending"]
          /\ runCode' \in {0, 2, 3, 4, 5}
      BY <1>1, RestoreAssumption DEF Start
    <2>. QED
      BY <2>1 DEF VerdictInv, Remembered, FindingNotSoftened, ReceiptMatchesExit, With, Failed,
         Causes, BadReadings
  <1>2. CASE \/ Refuse \/ Plan \/ Read \/ Create \/ CreateRefused \/ Fill \/ FillFails
             \/ Discard \/ SidecarCreate \/ SidecarFill \/ SidecarFails
    <2>1. Remembered' /\ pc' # "idle" BY <1>0, <1>2, WorkingRemembered
    <2>2. receipt' = NoReceipt BY <2>1 DEF Remembered
    <2>. QED BY <2>1, <2>2 DEF VerdictInv, FindingNotSoftened, ReceiptMatchesExit
  <1>3. CASE Finish BY <1>3, FinishVerdict
  <1>4. CASE Abort \/ Kill
    <2>1. UNCHANGED <<cmd, fate, integrityExit, runCode, receipt>> /\ pc # "idle"
      BY <1>4 DEF Abort, Kill, pass
    <2>2. Remembered' BY <1>0, <2>1, QuietRemembered
    <2>3. receipt' = NoReceipt BY <1>0, <2>1 DEF Remembered
    <2>. QED BY <2>2, <2>3 DEF VerdictInv, FindingNotSoftened, ReceiptMatchesExit
  <1>5. CASE (\E p \in Path : OtherProgram(p)) \/ UNCHANGED vars
    <2>1. UNCHANGED <<cmd, fate, integrityExit, runCode, receipt, exit, pc>>
      BY <1>5 DEF OtherProgram, pass, outcome, vars
    <2>2. Remembered' BY <1>0, <2>1, QuietRemembered
    <2>. QED BY <2>1, <2>2 DEF VerdictInv, FindingNotSoftened, ReceiptMatchesExit, With, Failed
  <1>. QED BY <1>1, <1>2, <1>3, <1>4, <1>5 DEF Next, Step

\* A tag or a hash that failed is never reported with one of the milder codes,
\* whatever else failed before or after it in the pass (perRecordExit).
THEOREM FindingNeverSoftened == Spec => []FindingNotSoftened
  <1>1. VerdictInv => FindingNotSoftened BY DEF VerdictInv
  <1>. QED BY <1>1, InitVerdict, NextVerdict, Invariance, PTL DEF Spec

\* When records failed, the receipt says what the exit status says, and never that
\* the run is complete.
THEOREM ReceiptAlwaysMatches == Spec => []ReceiptMatchesExit
  <1>1. VerdictInv => ReceiptMatchesExit BY DEF VerdictInv
  <1>. QED BY <1>1, InitVerdict, NextVerdict, Invariance, PTL DEF Spec

=============================================================================
