--------------------------- MODULE OpenRunProofs ---------------------------
(***************************************************************************)
(* Proofs about opening a run, for any number of downpipes and runs, any   *)
(* pin, any layout of shards and any recipient lists.                      *)
(***************************************************************************)
EXTENDS OpenRun, MerkleProofs, FiniteSetTheorems, TLAPS

Run == [dp : Downpipes, prev : Nat]
Entry == [run : Nat, dp : Downpipes, idx : Nat, prev : Nat]

-----------------------------------------------------------------------------
(***************************************************************************)
(* The log the engine writes.                                              *)
(***************************************************************************)
EngTyped ==
    /\ eng \in [next : Nat, inFlight : [Downpipes -> Nat], last : [Downpipes -> Nat],
                runs : Seq(Run)]
    /\ eng.next = Len(eng.runs) + 1
    /\ log \in [parses : BOOLEAN, entries : Seq(Entry)]

\* The log holds the run r.
InLog(r) == \E i \in DOMAIN log.entries : log.entries[i].run = r

\* An entry says of its run what the engine knows of it, and is the only one.
EntriesTrue ==
    /\ \A i \in DOMAIN log.entries :
          /\ log.entries[i].run \in DOMAIN eng.runs
          /\ log.entries[i] = EntryFor(log.entries[i].run)
    /\ \A i, j \in DOMAIN log.entries : log.entries[i].run = log.entries[j].run => i = j

\* A run names the run of its downpipe next before it, which is in the log.
ChainTrue ==
    \A r \in DOMAIN eng.runs :
        LET p == eng.runs[r].prev
        IN  /\ p < r
            /\ p # NoRun => p \in DOMAIN eng.runs /\ eng.runs[p].dp = eng.runs[r].dp /\ InLog(p)
            /\ \A q \in DOMAIN eng.runs : eng.runs[q].dp = eng.runs[r].dp => q <= p \/ r <= q

\* A downpipe has at most one run in flight, its newest, which is not in the log yet;
\* the last one it finished is in the log and newer than all others.
FlightTrue ==
    \A d \in Downpipes :
        LET f == eng.inFlight[d]
            l == eng.last[d]
        IN  /\ f # NoRun => f \in DOMAIN eng.runs /\ eng.runs[f].dp = d /\ ~InLog(f)
            /\ l # NoRun => l \in DOMAIN eng.runs /\ eng.runs[l].dp = d /\ InLog(l)
            /\ \A q \in DOMAIN eng.runs : eng.runs[q].dp = d => q <= l \/ q = f
            /\ f # NoRun => \A q \in DOMAIN eng.runs : eng.runs[q].dp = d => q <= f

HonestLog == EngTyped /\ EntriesTrue /\ ChainTrue /\ FlightTrue

\* As long as nobody else has touched the log.
EngineInv == rewritten = "no" => HonestLog

\* The fields of an entry.
LEMMA EntryFacts ==
    ASSUME HonestLog, NEW i \in DOMAIN log.entries
    PROVE  LET e == log.entries[i]
           IN  /\ e.run \in DOMAIN eng.runs /\ e.run \in Nat
               /\ e.idx = e.run /\ e.dp = eng.runs[e.run].dp
               /\ e.prev = eng.runs[e.run].prev /\ e.prev \in Nat
<1> DEFINE e == log.entries[i]
<1>1. e \in Entry
  BY DEF HonestLog, EngTyped
<1>2. e.run \in DOMAIN eng.runs /\ e = EntryFor(e.run)
  BY DEF HonestLog, EntriesTrue
<1>3. e.idx = e.run /\ e.dp = eng.runs[e.run].dp /\ e.prev = eng.runs[e.run].prev
  BY <1>2 DEF EntryFor
<1> QED
  BY <1>1, <1>2, <1>3 DEF Entry

\* An honest log passes the four checks of detectChainAnomaly.
LEMMA HonestIsSound == HonestLog => ~ChainAnomaly(log.entries)
<1> SUFFICES ASSUME HonestLog PROVE ~ChainAnomaly(log.entries)
  OBVIOUS
<1> DEFINE e == log.entries
<1>0. /\ log.entries \in Seq(Entry) /\ eng.runs \in Seq(Run)
  BY DEF HonestLog, EngTyped
<1>1. \A i \in DOMAIN e : /\ e[i].run \in DOMAIN eng.runs /\ e[i].run \in Nat
                          /\ e[i].idx = e[i].run /\ e[i].dp = eng.runs[e[i].run].dp
                          /\ e[i].prev = eng.runs[e[i].run].prev /\ e[i].prev \in Nat
  BY EntryFacts
<1>2. \A i, j \in DOMAIN e : e[i].run = e[j].run => i = j
  BY DEF HonestLog, EntriesTrue
<1>3. ~DuplicateIndex(e)
  BY <1>1, <1>2 DEF DuplicateIndex
<1>4. ~Dangling(e)
  BY <1>1 DEF Dangling, HonestLog, ChainTrue, InLog
<1>5. ASSUME NEW i \in DOMAIN e, NEW j \in DOMAIN e, Precedes(e, j, i)
      PROVE  e[i].prev = e[j].run
  <2>1. e[j].run <= e[i].prev
    BY <1>1, <1>5 DEF Precedes, HonestLog, ChainTrue
  <2>2. CASE e[j].run < e[i].prev
    <3>1. e[i].prev # NoRun /\ e[i].prev < e[i].run
      BY <2>2, <1>1 DEF NoRun, HonestLog, ChainTrue
    <3>2. PICK k \in DOMAIN e : e[k].run = e[i].prev
      BY <3>1, <1>1 DEF HonestLog, ChainTrue, InLog
    <3>3. e[k].dp = e[i].dp
      BY <3>1, <3>2, <1>1 DEF HonestLog, ChainTrue
    <3> QED
      BY <3>1, <3>2, <3>3, <2>2, <1>1, <1>5 DEF Precedes
  <2> QED
    BY <2>1, <2>2, <1>1
<1>6. ~BrokenChain(e)
  BY <1>5 DEF BrokenChain
<1>7. ASSUME NEW i \in DOMAIN e, NEW j \in DOMAIN e, i # j, e[i].prev # NoRun, e[i].prev = e[j].prev
      PROVE  FALSE
  <2>1. e[i].run # e[j].run
    BY <1>2, <1>7
  <2>2. e[i].dp = e[j].dp
    BY <1>1, <1>7 DEF HonestLog, ChainTrue
  <2>3. /\ e[i].prev < e[i].run /\ e[j].prev < e[j].run
        /\ e[i].run <= e[j].prev \/ e[j].run <= e[i].run
        /\ e[j].run <= e[i].prev \/ e[i].run <= e[j].run
    BY <2>2, <1>1 DEF HonestLog, ChainTrue
  <2> QED
    BY <2>1, <2>3, <1>1, <1>7
<1>8. ~Forked(e)
  BY <1>7 DEF Forked
<1> QED
  BY <1>3, <1>4, <1>6, <1>8 DEF ChainAnomaly

LEMMA InitHonest == Init => EngineInv
<1> SUFFICES ASSUME Init PROVE HonestLog
  BY DEF EngineInv
<1>1. EngTyped
  BY DEF Init, EngTyped, NoRun, Run, Entry
<1>2. log.entries = <<>> /\ eng.runs = <<>>
  BY DEF Init
<1> QED
  BY <1>1, <1>2 DEF Init, HonestLog, EntriesTrue, ChainTrue, FlightTrue, NoRun

\* A run begins (the engine).
LEMMA TriggerHonest ==
    ASSUME HonestLog, NEW d \in Downpipes, Trigger(d)
    PROVE  HonestLog'
<1> DEFINE n == eng.next
           new == [dp |-> d, prev |-> eng.last[d]]
<1>0. /\ eng \in [next : Nat, inFlight : [Downpipes -> Nat], last : [Downpipes -> Nat],
                  runs : Seq(Run)]
      /\ eng.next = Len(eng.runs) + 1 /\ log.entries \in Seq(Entry) /\ eng.runs \in Seq(Run)
      /\ eng.last[d] \in Nat
  BY DEF HonestLog, EngTyped
<1>1. /\ eng'.next = n + 1 /\ eng'.inFlight = [eng.inFlight EXCEPT ![d] = n]
      /\ eng'.last = eng.last /\ eng'.runs = Append(eng.runs, new) /\ log' = log
      /\ eng.inFlight[d] = NoRun
  BY <1>0 DEF Trigger
<1>2. new \in Run
  BY <1>0 DEF Run
<1>3. EngTyped'
  <2>1. eng' = [eng EXCEPT !.next = n + 1, !.inFlight[d] = n, !.runs = Append(eng.runs, new)]
    BY DEF Trigger
  <2>2. Append(eng.runs, new) \in Seq(Run) /\ n + 1 \in Nat /\ Len(Append(eng.runs, new)) = n
    BY <1>0, <1>2
  <2>3. [eng.inFlight EXCEPT ![d] = n] \in [Downpipes -> Nat]
    BY <1>0
  <2>4. eng' = [next |-> n + 1, inFlight |-> [eng.inFlight EXCEPT ![d] = n],
                last |-> eng.last, runs |-> Append(eng.runs, new)]
    BY <2>1, <1>0
  <2>5. eng.last \in [Downpipes -> Nat]
    BY <1>0
  <2> HIDE DEF new
  <2>6. eng' \in [next : Nat, inFlight : [Downpipes -> Nat], last : [Downpipes -> Nat],
                  runs : Seq(Run)]
    BY <2>2, <2>3, <2>4, <2>5
  <2> QED
    BY <2>2, <2>6, <1>1 DEF HonestLog, EngTyped
<1>4. /\ DOMAIN eng'.runs = DOMAIN eng.runs \cup {n} /\ n \notin DOMAIN eng.runs
      /\ eng'.runs[n] = new /\ n \in Nat
      /\ \A r \in DOMAIN eng.runs : eng'.runs[r] = eng.runs[r] /\ r < n /\ r \in Nat
  BY <1>0, <1>1, <1>2
<1>5. EntriesTrue'
  BY <1>1, <1>4 DEF HonestLog, EntriesTrue, EntryFor
<1>6. /\ \A q \in DOMAIN eng.runs : eng.runs[q].dp = d => q <= eng.last[d]
      /\ eng.last[d] # NoRun => /\ eng.last[d] \in DOMAIN eng.runs
                                /\ eng.runs[eng.last[d]].dp = d /\ InLog(eng.last[d])
      /\ eng.last[d] < n
  <2>1. \A q \in DOMAIN eng.runs : eng.runs[q].dp = d => q <= eng.last[d] \/ q = NoRun
    BY <1>1 DEF HonestLog, FlightTrue
  <2>2. \A q \in DOMAIN eng.runs : q # NoRun
    BY <1>0 DEF NoRun
  <2> QED
    BY <2>1, <2>2, <1>4, <1>0 DEF HonestLog, FlightTrue, NoRun
<1>7. \A r : InLog(r)' <=> InLog(r)
  BY <1>1 DEF InLog
<1>8. ChainTrue'
  <2> SUFFICES ASSUME NEW r \in DOMAIN eng'.runs
      PROVE LET p == eng'.runs[r].prev
            IN  /\ p < r
                /\ p # NoRun => p \in DOMAIN eng'.runs /\ eng'.runs[p].dp = eng'.runs[r].dp
                                   /\ InLog(p)
                /\ \A q \in DOMAIN eng'.runs : eng'.runs[q].dp = eng'.runs[r].dp => q <= p \/ r <= q
    BY <1>7 DEF ChainTrue
  <2>1. CASE r = n
    BY <2>1, <1>4, <1>6
  <2>2. CASE r # n
    BY <2>2, <1>4 DEF HonestLog, ChainTrue
  <2> QED
    BY <2>1, <2>2
<1>9. ~InLog(n)
  BY <1>4 DEF InLog, HonestLog, EntriesTrue
<1>10. FlightTrue'
  <2> SUFFICES ASSUME NEW c \in Downpipes
      PROVE LET f == eng'.inFlight[c]
                l == eng'.last[c]
            IN  /\ f # NoRun => f \in DOMAIN eng'.runs /\ eng'.runs[f].dp = c /\ ~InLog(f)
                /\ l # NoRun => l \in DOMAIN eng'.runs /\ eng'.runs[l].dp = c /\ InLog(l)
                /\ \A q \in DOMAIN eng'.runs : eng'.runs[q].dp = c => q <= l \/ q = f
                /\ f # NoRun => \A q \in DOMAIN eng'.runs : eng'.runs[q].dp = c => q <= f
    BY <1>7 DEF FlightTrue
  <2>1. CASE c = d
    <3>1. eng'.inFlight[c] = n /\ eng'.last[c] = eng.last[d]
      BY <2>1, <1>0, <1>1
    <3> QED
      BY <3>1, <2>1, <1>4, <1>6, <1>9
  <2>2. CASE c # d
    <3>1. eng'.inFlight[c] = eng.inFlight[c] /\ eng'.last[c] = eng.last[c]
      BY <2>2, <1>0, <1>1
    <3> QED
      BY <3>1, <2>2, <1>4 DEF HonestLog, FlightTrue
  <2> QED
    BY <2>1, <2>2
<1> QED
  BY <1>3, <1>5, <1>8, <1>10 DEF HonestLog

\* A run ends and its entry is appended (the engine).
LEMMA FinaliseHonest ==
    ASSUME HonestLog, NEW d \in Downpipes, Finalise(d)
    PROVE  HonestLog'
<1> DEFINE f == eng.inFlight[d]
           e == log.entries
           n == Len(e) + 1
<1>0. /\ eng \in [next : Nat, inFlight : [Downpipes -> Nat], last : [Downpipes -> Nat],
                  runs : Seq(Run)]
      /\ eng.next = Len(eng.runs) + 1 /\ e \in Seq(Entry) /\ eng.runs \in Seq(Run)
      /\ log \in [parses : BOOLEAN, entries : Seq(Entry)]
  BY DEF HonestLog, EngTyped
<1>1. /\ eng'.next = eng.next /\ eng'.inFlight = [eng.inFlight EXCEPT ![d] = NoRun]
      /\ eng'.last = [eng.last EXCEPT ![d] = f] /\ eng'.runs = eng.runs
      /\ log'.entries = Append(e, EntryFor(f)) /\ f # NoRun
      /\ eng' = [eng EXCEPT !.last[d] = f, !.inFlight[d] = NoRun]
      /\ log' = [log EXCEPT !.entries = Append(e, EntryFor(f))]
  BY <1>0 DEF Finalise
<1>2. f \in DOMAIN eng.runs /\ eng.runs[f].dp = d /\ ~InLog(f) /\ f \in Nat
  BY <1>0, <1>1 DEF HonestLog, FlightTrue
<1>3. EntryFor(f) \in Entry /\ EntryFor(f).run = f
  <2>1. eng.runs[f] \in Run
    BY <1>0, <1>2
  <2>2. eng.runs[f].dp \in Downpipes /\ eng.runs[f].prev \in Nat
    BY <2>1 DEF Run
  <2> HIDE DEF f
  <2> QED
    BY <2>2, <1>2 DEF EntryFor, Entry
<1>4. EngTyped'
  <2>1. eng' \in [next : Nat, inFlight : [Downpipes -> Nat], last : [Downpipes -> Nat],
                  runs : Seq(Run)]
    BY <1>0, <1>1, <1>2 DEF NoRun
  <2>2. log' \in [parses : BOOLEAN, entries : Seq(Entry)]
    <3>1. Append(e, EntryFor(f)) \in Seq(Entry)
      BY <1>0, <1>3
    <3>2. log' = [parses |-> log.parses, entries |-> Append(e, EntryFor(f))]
      BY <1>0, <1>1
    <3>3. log.parses \in BOOLEAN
      BY <1>0
    <3> QED
      BY <3>1, <3>2, <3>3
  <2> QED
    BY <2>1, <2>2, <1>0, <1>1 DEF EngTyped
<1>5. /\ DOMAIN log'.entries = DOMAIN e \cup {n} /\ n \notin DOMAIN e
      /\ log'.entries[n] = EntryFor(f) /\ \A i \in DOMAIN e : log'.entries[i] = e[i]
  BY <1>0, <1>1, <1>3
<1>6. \A r : EntryFor(r)' = EntryFor(r)
  BY <1>1 DEF EntryFor
<1>7. EntriesTrue'
  <2>1. \A i \in DOMAIN e : e[i].run # f
    BY <1>2 DEF InLog
  <2>2. /\ \A i \in DOMAIN e : e[i].run \in DOMAIN eng.runs /\ e[i] = EntryFor(e[i].run)
        /\ \A i, j \in DOMAIN e : e[i].run = e[j].run => i = j
    BY DEF HonestLog, EntriesTrue
  <2>3. \A i \in DOMAIN log'.entries :
          /\ log'.entries[i].run \in DOMAIN eng'.runs
          /\ log'.entries[i] = EntryFor(log'.entries[i].run)
    BY <1>1, <1>2, <1>3, <1>5, <2>2
  <2>4. \A i, j \in DOMAIN log'.entries : log'.entries[i].run = log'.entries[j].run => i = j
    BY <1>3, <1>5, <2>1, <2>2
  <2> QED
    BY <2>3, <2>4, <1>6 DEF EntriesTrue
<1>8. \A r : InLog(r)' <=> InLog(r) \/ r = f
  BY <1>3, <1>5 DEF InLog
<1>9. ChainTrue'
  <2> SUFFICES ASSUME NEW r \in DOMAIN eng.runs
      PROVE LET p == eng.runs[r].prev
            IN  /\ p < r
                /\ p # NoRun => p \in DOMAIN eng.runs /\ eng.runs[p].dp = eng.runs[r].dp
                                   /\ InLog(p)'
                /\ \A q \in DOMAIN eng.runs : eng.runs[q].dp = eng.runs[r].dp => q <= p \/ r <= q
    BY <1>1, <1>8 DEF ChainTrue
  <2>1. eng.runs[r].prev # NoRun => InLog(eng.runs[r].prev)
    BY DEF HonestLog, ChainTrue
  <2>2. eng.runs[r].prev # NoRun => \E i \in DOMAIN log'.entries :
                                          log'.entries[i].run = eng.runs[r].prev
    BY <2>1, <1>5 DEF InLog
  <2> QED
    BY <2>2, <1>1 DEF HonestLog, ChainTrue, InLog
<1>10. FlightTrue'
  <2> SUFFICES ASSUME NEW c \in Downpipes
      PROVE LET g == eng'.inFlight[c]
                l == eng'.last[c]
            IN  /\ g # NoRun => g \in DOMAIN eng.runs /\ eng.runs[g].dp = c /\ ~(InLog(g) \/ g = f)
                /\ l # NoRun => l \in DOMAIN eng.runs /\ eng.runs[l].dp = c /\ (InLog(l) \/ l = f)
                /\ \A q \in DOMAIN eng.runs : eng.runs[q].dp = c => q <= l \/ q = g
                /\ g # NoRun => \A q \in DOMAIN eng.runs : eng.runs[q].dp = c => q <= g
    BY <1>1, <1>8 DEF FlightTrue
  <2>1. CASE c = d
    <3>1. eng'.inFlight[c] = NoRun /\ eng'.last[c] = f
      BY <2>1, <1>0, <1>1
    <3>2. \A q \in DOMAIN eng.runs : eng.runs[q].dp = d => q <= f
      BY <1>1 DEF HonestLog, FlightTrue
    <3> QED
      BY <3>1, <3>2, <2>1, <1>2
  <2>2. CASE c # d
    <3>1. eng'.inFlight[c] = eng.inFlight[c] /\ eng'.last[c] = eng.last[c]
      BY <2>2, <1>0, <1>1
    <3> QED
      BY <3>1, <2>2, <1>2 DEF HonestLog, FlightTrue
  <2> QED
    BY <2>1, <2>2
<1> QED
  BY <1>4, <1>7, <1>9, <1>10 DEF HonestLog

-----------------------------------------------------------------------------
(***************************************************************************)
(* The reader leaves the engine alone.                                     *)
(***************************************************************************)
LEMMA ReaderFrame == Reader => UNCHANGED engine
BY DEF Reader, Start, ReadRoot, SignatureGate, ClassifySignature, RootGates, CheckShardCount,
       WalkShard, FetchShard, WalkRecord, Tally, OpenShards, CheckCompleteness,
       VerifyShardHashes, ReadRunlog, ReadLogSig, Bundle, RereadShard, RereadRecord,
       RereadDone, Report

LEMMA FrameHonest == UNCHANGED <<eng, log>> => (HonestLog' <=> HonestLog)
BY DEF HonestLog, EngTyped, EntriesTrue, ChainTrue, FlightTrue, EntryFor, InLog

LEMMA NextHonest == EngineInv /\ [Next]_vars => EngineInv'
<1> SUFFICES ASSUME EngineInv, [Next]_vars, rewritten' = "no" PROVE HonestLog'
  BY DEF EngineInv
<1>1. CASE UNCHANGED engine
  BY <1>1, FrameHonest DEF EngineInv, engine
<1>2. ASSUME NEW d \in Downpipes, Trigger(d) PROVE HonestLog'
  BY <1>2, TriggerHonest DEF EngineInv, Trigger
<1>3. ASSUME NEW d \in Downpipes, Finalise(d) PROVE HonestLog'
  BY <1>3, FinaliseHonest DEF EngineInv, Finalise
<1>4. CASE SignLog
  BY <1>4, FrameHonest DEF SignLog, EngineInv
<1>5. CASE Garble
  BY <1>5 DEF Garble
<1>6. CASE \E how \in {"cut", "drop", "dup", "fork"} : Tamper(how)
  BY <1>6 DEF Tamper
<1> QED
  BY <1>1, <1>2, <1>3, <1>4, <1>5, <1>6, ReaderFrame DEF Next, Engine, vars

\* detectChainAnomaly never calls a log the engine wrote rewritten, whatever runs of
\* whatever downpipes overlap and in whatever order their entries land.
THEOREM HonestLogIsAccepted == Spec => []HonestLogAccepted
<1>1. EngineInv => HonestLogAccepted
  BY HonestIsSound DEF EngineInv, HonestLogAccepted
<1> QED
  BY <1>1, InitHonest, NextHonest, PTL DEF Spec

-----------------------------------------------------------------------------
(***************************************************************************)
(* The log somebody else has touched.                                      *)
(***************************************************************************)
\* A log with an entry left out of the middle, two entries under one index or two
\* under one predecessor fails the chain checks; a damaged one cannot be read.
TamperShows ==
    /\ rewritten \in {"no", "cut", "drop", "dup", "fork", "garbled"}
    /\ rewritten \in {"drop", "dup", "fork"} => ChainAnomaly(log.entries)
    /\ rewritten = "garbled" => ~logSig.decodes \/ ~log.parses

\* What is signed is in the log: the two puts are in this order.
SigBehind ==
    rewritten = "no" =>
        /\ logSig = [decodes |-> TRUE, over |-> logSig.over]
        /\ \A i \in DOMAIN logSig.over.entries :
              \E j \in DOMAIN log.entries : log.entries[j] = logSig.over.entries[i]

\* Between the two gets: the log in hand holds all that was signed when it was read,
\* or nobody has moved since it was tampered with.
LogInHand ==
    pc = "logsig" =>
        IF logRead.how = "no"
        THEN \A i \in DOMAIN logRead.truth :
                \E j \in DOMAIN logRead.log.entries :
                    logRead.log.entries[j] = logRead.truth[i]
        ELSE logRead.how = rewritten /\ logRead.log = log

LogInv == EngineInv /\ TamperShows /\ SigBehind /\ LogInHand

\* An entry with a successor is missed by its successor.
LEMMA DropShows ==
    ASSUME HonestLog, NEW s \in Tampered("drop", log.entries)
    PROVE  Dangling(s)
<1> DEFINE e == log.entries
<1>0. e \in Seq(Entry) /\ eng.runs \in Seq(Run)
  BY DEF HonestLog, EngTyped
<1>1. PICK i \in DOMAIN e, j \in DOMAIN e : s = Without(e, i) /\ e[j].prev = e[i].run
  BY DEF Tampered
<1>2. e[j].prev = eng.runs[e[j].run].prev /\ e[j].run \in DOMAIN eng.runs
        /\ e[i].run \in DOMAIN eng.runs /\ e[i].run \in Nat /\ e[j].run \in Nat
  BY EntryFacts
<1>3. e[j].prev < e[j].run /\ e[i].run # NoRun
  BY <1>0, <1>2 DEF HonestLog, ChainTrue, NoRun
<1>4. i # j
  <2>1. e[i].run < e[j].run
    BY <1>1, <1>3
  <2> HIDE DEF e
  <2> QED
    BY <2>1, <1>2
<1>5. /\ DOMAIN s = 1 .. Len(e) - 1
      /\ \A k \in DOMAIN s : s[k] = IF k < i THEN e[k] ELSE e[k + 1]
  BY <1>1 DEF Without
<1>6. ASSUME NEW k \in DOMAIN s PROVE s[k].run # e[i].run
  <2>1. PICK l \in DOMAIN e : l # i /\ s[k] = e[l]
    <3>1. CASE k < i
      BY <3>1, <1>0, <1>5
    <3>2. CASE ~(k < i)
      <4>1. k + 1 \in DOMAIN e /\ k + 1 # i
        BY <3>2, <1>0, <1>5
      <4> QED
        BY <3>2, <4>1, <1>5
    <3> QED
      BY <3>1, <3>2
  <2> QED
    BY <2>1 DEF HonestLog, EntriesTrue
<1>7. PICK k \in DOMAIN s : s[k] = e[j]
  <2>1. CASE j < i
    BY <2>1, <1>0, <1>5
  <2>2. CASE j > i
    <3>1. j - 1 \in DOMAIN s /\ ~(j - 1 < i)
      BY <2>2, <1>0, <1>5
    <3> QED
      BY <3>1, <1>0, <1>5
  <2> QED
    BY <2>1, <2>2, <1>4, <1>0
<1> QED
  BY <1>1, <1>3, <1>6, <1>7 DEF Dangling

\* Two entries that were made to share an index, or a predecessor.
LEMMA DupShows ==
    ASSUME HonestLog, NEW s \in Tampered("dup", log.entries), s # log.entries
    PROVE  DuplicateIndex(s)
<1> DEFINE e == log.entries
<1>0. e \in Seq(Entry)
  BY DEF HonestLog, EngTyped
<1>1. PICK i \in DOMAIN e, j \in DOMAIN e : s = [e EXCEPT ![i].idx = e[j].idx]
  BY DEF Tampered
<1>2. e[i] \in Entry /\ e[j] \in Entry
  BY <1>0
<1>3. DOMAIN s = DOMAIN e /\ s[i].idx = e[j].idx /\ \A k \in DOMAIN e : k # i => s[k] = e[k]
  BY <1>0, <1>1, <1>2 DEF Entry
<1>4. CASE i = j
  <2>1. [e[i] EXCEPT !.idx = e[i].idx] = e[i]
    BY <1>2 DEF Entry
  <2>2. s = [e EXCEPT ![i] = [e[i] EXCEPT !.idx = e[i].idx]]
    BY <1>1, <1>4
  <2>3. s = e
    BY <2>1, <2>2, <1>0
  <2> QED
    BY <2>3
<1>5. CASE i # j
  BY <1>3, <1>5 DEF DuplicateIndex
<1> QED
  BY <1>4, <1>5

LEMMA ForkShows ==
    ASSUME HonestLog, NEW s \in Tampered("fork", log.entries), s # log.entries
    PROVE  Forked(s)
<1> DEFINE e == log.entries
<1>0. e \in Seq(Entry)
  BY DEF HonestLog, EngTyped
<1>1. PICK i \in DOMAIN e, j \in DOMAIN e :
          s = [e EXCEPT ![i].prev = e[j].prev] /\ e[j].prev # NoRun
  BY DEF Tampered
<1>2. e[i] \in Entry /\ e[j] \in Entry
  BY <1>0
<1>3. DOMAIN s = DOMAIN e /\ s[i].prev = e[j].prev /\ \A k \in DOMAIN e : k # i => s[k] = e[k]
  BY <1>0, <1>1, <1>2 DEF Entry
<1>4. CASE i = j
  <2>1. [e[i] EXCEPT !.prev = e[i].prev] = e[i]
    BY <1>2 DEF Entry
  <2>2. s = [e EXCEPT ![i] = [e[i] EXCEPT !.prev = e[i].prev]]
    BY <1>1, <1>4
  <2>3. s = e
    BY <2>1, <2>2, <1>0
  <2> QED
    BY <2>3
<1>5. CASE i # j
  BY <1>1, <1>3, <1>5 DEF Forked
<1> QED
  BY <1>4, <1>5

LEMMA TamperKeepsLogInv ==
    ASSUME LogInv, NEW how \in {"cut", "drop", "dup", "fork"}, Tamper(how)
    PROVE  LogInv'
<1>1. rewritten = "no" /\ rewritten' = how /\ pc = "runlog" /\ pc' = pc /\ HonestLog
  BY DEF Tamper, reader, LogInv, EngineInv
<1>2. PICK s \in Tampered(how, log.entries) :
          s # log.entries /\ log' = [log EXCEPT !.entries = s]
  BY DEF Tamper
<1>3. log'.entries = s
  BY <1>1, <1>2 DEF HonestLog, EngTyped
<1>4. how \in {"drop", "dup", "fork"} => ChainAnomaly(s)
  BY <1>1, <1>2, DropShows, DupShows, ForkShows DEF ChainAnomaly
<1> QED
  BY <1>1, <1>3, <1>4 DEF LogInv, EngineInv, TamperShows, SigBehind, LogInHand

-----------------------------------------------------------------------------
LEMMA InitLogInv == Init => LogInv
BY InitHonest DEF Init, LogInv, TamperShows, SigBehind, LogInHand

LEMMA EngineKeepsLogInv == LogInv /\ Engine => LogInv'
<1> SUFFICES ASSUME LogInv, Engine PROVE LogInv'
  OBVIOUS
<1>0. EngineInv'
  BY NextHonest DEF LogInv, Next
<1>1. ASSUME NEW d \in Downpipes, Trigger(d) PROVE LogInv'
  BY <1>0, <1>1 DEF Trigger, reader, LogInv, TamperShows, SigBehind, LogInHand
<1>2. ASSUME NEW d \in Downpipes, Finalise(d) PROVE LogInv'
  <2>1. /\ rewritten = "no" /\ rewritten' = "no" /\ HonestLog /\ logSig' = logSig
        /\ logSig.over = log /\ pc' = pc /\ logRead' = logRead
        /\ log' = [log EXCEPT !.entries = Append(@, EntryFor(eng.inFlight[d]))]
    BY <1>2 DEF Finalise, reader, LogInv, EngineInv
  <2>2. /\ log.entries \in Seq(Entry)
        /\ log'.entries = Append(log.entries, EntryFor(eng.inFlight[d]))
    BY <2>1 DEF HonestLog, EngTyped
  <2>3. \A i \in DOMAIN log.entries : i \in DOMAIN log'.entries /\ log'.entries[i] = log.entries[i]
    BY <2>2
  <2>4. SigBehind'
    BY <2>1, <2>3 DEF LogInv, SigBehind
  <2>5. LogInHand'
    BY <2>1 DEF LogInv, LogInHand
  <2> QED
    BY <1>0, <2>1, <2>4, <2>5 DEF LogInv, TamperShows
<1>3. CASE SignLog
  BY <1>0, <1>3 DEF SignLog, reader, LogInv, TamperShows, SigBehind, LogInHand
<1>4. CASE Garble
  <2>1. /\ rewritten = "no" /\ rewritten' = "garbled" /\ HonestLog /\ pc = "runlog" /\ pc' = pc
        /\ logSig = [decodes |-> TRUE, over |-> logSig.over]
    BY <1>4 DEF Garble, reader, LogInv, EngineInv, SigBehind
  <2>2. ~logSig'.decodes \/ ~log'.parses
    BY <1>4, <2>1 DEF Garble, HonestLog, EngTyped
  <2> QED
    BY <1>0, <2>1, <2>2 DEF LogInv, TamperShows, SigBehind, LogInHand
<1> QED
  BY <1>1, <1>2, <1>3, <1>4, TamperKeepsLogInv DEF Engine

LEMMA ReaderKeepsLogInv == LogInv /\ Reader => LogInv'
<1> SUFFICES ASSUME LogInv, Reader PROVE LogInv'
  OBVIOUS
<1>1. UNCHANGED <<eng, log, logSig, rewritten>>
  BY ReaderFrame DEF engine
<1>2. EngineInv'
  BY NextHonest DEF LogInv, Next
<1>3. CASE ReadRunlog
  <2>1. pc' = "logsig" => logRead' = [log |-> log, truth |-> logSig.over.entries, how |-> rewritten]
    BY <1>3 DEF ReadRunlog, Gate, AttestRunlog, FreshnessGate, AttestFails, Finish
  <2> QED
    BY <1>1, <1>2, <2>1 DEF LogInv, TamperShows, SigBehind, LogInHand
<1>4. CASE ~ReadRunlog
  <2>1. pc' # "logsig"
    BY <1>4 DEF Reader, Start, ReadRoot, SignatureGate, ClassifySignature, RootGates,
          CheckShardCount, WalkShard, FetchShard, WalkRecord, Tally, OpenShards,
          CheckCompleteness, VerifyShardHashes, ReadLogSig, Bundle, RereadShard, RereadRecord,
          RereadDone, Report, Finish, Gate, AttestRunlog, FreshnessGate, AttestFails
  <2> QED
    BY <1>1, <1>2, <2>1 DEF LogInv, TamperShows, SigBehind, LogInHand
<1> QED
  BY <1>3, <1>4

LEMMA NextLogInv == LogInv /\ [Next]_vars => LogInv'
<1>1. LogInv /\ UNCHANGED vars => LogInv'
  BY NextHonest DEF LogInv, TamperShows, SigBehind, LogInHand, vars, engine, reader
<1> QED
  BY <1>1, EngineKeepsLogInv, ReaderKeepsLogInv DEF Next

-----------------------------------------------------------------------------
(***************************************************************************)
(* The reader.                                                             *)
(***************************************************************************)
\* The recipient list of an opened run can do what it is for: as many wraps as
\* recipients, all of them recipients, leave none out.
LEMMA BreakGlassHasWrap ==
    ASSUME NEW m \in Manifests, CheckRecipientSet(m)
    PROVE  \E i \in BreakGlass(m) : OpenCapsule(m, m.recipients[i].fp)
<1> DEFINE D == DOMAIN m.recipients
           fp == [i \in D |-> m.recipients[i].fp]
<1>1. m.recipients \in Seq([role : STRING, fp : STRING, genuine : BOOLEAN])
  BY ManifestsAssumption
<1>2. D = 1 .. Len(m.recipients) /\ Len(m.recipients) \in Nat
  BY <1>1
<1>3. IsFiniteSet(D)
  BY <1>2, FS_Interval
<1>4. fp \in Surjection(D, Fingerprints(m))
  BY DEF Fingerprints, Surjection
<1>5. IsFiniteSet(Fingerprints(m))
  BY <1>3, <1>4, FS_Surjection
<1>6. Wraps(m) = Fingerprints(m)
  BY <1>5, FS_Subset DEF CheckRecipientSet
<1>7. BreakGlass(m) # {}
  BY FS_EmptySet DEF CheckRecipientSet
<1> QED
  BY <1>6, <1>7 DEF BreakGlass, OpenCapsule, Fingerprints

\* What a verdict of the freshness check on the log lr means for the run rt.
VerdictOf(f, pin, lr, rt) ==
    /\ f.err \in {"none", "stale", "unchecked", "anomaly"}
    /\ f.untrusted \in BOOLEAN
    /\ f.untrusted <=> f.err \in {"unchecked", "anomaly"}
    /\ ~f.untrusted => lr.log.parses /\ lr.how \in {"no", "cut"}
    /\ f.err = "none" =>
          IF lr.how = "cut" THEN pin = 0 \/ ~MaxBelow(lr.log.entries, pin)
          ELSE /\ lr.how = "no"
               /\ \A i \in DOMAIN lr.truth : lr.truth[i].dp = rt.dp => lr.truth[i].idx <= rt.idx

LEMMA UncheckedVerdict ==
    ASSUME NEW pin, NEW lr, NEW rt PROVE VerdictOf(UncheckedFreshness, pin, lr, rt)
BY DEF VerdictOf, UncheckedFreshness

\* The check tells the truth about a log read in two gets.
LEMMA CheckIsSound ==
    ASSUME LogInv, pc = "logsig", NEW pin \in Nat, NEW rt
    PROVE  VerdictOf(CheckFreshness(logRead.log, logSig, rt, pin), pin, logRead, rt)
<1> DEFINE e == logRead.log.entries
           f == CheckFreshness(logRead.log, logSig, rt, pin)
           unread == \/ ~logSig.decodes \/ logSig.over # logRead.log \/ ~logRead.log.parses
                     \/ e = <<>> \/ LookupFails(e, rt)
           old == (pin > 0 /\ MaxBelow(e, pin)) \/ ~IsLatest(e, rt.dp, rt.idx)
<1> SUFFICES VerdictOf(f, pin, logRead, rt)
  OBVIOUS
<1>1. CASE unread
  BY <1>1, UncheckedVerdict DEF CheckFreshness
<1>2. CASE ~unread /\ ChainAnomaly(e)
  <2>1. f.err = "anomaly" /\ f.untrusted = TRUE
    BY <1>2 DEF CheckFreshness
  <2> HIDE DEF f
  <2> QED
    BY <2>1 DEF VerdictOf
<1>3. CASE ~unread /\ ~ChainAnomaly(e)
  <2>1. f.untrusted = FALSE /\ f.err = IF old THEN "stale" ELSE "none"
    BY <1>3 DEF CheckFreshness
  <2>2. logRead.how \in {"no", "cut"}
    BY <1>3 DEF LogInv, TamperShows, LogInHand
  <2>3. ~old /\ logRead.how = "no" =>
          \A i \in DOMAIN logRead.truth :
              logRead.truth[i].dp = rt.dp => logRead.truth[i].idx <= rt.idx
    <3> SUFFICES ASSUME IsLatest(e, rt.dp, rt.idx), logRead.how = "no",
                        NEW i \in DOMAIN logRead.truth, logRead.truth[i].dp = rt.dp
        PROVE  logRead.truth[i].idx <= rt.idx
      OBVIOUS
    <3>1. PICK j \in DOMAIN e : e[j] = logRead.truth[i]
      BY DEF LogInv, LogInHand
    <3> QED
      BY <3>1 DEF IsLatest
  <2>4. ~old => pin = 0 \/ ~MaxBelow(e, pin)
    OBVIOUS
  <2>5. logRead.log.parses
    BY <1>3
  <2> HIDE DEF f, old, e
  <2>6. f.err = "none" => ~old
    BY <2>1
  <2>7. f.err \in {"none", "stale"}
    BY <2>1
  <2> QED
    BY <2>1, <2>2, <2>3, <2>4, <2>5, <2>6, <2>7 DEF VerdictOf, e
<1> QED
  BY <1>1, <1>2, <1>3

OutType == [signature : {"valid", "unchecked", "absent", "invalid", "wrong-signer"},
            completeness : {"complete", "UNVERIFIED"}, code : Nat,
            failed : SUBSET {"signature", "content", "log", "bundle"}, bundle : BOOLEAN]
OptsType == [cmd : Commands, unverified : BOOLEAN, stale : BOOLEAN, runlog : BOOLEAN, pin : Nat]

\* Where the reader may stand with which command, and with which root.
Sides ==
    /\ pc \in {"idle", "root", "sig", "gates"} => body = NoBody
    /\ pc \in {"walk", "bundle", "reread", "report"} => ~Attesting
    /\ pc = "hashes" => Attesting
    /\ pc \in {"walk", "runlog", "logsig", "bundle", "reread", "report"} /\ ~Attesting =>
          body.man \in Manifests /\ CheckRecipientSet(body.man)

\* While the reader goes on, what has failed is tolerated; no check of the log has run
\* before the log is read.
Clean ==
    /\ ~Attesting => out.code \in {0, ExitUnverified}
    /\ pc # "done" => Tolerated
    /\ pc \notin {"bundle", "reread", "report", "done"} => "log" \notin out.failed

\* The log was found in order, or the operator's flags cover what was found.
LogSettled ==
    /\ VerdictOf(fresh, opts.pin, logRead, root)
    /\ fresh.err # "none" => out.completeness = "UNVERIFIED" /\ Acknowledges(opts, fresh)

Ended ==
    pc = "done" =>
        /\ exit = ExitUnreachable => Tolerated
        /\ IF Attesting THEN body.parsed => (out.code = 0 <=> exit = 0)
           ELSE /\ exit = 0 => LogSettled /\ body.man \in Manifests /\ CheckRecipientSet(body.man)
                /\ exit = ExitStale =>
                      /\ fresh.err # "none" /\ ~Acknowledges(opts, fresh)
                      /\ VerdictOf(fresh, opts.pin, logRead, root)

Steps == {"idle", "root", "sig", "gates", "walk", "hashes", "runlog", "logsig", "bundle",
          "reread", "report", "done"}

ReaderInv ==
    /\ pc \in Steps /\ out \in OutType /\ opts \in OptsType
    /\ Sides /\ Clean /\ Ended
    /\ pc \in {"bundle", "reread", "report"} => LogSettled

\* The command ends with a code that is neither 0 nor about the log.
LEMMA Refused ==
    ASSUME ReaderInv, ~Attesting, opts' = opts, pc' = "done", out' \in OutType,
           exit' \in {ExitUncoded, ExitUnverified, ExitIncomplete, ExitUsage, ExitUnreachable},
           out'.code \in {0, ExitUnverified},
           exit' = ExitUnreachable => Tolerated'
    PROVE  ReaderInv'
BY DEF ReaderInv, Steps, Sides, Clean, Ended, Attesting, ExitUncoded, ExitUnverified,
       ExitIncomplete, ExitUsage, ExitUnreachable, ExitStale

\* What was tolerated stays so while no check of the log has failed.
LEMMA ToleratedStays ==
    ASSUME Tolerated, "log" \notin out.failed, out'.failed = out.failed, out'.code = out.code,
           opts'.cmd = opts.cmd, opts'.unverified = opts.unverified
    PROVE  Tolerated'
BY DEF Tolerated, Attesting

\* It stays so under the same flags over the same log, whatever failed.
LEMMA ToleratedUnder ==
    ASSUME Tolerated, out'.failed = out.failed, out'.code = out.code,
           UNCHANGED <<opts, fresh>>
    PROVE  Tolerated'
BY DEF Tolerated, Attesting, Acknowledges

\* The reader goes on to p, with the root and the outcome as they are.
LEMMA GoesOn ==
    ASSUME ReaderInv, ~Attesting, UNCHANGED <<opts, out, body>>, pc # "done",
           pc' \in {"root", "sig", "gates", "walk", "runlog"},
           pc' \in {"root", "sig", "gates"} => pc \in {"idle", "root", "sig", "gates"},
           pc' \in {"walk", "runlog"} => pc = "walk"
    PROVE  ReaderInv'
<1>1. Tolerated'
  BY ToleratedStays DEF ReaderInv, Clean
<1> QED
  BY <1>1 DEF ReaderInv, Steps, Sides, Clean, Ended, Attesting

LEMMA InitReader == Init => ReaderInv
BY DEF Init, ReaderInv, Steps, Sides, Clean, Ended, Tolerated, Attesting, OutType, OptsType,
       Commands, NoOut, NoBody

LEMMA StartReader == ReaderInv /\ Start => ReaderInv'
<1> SUFFICES ASSUME ReaderInv, Start PROVE ReaderInv'
  OBVIOUS
<1>1. PICK c \in Commands, u \in BOOLEAN :
          opts' = [cmd |-> c, unverified |-> u, stale |-> c = "inspect",
                   runlog |-> c = "inspect", pin |-> 0]
  BY DEF Start
<1>2. opts' \in OptsType
  BY <1>1 DEF OptsType
<1>3. pc' = "root" /\ out' = NoOut /\ body' = NoBody
  BY DEF Start
<1>4. out' \in OutType /\ out'.code = 0 /\ out'.failed = {}
  BY <1>3 DEF OutType, NoOut
<1>5. Tolerated'
  BY <1>4 DEF Tolerated
<1> QED
  BY <1>2, <1>3, <1>4, <1>5 DEF ReaderInv, Steps, Sides, Clean, Ended

LEMMA ReadRootReader == ReaderInv /\ ReadRoot => ReaderInv'
<1> SUFFICES ASSUME ReaderInv, ReadRoot PROVE ReaderInv'
  OBVIOUS
<1>1. pc = "root" /\ UNCHANGED <<opts, out, body>>
  BY DEF ReadRoot
<1>2. \/ pc' = "sig"
      \/ pc' = "done" /\ exit' \in {ExitUsage, ExitUnverified, ExitUnreachable}
  BY DEF ReadRoot, Finish, CodedGet
<1>3. Tolerated'
  BY <1>1, ToleratedStays DEF ReaderInv, Clean
<1> QED
  BY <1>1, <1>2, <1>3 DEF ReaderInv, Steps, Sides, Clean, Ended, Attesting, NoBody,
       ExitUnverified, ExitUsage, ExitUnreachable, ExitStale

LEMMA SignatureGateReader == ReaderInv /\ SignatureGate => ReaderInv'
<1> SUFFICES ASSUME ReaderInv, SignatureGate PROVE ReaderInv'
  OBVIOUS
<1>1. pc = "sig" /\ ~Attesting /\ UNCHANGED <<opts, body>>
  BY DEF SignatureGate
<1>2. PICK got \in SigAnswers :
          IF got = "valid" THEN pc' = "gates" /\ UNCHANGED <<out, exit>>
          ELSE /\ out' = [out EXCEPT !.signature = SigLabel(got),
                              !.completeness = "UNVERIFIED", !.code = ExitUnverified,
                              !.failed = Failing("signature", got)]
               /\ IF opts.unverified THEN pc' = "gates" /\ exit' = exit
                  ELSE Finish(CodedGet(ExitUnverified, got))
  BY DEF SignatureGate
<1>3. CASE got = "valid"
  BY <1>1, <1>2, <1>3, GoesOn
<1>4. CASE got # "valid"
  <2>1. SigLabel(got) \in {"valid", "unchecked", "absent", "invalid", "wrong-signer"}
    BY DEF SigLabel, SigAnswers, GetFails
  <2>2. Failing("signature", got) \in SUBSET {"signature"}
    BY DEF Failing
  <2>3. out' \in OutType /\ out'.code = ExitUnverified /\ out'.failed = Failing("signature", got)
    <3>1. out' = [out EXCEPT !.signature = SigLabel(got), !.completeness = "UNVERIFIED",
                             !.code = ExitUnverified, !.failed = Failing("signature", got)]
      BY <1>2, <1>4, Zenon
    <3> QED
      BY <2>1, <2>2, <3>1 DEF ReaderInv, OutType, ExitUnverified
  <2>4. CASE opts.unverified
    <3>1. Tolerated' /\ "log" \notin out'.failed
      BY <1>1, <2>2, <2>3, <2>4 DEF Tolerated
    <3> QED
      BY <1>1, <1>2, <1>4, <2>3, <2>4, <3>1
      DEF ReaderInv, Steps, Sides, Clean, Ended, Attesting
  <2>5. CASE ~opts.unverified
    <3>1. pc' = "done" /\ exit' = CodedGet(ExitUnverified, got)
      BY <1>2, <1>4, <2>5, Zenon DEF Finish
    <3>2. exit' = ExitUnreachable => Tolerated'
      BY <3>1, <2>3 DEF CodedGet, GetFails, Failing, Tolerated, ExitUnreachable, ExitUnverified
    <3>3. exit' \in {ExitUnverified, ExitUnreachable}
      BY <3>1 DEF CodedGet
    <3> QED
      BY <1>1, <2>3, <3>1, <3>2, <3>3, Refused
  <2> QED
    BY <2>4, <2>5
<1> QED
  BY <1>3, <1>4

LEMMA ClassifySignatureReader == ReaderInv /\ ClassifySignature => ReaderInv'
<1> SUFFICES ASSUME ReaderInv, ClassifySignature PROVE ReaderInv'
  OBVIOUS
<1>1. pc = "sig" /\ Attesting /\ UNCHANGED <<opts, body>> /\ pc' = "gates"
  BY DEF ClassifySignature
<1>2. PICK got \in SigAnswers :
          out' = IF got \in {"valid", "unchecked"} THEN [out EXCEPT !.signature = got]
                 ELSE [out EXCEPT !.signature = SigLabel(got),
                           !.code = CodedGet(ExitUnverified, got),
                           !.failed = Failing("signature", got)]
  BY DEF ClassifySignature
<1>3. /\ SigLabel(got) \in {"valid", "unchecked", "absent", "invalid", "wrong-signer"}
      /\ Failing("signature", got) \in SUBSET {"signature"}
      /\ CodedGet(ExitUnverified, got) \in Nat
      /\ "signature" \in Failing("signature", got) => CodedGet(ExitUnverified, got) = ExitUnverified
  BY DEF SigLabel, SigAnswers, GetFails, Failing, CodedGet, ExitUnverified, ExitUnreachable
<1>4. out \in OutType /\ Tolerated /\ "log" \notin out.failed
  BY <1>1 DEF ReaderInv, Clean
<1>5. CASE got \in {"valid", "unchecked"}
  <2>1. out' \in OutType /\ out'.failed = out.failed /\ out'.code = out.code
    BY <1>2, <1>4, <1>5 DEF OutType
  <2>2. Tolerated'
    BY <1>1, <1>4, <2>1, ToleratedStays
  <2> QED
    BY <1>1, <1>4, <2>1, <2>2 DEF ReaderInv, Steps, Sides, Clean, Ended, Attesting
<1>6. CASE got \notin {"valid", "unchecked"}
  <2>1. /\ out' \in OutType /\ out'.failed = Failing("signature", got)
        /\ out'.code = CodedGet(ExitUnverified, got)
    BY <1>2, <1>3, <1>4, <1>6 DEF OutType
  <2>2. Tolerated' /\ "log" \notin out'.failed
    BY <1>1, <1>3, <2>1 DEF Tolerated, Attesting
  <2> QED
    BY <1>1, <2>1, <2>2 DEF ReaderInv, Steps, Sides, Clean, Ended, Attesting
<1> QED
  BY <1>5, <1>6

\* A body the root parses to carries one of the manifests.
LEMMA BodyFacts ==
    ASSUME NEW r \in Bodies PROVE r.man \in Manifests
<1> DEFINE count(l, wrong) == Len(l) + (IF wrong = "shardCount" THEN 1 ELSE 0)
           total(l, wrong) == RecordTotal(l) + (IF wrong = "count" THEN 1 ELSE 0)
           tree(l, wrong) == IF wrong = "merkle" THEN LeafHash(0)
                             ELSE MerkleRoot([i \in 1 .. RecordTotal(l) |-> i])
<1>1. r \in {[parsed |-> TRUE, shards |-> l, man |-> m, shardCount |-> count(l, wrong),
              declared |-> total(l, wrong), merkle |-> tree(l, wrong)] :
             l \in Layouts, m \in Manifests, wrong \in {"none", "shardCount", "count", "merkle"}}
  BY DEF Bodies
<1> HIDE DEF count, total, tree
<1> QED
  BY <1>1

LEMMA RootGatesReader == ReaderInv /\ RootGates => ReaderInv'
<1> SUFFICES ASSUME ReaderInv, RootGates PROVE ReaderInv'
  OBVIOUS
<1>0. pc = "gates" /\ opts' = opts /\ body = NoBody /\ out \in OutType
  BY DEF RootGates, ReaderInv, Sides
<1>1. CASE \E g \in {FieldGates[i] : i \in DOMAIN FieldGates} :
              Finish(FieldCode(g)) /\ body' = body /\ out' = [out EXCEPT !.failed = @ \cup {"content"}]
  <2>1. pc' = "done" /\ exit' \in {ExitUnverified, ExitUsage} /\ body' = body
           /\ out' = [out EXCEPT !.failed = @ \cup {"content"}]
    BY <1>1 DEF Finish, FieldCode
  <2>2. out' \in OutType /\ out'.code = out.code
    BY <1>0, <2>1 DEF OutType
  <2>3. CASE Attesting
    BY <1>0, <2>1, <2>2, <2>3 DEF ReaderInv, Steps, Sides, Clean, Ended, Attesting, NoBody,
         ExitUnverified, ExitUsage, ExitUnreachable
  <2>4. CASE ~Attesting
    <3>1. exit' # ExitUnreachable /\ out.code \in {0, ExitUnverified}
      BY <2>1, <2>4 DEF ReaderInv, Clean, ExitUnverified, ExitUsage, ExitUnreachable
    <3> QED
      BY <1>0, <2>1, <2>2, <2>4, <3>1, Refused
  <2> QED
    BY <2>3, <2>4
<1>2. ASSUME NEW r \in Bodies, NEW tag, NEW fp, body' = r,
             IF Attesting
             THEN IF CheckRecipientSet(r.man)
                  THEN pc' = "hashes" /\ UNCHANGED <<out, exit>>
                  ELSE /\ Finish(ExitUnverified)
                       /\ out' = [out EXCEPT !.failed = @ \cup {"content"},
                                     !.code = IF @ = 0 THEN ExitUnverified ELSE @]
             ELSE IF UnlockFails(r, fp, tag)
                  THEN Finish(ExitUnverified) /\ out' = [out EXCEPT !.failed = @ \cup {"content"}]
                  ELSE pc' = "walk" /\ UNCHANGED <<out, exit>>
      PROVE  ReaderInv'
  <2>1. r.man \in Manifests
    BY BodyFacts
  <2>2. CASE Attesting /\ CheckRecipientSet(r.man)
    <3>1. Tolerated' /\ out' = out
      BY <1>0, <1>2, <2>2, ToleratedStays DEF ReaderInv, Clean
    <3> QED
      BY <1>0, <1>2, <2>2, <3>1 DEF ReaderInv, Steps, Sides, Clean, Ended, Attesting
  <2>3. CASE Attesting /\ ~CheckRecipientSet(r.man)
    <3>1. /\ pc' = "done" /\ exit' = ExitUnverified
          /\ out' = [out EXCEPT !.failed = @ \cup {"content"},
                                !.code = IF @ = 0 THEN ExitUnverified ELSE @]
      BY <1>2, <2>3 DEF Finish
    <3> DEFINE c == IF out.code = 0 THEN ExitUnverified ELSE out.code
    <3>a. c \in Nat /\ c # 0
      BY <1>0 DEF OutType, ExitUnverified
    <3>b. out' = [out EXCEPT !.failed = @ \cup {"content"}, !.code = c]
      BY <3>1
    <3> HIDE DEF c
    <3>2. out' \in OutType /\ out'.code # 0
      BY <1>0, <3>a, <3>b DEF OutType
    <3> QED
      BY <1>0, <2>3, <3>1, <3>2 DEF ReaderInv, Steps, Sides, Clean, Ended, Attesting,
           ExitUnverified, ExitUnreachable
  <2>4. CASE ~Attesting /\ UnlockFails(r, fp, tag)
    <3>1. /\ pc' = "done" /\ exit' = ExitUnverified /\ out' = [out EXCEPT !.failed = @ \cup {"content"}]
      BY <1>2, <2>4 DEF Finish
    <3>2. out' \in OutType /\ out'.code = out.code /\ out.code \in {0, ExitUnverified}
      BY <1>0, <2>4, <3>1 DEF OutType, ReaderInv, Clean
    <3> QED
      BY <1>0, <2>4, <3>1, <3>2, Refused DEF ExitUnverified, ExitUnreachable
  <2>5. CASE ~Attesting /\ ~UnlockFails(r, fp, tag)
    <3>1. pc' = "walk" /\ out' = out /\ CheckRecipientSet(r.man)
      BY <1>2, <2>5 DEF UnlockFails
    <3>2. Tolerated'
      BY <1>0, <3>1, ToleratedStays DEF ReaderInv, Clean
    <3> QED
      BY <1>0, <1>2, <2>1, <2>5, <3>1, <3>2
      DEF ReaderInv, Steps, Sides, Clean, Ended, Attesting
  <2> QED
    BY <2>2, <2>3, <2>4, <2>5
<1> QED
  BY <1>1, <1>2 DEF RootGates

\* The step ends the command with the record of a failed check, or of a failed get.
LEMMA FailsChecked ==
    ASSUME ReaderInv, ~Attesting, opts' = opts, pc' = "done",
           exit' \in {ExitUncoded, ExitUnverified, ExitIncomplete, ExitUsage},
           out' = [out EXCEPT !.failed = @ \cup {"content"}]
    PROVE  ReaderInv'
<1>1. out' \in OutType /\ out'.code = out.code /\ out.code \in {0, ExitUnverified}
  BY DEF ReaderInv, OutType, Clean
<1>2. exit' # ExitUnreachable
  BY DEF ExitUncoded, ExitUnverified, ExitIncomplete, ExitUsage, ExitUnreachable
<1> QED
  BY <1>1, <1>2, Refused

LEMMA CheckShardCountReader == ReaderInv /\ CheckShardCount => ReaderInv'
BY FailsChecked DEF CheckShardCount, Finish, ReaderInv, Sides

LEMMA WalkRecordReader == ReaderInv /\ WalkRecord => ReaderInv'
<1> SUFFICES ASSUME ReaderInv, WalkRecord PROVE ReaderInv'
  OBVIOUS
<1>1. pc = "walk" /\ ~Attesting /\ UNCHANGED <<opts, body>>
  BY DEF WalkRecord, ReaderInv, Sides
<1>2. \/ pc' = "walk" /\ out' = out
      \/ /\ pc' = "done" /\ exit' \in {ExitUsage, ExitUnverified}
         /\ out' = [out EXCEPT !.failed = @ \cup {"content"}]
  BY <1>1 DEF WalkRecord, Finish, RecordCode
<1> QED
  BY <1>1, <1>2, FailsChecked, GoesOn

LEMMA TallyReader == ReaderInv /\ Tally => ReaderInv'
<1> SUFFICES ASSUME ReaderInv, Tally PROVE ReaderInv'
  OBVIOUS
<1>1. pc = "walk" /\ ~Attesting /\ UNCHANGED <<opts, body>>
  BY DEF Tally, ReaderInv, Sides
<1>2. TallyCode(Len(seen), AccRoot(acc)) \in {0, ExitIncomplete, ExitUnverified}
  BY DEF TallyCode
<1>3. \/ pc' = "runlog" /\ out' = out
      \/ /\ pc' = "done" /\ exit' \in {ExitIncomplete, ExitUnverified}
         /\ out' = [out EXCEPT !.failed = @ \cup {"content"}]
  BY <1>2 DEF Tally, Finish
<1> QED
  BY <1>1, <1>3, FailsChecked, GoesOn

LEMMA CheckCompletenessReader == ReaderInv /\ CheckCompleteness => ReaderInv'
<1> SUFFICES ASSUME ReaderInv, CheckCompleteness PROVE ReaderInv'
  OBVIOUS
<1>1. pc = "walk" /\ ~Attesting /\ UNCHANGED <<opts, body>>
  BY DEF CheckCompleteness, ReaderInv, Sides
<1>2. \A v : CompletenessCode(v) \in {0, ExitUsage, ExitIncomplete, ExitUnverified}
  BY DEF CompletenessCode, TallyCode
<1>3. \/ pc' = "runlog" /\ out' = out
      \/ /\ pc' = "done" /\ exit' \in {ExitUsage, ExitIncomplete, ExitUnverified}
         /\ out' = [out EXCEPT !.failed = @ \cup {"content"}]
  BY <1>2 DEF CheckCompleteness, Finish
<1> QED
  BY <1>1, <1>3, FailsChecked, GoesOn

\* A shard that could not be had or did not open ends the command; the retry code
\* leaves the record of failed checks as it was.
LEMMA ShardFails ==
    ASSUME ReaderInv, ~Attesting, UNCHANGED <<opts, fresh>>, pc # "done", NEW got \in ShardAnswers,
           NEW bare \in {ExitUncoded, ExitUnverified},
           out' = [out EXCEPT !.failed = @ \cup Failing("content", got)],
           pc' = "done", exit' = ShardCode(got, bare)
    PROVE  ReaderInv'
<1>1. Failing("content", got) \in SUBSET {"content"}
  BY DEF Failing
<1>2. /\ out' \in OutType /\ out'.code = out.code
      /\ out'.failed = out.failed \cup Failing("content", got)
      /\ out.code \in {0, ExitUnverified} /\ Tolerated
  BY <1>1 DEF ReaderInv, OutType, Clean
<1>3. exit' \in {ExitUncoded, ExitUnverified, ExitIncomplete, ExitUsage, ExitUnreachable}
  BY DEF ShardCode, CodedGet
<1>4. exit' = ExitUnreachable => Failing("content", got) = {}
  BY DEF ShardCode, CodedGet, Failing, ExitUncoded, ExitUnverified, ExitUsage, ExitUnreachable
<1>5. exit' = ExitUnreachable => Tolerated'
  <2> SUFFICES ASSUME exit' = ExitUnreachable PROVE Tolerated'
    OBVIOUS
  <2>1. out'.failed = out.failed
    BY <1>2, <1>4
  <2> QED
    BY <1>2, <2>1, ToleratedUnder
<1> QED
  BY <1>2, <1>3, <1>5, Refused

\* The walk goes on where it is.
LEMMA StaysAt ==
    ASSUME ReaderInv, UNCHANGED <<opts, out, body, fresh, logRead, root>>, pc' = pc, pc # "done"
    PROVE  ReaderInv'
<1>1. Tolerated'
  BY ToleratedUnder DEF ReaderInv, Clean
<1> QED
  BY <1>1 DEF ReaderInv, Steps, Sides, Clean, Ended, Attesting, LogSettled, Acknowledges, VerdictOf

LEMMA FetchShardReader ==
    ASSUME ReaderInv, ~Attesting, NEW at \in {"walk", "reread"},
           NEW bare \in {ExitUncoded, ExitUnverified}, FetchShard(at, bare)
    PROVE  ReaderInv'
<1>1. pc = at /\ UNCHANGED <<opts, body, fresh, logRead, root>>
  BY DEF FetchShard
<1>2. CASE pc' = "done" /\ exit' = bare /\ out' = out
  <2>1. out \in OutType /\ out.code \in {0, ExitUnverified}
    BY DEF ReaderInv, Clean
  <2>2. exit' # ExitUnreachable
    BY <1>2 DEF ExitUncoded, ExitUnverified, ExitUnreachable
  <2> QED
    BY <1>1, <1>2, <2>1, <2>2, Refused
<1>3. CASE \E got \in ShardAnswers :
              /\ out' = [out EXCEPT !.failed = @ \cup Failing("content", got)]
              /\ pc' = "done" /\ exit' = ShardCode(got, bare)
  BY <1>1, <1>3, ShardFails
<1>4. CASE pc' = pc /\ out' = out
  BY <1>1, <1>4, StaysAt
<1> QED
  BY <1>2, <1>3, <1>4 DEF FetchShard, Finish

LEMMA WalkShardReader == ReaderInv /\ WalkShard => ReaderInv'
BY FetchShardReader DEF WalkShard, ReaderInv, Sides, FetchShard

LEMMA RereadShardReader == ReaderInv /\ RereadShard => ReaderInv'
BY FetchShardReader DEF RereadShard, ReaderInv, Sides, FetchShard

LEMMA OpenShardsReader == ReaderInv /\ OpenShards => ReaderInv'
<1> SUFFICES ASSUME ReaderInv, OpenShards PROVE ReaderInv'
  OBVIOUS
<1>1. pc = "walk" /\ ~Attesting /\ UNCHANGED <<opts, body, fresh, logRead, root>>
  BY DEF OpenShards, ReaderInv, Sides
<1>2. CASE pc' = pc /\ out' = out
  BY <1>1, <1>2, StaysAt
<1>3. CASE \E got \in ShardAnswers :
              /\ out' = [out EXCEPT !.failed = @ \cup Failing("content", got)]
              /\ pc' = "done" /\ exit' = ShardCode(got, ExitUnverified)
  BY <1>1, <1>3, ShardFails
<1> QED
  BY <1>2, <1>3 DEF OpenShards, Finish

\* A leg of attest fails: the code held so far stays, and is never 0 again.
LEMMA AttestFailsReader ==
    ASSUME ReaderInv, Attesting, pc \in {"hashes", "runlog", "logsig"},
           opts' \in OptsType, opts'.cmd = opts.cmd, opts'.unverified = opts.unverified,
           NEW code \in Nat \ {0}, NEW failing \in SUBSET {"content", "log"},
           code = ExitUnreachable => failing = {}, AttestFails(code, failing)
    PROVE  ReaderInv'
<1> DEFINE c == IF out.code = 0 THEN code ELSE out.code
<1>1. /\ out \in OutType /\ c \in Nat /\ c # 0 /\ Tolerated /\ "log" \notin out.failed
      /\ out.code = ExitUnverified => c = out.code
  BY DEF ReaderInv, OutType, Clean, ExitUnverified
<1>2. out' = [out EXCEPT !.code = c, !.failed = @ \cup failing] /\ pc' = "done" /\ exit' = code
  BY DEF AttestFails, Finish
<1> HIDE DEF c
<1>3. /\ out' \in OutType /\ out'.code # 0 /\ out'.code = c
      /\ out'.failed = out.failed \cup failing
  BY <1>1, <1>2 DEF OutType
<1>4. exit' = ExitUnreachable => Tolerated'
  BY <1>1, <1>2, <1>3 DEF Tolerated, Attesting
<1> QED
  BY <1>2, <1>3, <1>4 DEF ReaderInv, Steps, Sides, Clean, Ended, Attesting

LEMMA VerifyShardHashesReader == ReaderInv /\ VerifyShardHashes => ReaderInv'
<1> SUFFICES ASSUME ReaderInv, VerifyShardHashes PROVE ReaderInv'
  OBVIOUS
<1>1. pc = "hashes" /\ Attesting /\ UNCHANGED <<opts, body, fresh, logRead, root>> /\ opts \in OptsType
  BY DEF VerifyShardHashes, ReaderInv, Sides
<1>2. CASE pc' \in {"hashes", "runlog"} /\ out' = out
  <2>1. Tolerated'
    BY <1>1, <1>2, ToleratedUnder DEF ReaderInv, Clean
  <2> QED
    BY <1>1, <1>2, <2>1 DEF ReaderInv, Steps, Sides, Clean, Ended, Attesting
<1>3. CASE AttestFails(ExitUnverified, {"content"})
  <2>1. ExitUnverified \in Nat \ {0} /\ ExitUnverified # ExitUnreachable
    BY DEF ExitUnverified, ExitUnreachable
  <2> QED
    BY <1>1, <1>3, <2>1, AttestFailsReader
<1>4. ASSUME NEW got, AttestFails(CodedGet(ExitUnverified, got), Failing("content", got))
      PROVE  ReaderInv'
  <2> DEFINE code == CodedGet(ExitUnverified, got)
             failing == Failing("content", got)
  <2>1. /\ code \in Nat \ {0} /\ failing \in SUBSET {"content", "log"}
        /\ code = ExitUnreachable => failing = {}
    BY DEF CodedGet, Failing, GetFails, ExitUnverified, ExitUnreachable
  <2>2. AttestFails(code, failing)
    BY <1>4
  <2> HIDE DEF code, failing
  <2> QED
    BY <1>1, <2>1, <2>2, AttestFailsReader
<1> QED
  BY <1>1, <1>2, <1>3, <1>4 DEF VerifyShardHashes

-----------------------------------------------------------------------------
(***************************************************************************)
(* The gates on the log.                                                   *)
(***************************************************************************)
LEMMA GateReader ==
    ASSUME ReaderInv, pc \in {"runlog", "logsig"}, opts' \in OptsType, opts'.cmd = opts.cmd,
           opts'.unverified = opts.unverified, UNCHANGED <<body, root>>,
           NEW f, NEW got,
           ~Attesting => VerdictOf(f, opts'.pin, logRead', root),
           Gate(opts', f, got)
    PROVE  ReaderInv'
<1> DEFINE code == CodedGet(ExitStale, got)
           failing == Failing("log", got)
<1>0. /\ code \in {ExitStale, ExitUnreachable} /\ failing \in SUBSET {"log"}
      /\ code = ExitUnreachable => failing = {}
  BY DEF CodedGet, Failing, GetFails, ExitStale, ExitUnreachable
<1>1. /\ out \in OutType /\ fresh' = f /\ Tolerated /\ "log" \notin out.failed
  BY DEF ReaderInv, Clean, Gate, AttestRunlog, FreshnessGate
<1>2. CASE Attesting
  <2>1. CASE f.err # "none"
    <3>1. AttestFails(code, failing)
      BY <1>2, <2>1 DEF Gate, AttestRunlog
    <3>2. code \in Nat \ {0} /\ failing \in SUBSET {"content", "log"}
      BY <1>0 DEF ExitStale, ExitUnreachable
    <3> HIDE DEF code, failing
    <3> QED
      BY <1>0, <1>2, <3>1, <3>2, AttestFailsReader
  <2>2. CASE f.err = "none"
    <3>1. pc' = "done" /\ exit' = out.code /\ out' = out
      BY <1>2, <2>2 DEF Gate, AttestRunlog, Finish
    <3>2. Tolerated'
      BY <1>1, <3>1, ToleratedStays
    <3> QED
      BY <1>1, <1>2, <3>1, <3>2 DEF ReaderInv, Steps, Sides, Clean, Ended, Attesting
  <2> QED
    BY <2>1, <2>2
<1>3. CASE ~Attesting
  <2>0. /\ FreshnessGate(opts', f, got) /\ VerdictOf(f, opts'.pin, logRead', root)
        /\ ~Attesting' /\ out.code \in {0, ExitUnverified}
        /\ body.man \in Manifests /\ CheckRecipientSet(body.man)
    BY <1>3 DEF Gate, ReaderInv, Clean, Sides, Attesting
  <2>1. CASE f.err = "none"
    <3>1. pc' = "bundle" /\ out' = out
      BY <2>0, <2>1 DEF FreshnessGate
    <3>2. LogSettled'
      BY <1>1, <2>0, <2>1 DEF LogSettled
    <3>3. Tolerated'
      BY <1>1, <3>1, ToleratedStays
    <3> QED
      BY <1>1, <2>0, <3>1, <3>2, <3>3 DEF ReaderInv, Steps, Sides, Clean, Ended
  <2>2. CASE f.err # "none"
    <3>1. out' = [out EXCEPT !.completeness = "UNVERIFIED", !.failed = @ \cup failing]
      BY <2>0, <2>2 DEF FreshnessGate
    <3>a. /\ Acknowledges(opts', f) => pc' = "bundle"
          /\ ~Acknowledges(opts', f) => pc' = "done" /\ exit' = code
      BY <2>0, <2>2 DEF FreshnessGate, Finish
    <3> HIDE DEF code, failing
    <3>2. /\ out' \in OutType /\ out'.code = out.code /\ out'.failed = out.failed \cup failing
          /\ out'.completeness = "UNVERIFIED"
      BY <1>0, <1>1, <3>1 DEF OutType
    <3>3. CASE Acknowledges(opts', f)
      <4>1. pc' = "bundle"
        BY <3>3, <3>a
      <4>2. LogSettled'
        BY <1>1, <2>0, <3>2, <3>3 DEF LogSettled, Acknowledges
      <4>3. Tolerated'
        <5>1. Acknowledges(opts, fresh)'
          BY <1>1, <3>3 DEF Acknowledges
        <5> QED
          BY <1>0, <1>1, <1>3, <2>0, <3>2, <5>1 DEF Tolerated
      <4> QED
        BY <2>0, <3>2, <4>1, <4>2, <4>3 DEF ReaderInv, Steps, Sides, Clean, Ended
    <3>4. CASE ~Acknowledges(opts', f)
      <4>1. pc' = "done" /\ exit' = code
        BY <3>4, <3>a
      <4>3. exit' = ExitUnreachable => Tolerated'
        <5> SUFFICES ASSUME exit' = ExitUnreachable PROVE Tolerated'
          OBVIOUS
        <5>1. out'.failed = out.failed
          BY <1>0, <3>2, <4>1
        <5> QED
          BY <1>1, <3>2, <5>1, ToleratedStays
      <4>2. Ended'
        BY <1>0, <1>1, <2>0, <2>2, <3>2, <3>4, <4>1, <4>3
        DEF Ended, Acknowledges, ExitStale, ExitUnreachable
      <4> QED
        BY <2>0, <3>2, <4>1, <4>2 DEF ReaderInv, Steps, Sides, Clean
    <3> QED
      BY <3>3, <3>4
  <2> QED
    BY <2>1, <2>2
<1> QED
  BY <1>2, <1>3

LEMMA ReadRunlogReader == ReaderInv /\ ReadRunlog => ReaderInv'
<1> SUFFICES ASSUME ReaderInv, ReadRunlog PROVE ReaderInv'
  OBVIOUS
<1>0. pc = "runlog" /\ UNCHANGED <<body, root>> /\ opts \in OptsType
  BY DEF ReadRunlog, ReaderInv
<1>1. PICK st, l \in BOOLEAN, p \in Pins : opts' = SetFlags(st, l, p)
  BY DEF ReadRunlog, ChooseFlags
<1>2. opts' \in OptsType /\ opts'.cmd = opts.cmd /\ opts'.unverified = opts.unverified
  <2>1. PICK a, b \in BOOLEAN : a = (opts.stale \/ st) /\ b = (opts.runlog \/ l)
    BY Zenon
  <2>2. opts' = [opts EXCEPT !.stale = a, !.runlog = b, !.pin = p]
    BY <1>1, <2>1, Zenon DEF SetFlags
  <2> QED
    BY <1>0, <2>2, PinsAssumption DEF OptsType
<1>3. CASE pc' = "logsig" /\ out' = out
  <2>1. Tolerated'
    BY <1>0, <1>2, <1>3, ToleratedStays DEF ReaderInv, Clean
  <2> QED
    BY <1>0, <1>2, <1>3, <2>1 DEF ReaderInv, Steps, Sides, Clean, Ended, Attesting
<1>4. ASSUME NEW got, Gate(opts', UncheckedFreshness, got) PROVE ReaderInv'
  BY <1>0, <1>2, <1>4, UncheckedVerdict, GateReader
<1> QED
  BY <1>3, <1>4 DEF ReadRunlog

LEMMA ReadLogSigReader == LogInv /\ ReaderInv /\ ReadLogSig => ReaderInv'
<1> SUFFICES ASSUME LogInv, ReaderInv, ReadLogSig PROVE ReaderInv'
  OBVIOUS
<1>0. pc = "logsig" /\ UNCHANGED <<body, root, opts, logRead>> /\ opts \in OptsType
  BY DEF ReadLogSig, ReaderInv
<1>1. opts' \in OptsType /\ opts'.cmd = opts.cmd /\ opts'.unverified = opts.unverified
         /\ opts.pin \in Nat
  BY <1>0 DEF OptsType
<1>2. CASE opts.cmd = "keyless" /\ Gate(opts, KeylessFreshness, "here")
  BY <1>0, <1>1, <1>2, GateReader DEF Attesting
<1>3. CASE Gate(opts, CheckFreshness(logRead.log, logSig, root, opts.pin), "here")
  BY <1>0, <1>1, <1>3, CheckIsSound, GateReader
<1>4. ASSUME NEW got, Gate(opts, UncheckedFreshness, got) PROVE ReaderInv'
  BY <1>0, <1>1, <1>4, UncheckedVerdict, GateReader
<1> QED
  BY <1>2, <1>3, <1>4 DEF ReadLogSig

-----------------------------------------------------------------------------
(***************************************************************************)
(* The tail of the commands.                                               *)
(***************************************************************************)
LEMMA BundleReader == ReaderInv /\ Bundle => ReaderInv'
<1> SUFFICES ASSUME ReaderInv, Bundle PROVE ReaderInv'
  OBVIOUS
<1>0. /\ pc = "bundle" /\ UNCHANGED <<opts, body, fresh, logRead, root>> /\ ~Attesting
      /\ out \in OutType /\ out.code \in {0, ExitUnverified} /\ LogSettled
  BY DEF Bundle, ReaderInv, Sides, Clean
<1>1. PICK asked \in BOOLEAN, got \in {"ok", "altered"} \cup GetFails :
          /\ out' = [out EXCEPT !.bundle = asked /\ ~(asked /\ got # "ok"),
                        !.code = IF (asked /\ got # "ok") /\ @ = 0 THEN ExitUnverified ELSE @,
                        !.failed = IF asked /\ got # "ok" THEN @ \cup Failing("bundle", got) ELSE @]
          /\ IF (asked /\ got # "ok") /\ ~opts.unverified
             THEN pc' = "done" /\ exit' = ExitUnverified
             ELSE pc' \in {"report", "reread"}
  BY DEF Bundle, Finish
<1>2. PICK fails \in BOOLEAN : fails = (asked /\ got # "ok")
  BY Zenon
<1> DEFINE c == IF fails /\ out.code = 0 THEN ExitUnverified ELSE out.code
           more == IF fails THEN Failing("bundle", got) ELSE {}
<1>3. PICK b \in BOOLEAN : b = (asked /\ ~fails)
  BY Zenon
<1>4. /\ c \in {0, ExitUnverified} /\ c \in Nat /\ more \in SUBSET {"bundle"}
      /\ ~fails => more = {}
  BY <1>0 DEF ExitUnverified, Failing
<1>5. out' = [out EXCEPT !.bundle = b, !.code = c, !.failed = @ \cup more]
  <2>1. out' = [out EXCEPT !.bundle = b, !.code = c,
                           !.failed = IF fails THEN @ \cup Failing("bundle", got) ELSE @]
    BY <1>1, <1>2, <1>3, Zenon
  <2>2. (IF fails THEN out.failed \cup Failing("bundle", got) ELSE out.failed) = out.failed \cup more
    OBVIOUS
  <2> QED
    BY <2>1, <2>2, Zenon
<1>6. IF fails /\ ~opts.unverified THEN pc' = "done" /\ exit' = ExitUnverified
      ELSE pc' \in {"report", "reread"}
  BY <1>1, <1>2, Zenon
<1> HIDE DEF c, more
<1>7. /\ out' \in OutType /\ out'.code = c /\ out'.failed = out.failed \cup more
      /\ out'.completeness = out.completeness
  BY <1>0, <1>4, <1>5 DEF OutType
<1>8. CASE fails /\ ~opts.unverified
  <2>1. pc' = "done" /\ exit' = ExitUnverified /\ exit' # ExitUnreachable
    BY <1>6, <1>8 DEF ExitUnverified, ExitUnreachable
  <2> QED
    BY <1>0, <1>4, <1>7, <2>1, Refused
<1>9. CASE ~fails \/ opts.unverified
  <2>1. LogSettled' /\ pc' \in {"report", "reread"}
    BY <1>0, <1>6, <1>7, <1>9 DEF LogSettled, Acknowledges
  <2>2. Tolerated'
    BY <1>0, <1>4, <1>7, <1>9 DEF ReaderInv, Clean, Tolerated, Attesting, Acknowledges
  <2> QED
    BY <1>0, <1>4, <1>7, <2>1, <2>2 DEF ReaderInv, Steps, Sides, Clean, Ended, Attesting
<1> QED
  BY <1>8, <1>9

LEMMA RereadReader == ReaderInv /\ (RereadRecord \/ RereadDone) => ReaderInv'
<1>1. ReaderInv /\ RereadRecord => ReaderInv'
  BY StaysAt DEF RereadRecord
<1>2. ReaderInv /\ RereadDone => ReaderInv'
  <2> SUFFICES ASSUME ReaderInv, RereadDone PROVE ReaderInv'
    OBVIOUS
  <2>1. Tolerated'
    BY ToleratedUnder DEF RereadDone, ReaderInv, Clean
  <2> QED
    BY <2>1 DEF RereadDone, ReaderInv, Steps, Sides, Clean, Ended, Attesting, LogSettled, Acknowledges
<1> QED
  BY <1>1, <1>2

LEMMA ReportReader == ReaderInv /\ Report => ReaderInv'
<1> SUFFICES ASSUME ReaderInv, Report PROVE ReaderInv'
  OBVIOUS
<1>0. /\ pc = "report" /\ UNCHANGED <<opts, out, body, fresh, logRead, root>> /\ ~Attesting
      /\ pc' = "done" /\ exit' \in {out.code, ExitUncoded, ExitUsage}
  BY DEF Report, Finish, ReaderInv, Sides
<1>1. exit' \in {0, ExitUnverified, ExitUncoded, ExitUsage}
  BY <1>0 DEF ReaderInv, Clean
<1>2. LogSettled'
  BY <1>0 DEF ReaderInv, LogSettled, Acknowledges
<1>3. Ended'
  BY <1>0, <1>1, <1>2 DEF ReaderInv, Sides, Ended, Attesting, ExitUnverified, ExitUncoded,
       ExitUsage, ExitStale, ExitUnreachable
<1> QED
  BY <1>0, <1>3 DEF ReaderInv, Steps, Sides, Clean, Attesting

LEMMA NextReader == LogInv /\ ReaderInv /\ [Next]_vars => ReaderInv'
<1> SUFFICES ASSUME LogInv, ReaderInv, [Next]_vars PROVE ReaderInv'
  OBVIOUS
<1>1. CASE Engine \/ UNCHANGED vars
  <2>1. UNCHANGED reader
    BY <1>1 DEF Engine, Trigger, Finalise, SignLog, Garble, Tamper, vars
  <2>2. Tolerated => Tolerated'
    BY <2>1, ToleratedUnder DEF reader
  <2> QED
    BY <2>1, <2>2 DEF reader, ReaderInv, Steps, Sides, Clean, Ended, Attesting, LogSettled,
         Acknowledges, VerdictOf
<1>2. CASE Reader
  BY <1>2, StartReader, ReadRootReader, SignatureGateReader, ClassifySignatureReader,
     RootGatesReader, CheckShardCountReader, WalkShardReader, WalkRecordReader, TallyReader,
     OpenShardsReader, CheckCompletenessReader, VerifyShardHashesReader, ReadRunlogReader,
     ReadLogSigReader, BundleReader, RereadShardReader, RereadReader, ReportReader
  DEF Reader
<1> QED
  BY <1>1, <1>2 DEF Next

LEMMA AllInv == Spec => [](LogInv /\ ReaderInv)
BY InitLogInv, InitReader, NextLogInv, NextReader, PTL DEF Spec

-----------------------------------------------------------------------------
\* A run that was opened and called complete is the newest its downpipe had in the
\* log when it was read, unless the log was cut back, and then not below the pin: an
\* entry left out, renumbered or forked is found out, however many runs there are.
THEOREM CompleteIsLatest == Spec => []CompleteMeansLatest
<1>1. ReaderInv => CompleteMeansLatest
  BY DEF ReaderInv, Ended, LogSettled, VerdictOf, CompleteMeansLatest, Opened
<1> QED
  BY <1>1, AllInv, PTL

\* --allow-stale opens no run under a log that was not read whole, signed and sound.
THEOREM AgeWordIsNarrow == Spec => []AgeWordNeverCoversTheLog
<1>1. ReaderInv => AgeWordNeverCoversTheLog
  BY DEF ReaderInv, Ended, LogSettled, VerdictOf, Acknowledges, AgeWordNeverCoversTheLog, Opened
<1> QED
  BY <1>1, AllInv, PTL

\* The flag the stale exit names would have let the command go on, and no narrower one.
THEOREM HintIsRight == Spec => []HintNamesTheRightFlag
<1>1. ReaderInv => HintNamesTheRightFlag
  <2> SUFFICES ASSUME ReaderInv, pc = "done", exit = ExitStale, ~Attesting
      PROVE  LET with(f) == [opts EXCEPT !.stale = @ \/ f = "stale", !.runlog = @ \/ f = "runlog"]
             IN  /\ Acknowledges(with(Hint), fresh)
                 /\ Hint = "runlog" => ~Acknowledges(with("stale"), fresh)
    BY DEF HintNamesTheRightFlag
  <2>1. /\ fresh.err # "none" /\ ~Acknowledges(opts, fresh) /\ opts \in OptsType
        /\ VerdictOf(fresh, opts.pin, logRead, root)
    BY DEF ReaderInv, Ended
  <2>2. fresh.untrusted <=> Hint = "runlog"
    BY <2>1 DEF VerdictOf, Hint
  <2> QED
    BY <2>1, <2>2 DEF Acknowledges, OptsType, Hint
<1> QED
  BY <1>1, AllInv, PTL

\* An opened run can be opened by its break-glass recipient, whatever recipients and
\* wraps its root lists.
THEOREM BreakGlassAlwaysOpens == Spec => []BreakGlassCanOpen
<1>1. ReaderInv => BreakGlassCanOpen
  BY BreakGlassHasWrap DEF ReaderInv, Sides, Ended, BreakGlassCanOpen, Opened
<1> QED
  BY <1>1, AllInv, PTL

\* The retry code never replaces a refusal, in any command: what failed over retrieved
\* bytes before the get that was unreachable is covered by the operator's flags, the
\* log's failures by the freshness flags included, or is attest's signature, which its
\* result reports.
THEOREM RetryCodeIsHonest == Spec => []RetryCodeHidesNothing
<1>1. ReaderInv => RetryCodeHidesNothing
  BY DEF ReaderInv, Ended, RetryCodeHidesNothing
<1> QED
  BY <1>1, AllInv, PTL

\* attest's result and its exit status agree.
THEOREM AttestAlwaysAgrees == Spec => []AttestAgrees
<1>1. ReaderInv => AttestAgrees
  BY DEF ReaderInv, Ended, AttestAgrees
<1> QED
  BY <1>1, AllInv, PTL

-----------------------------------------------------------------------------
(* The second walk's records and the first's. *)

\* f is the function by which the records of the first k shards of l are counted.
SumsTo(f, l, k) == f = [i \in 0 .. k |-> IF i = 0 THEN 0 ELSE f[i - 1] + l[i]]

\* The function by which RecordsBefore is computed exists.
LEMMA SumsToExists ==
    ASSUME NEW l, NEW k \in Nat
    PROVE  \E f : SumsTo(f, l, k)
<1> DEFINE S == {n \in Nat : \E f : SumsTo(f, l, n)}
<1>1. 0 \in S
  <2> DEFINE f == [i \in 0 .. 0 |-> 0]
  <2>1. SumsTo(f, l, 0)
    BY DEF SumsTo
  <2> QED BY <2>1
<1>2. ASSUME NEW n \in Nat, n \in S PROVE n + 1 \in S
  <2>1. PICK f : SumsTo(f, l, n)
    BY <1>2
  <2> DEFINE g == [i \in 0 .. n + 1 |-> IF i = n + 1 THEN f[n] + l[n + 1] ELSE f[i]]
  <2>2. \A i \in 0 .. n : f[i] = IF i = 0 THEN 0 ELSE f[i - 1] + l[i]
    BY <2>1 DEF SumsTo
  <2>3. \A i \in 0 .. n + 1 : g[i] = IF i = 0 THEN 0 ELSE g[i - 1] + l[i]
    BY <2>2
  <2>4. g = [i \in 0 .. n + 1 |-> g[i]]
    OBVIOUS
  <2> HIDE DEF g
  <2>5. SumsTo(g, l, n + 1)
    BY <2>3, <2>4 DEF SumsTo
  <2> QED BY <2>5
<1>3. Nat \subseteq S
  <2> HIDE DEF S
  <2> QED BY <1>1, <1>2, InductionOnNat
<1> QED BY <1>3

\* RecordsBefore is its last value.
LEMMA RecordsBeforeIs ==
    ASSUME NEW l, NEW k \in Nat
    PROVE  \E f : SumsTo(f, l, k) /\ RecordsBefore(l, k) = f[k]
<1> DEFINE F == CHOOSE f : SumsTo(f, l, k)
<1>1. SumsTo(F, l, k)
  BY SumsToExists
<1>2. RecordsBefore(l, k) = F[k]
  BY DEF RecordsBefore, SumsTo
<1> QED BY <1>1, <1>2

\* Two such functions agree where both are defined.
LEMMA SumsToAgree ==
    ASSUME NEW l, NEW k \in Nat, NEW m \in Nat, k <= m, NEW f, NEW g,
           SumsTo(f, l, k), SumsTo(g, l, m)
    PROVE  \A i \in 0 .. k : f[i] = g[i]
<1> DEFINE S == {n \in Nat : n <= k => f[n] = g[n]}
<1>0. /\ \A i \in 0 .. k : f[i] = IF i = 0 THEN 0 ELSE f[i - 1] + l[i]
      /\ \A i \in 0 .. m : g[i] = IF i = 0 THEN 0 ELSE g[i - 1] + l[i]
  BY DEF SumsTo
<1>1. 0 \in S
  BY <1>0
<1>2. ASSUME NEW n \in Nat, n \in S PROVE n + 1 \in S
  <2> SUFFICES ASSUME n + 1 <= k PROVE f[n + 1] = g[n + 1]
    OBVIOUS
  <2>1. f[n] = g[n] /\ n + 1 \in 0 .. k /\ n + 1 \in 0 .. m /\ n + 1 # 0 /\ (n + 1) - 1 = n
    BY <1>2
  <2>2. f[n + 1] = f[n] + l[n + 1] /\ g[n + 1] = g[n] + l[n + 1]
    BY <1>0, <2>1
  <2> QED BY <2>1, <2>2
<1>3. Nat \subseteq S
  <2> HIDE DEF S
  <2> QED BY <1>1, <1>2, InductionOnNat
<1> QED BY <1>3

\* The records before a shard, one shard at a time.
LEMMA RecordsBeforeStep ==
    ASSUME NEW l, NEW k \in Nat
    PROVE  /\ RecordsBefore(l, 0) = 0
           /\ RecordsBefore(l, k + 1) = RecordsBefore(l, k) + l[k + 1]
<1>1. PICK f : SumsTo(f, l, 0) /\ RecordsBefore(l, 0) = f[0]
  BY RecordsBeforeIs, 0 \in Nat
<1>2. RecordsBefore(l, 0) = 0
  <2>1. f[0] = 0
    BY <1>1, 0 \in 0 .. 0 DEF SumsTo
  <2> QED BY <1>1, <2>1
<1>3. PICK g : SumsTo(g, l, k) /\ RecordsBefore(l, k) = g[k]
  BY RecordsBeforeIs
<1>4. PICK h : SumsTo(h, l, k + 1) /\ RecordsBefore(l, k + 1) = h[k + 1]
  BY RecordsBeforeIs, k + 1 \in Nat
<1>5. g[k] = h[k]
  <2>1. k + 1 \in Nat /\ k <= k + 1 /\ k \in 0 .. k
    OBVIOUS
  <2> QED BY <1>3, <1>4, <2>1, SumsToAgree
<1>6. h[k + 1] = h[k] + l[k + 1]
  <2>1. k + 1 \in 0 .. k + 1 /\ k + 1 # 0 /\ (k + 1) - 1 = k
    OBVIOUS
  <2> QED BY <1>4, <2>1 DEF SumsTo
<1> QED BY <1>2, <1>3, <1>4, <1>5, <1>6

\* They are a number, and grow with the shards.
LEMMA RecordsBeforeGrow ==
    ASSUME NEW l \in Seq(Nat)
    PROVE  /\ \A k \in 0 .. Len(l) : RecordsBefore(l, k) \in Nat
           /\ \A j \in 0 .. Len(l) : \A k \in 0 .. j : RecordsBefore(l, k) <= RecordsBefore(l, j)
<1> DEFINE rb(k) == RecordsBefore(l, k)
           S == {n \in Nat : n <= Len(l) => rb(n) \in Nat /\ \A k \in 0 .. n : rb(k) \in Nat /\ rb(k) <= rb(n)}
<1>0. rb(0) = 0 /\ \A n \in Nat : rb(n + 1) = rb(n) + l[n + 1]
  BY RecordsBeforeStep, 0 \in Nat
<1>1. 0 \in S
  <2>1. \A k \in 0 .. 0 : k = 0
    OBVIOUS
  <2> HIDE DEF rb
  <2> QED BY <1>0, <2>1
<1> HIDE DEF rb
<1>2. ASSUME NEW n \in Nat, n \in S PROVE n + 1 \in S
  <2> SUFFICES ASSUME n + 1 <= Len(l)
               PROVE  rb(n + 1) \in Nat /\ \A k \in 0 .. n + 1 : rb(k) \in Nat /\ rb(k) <= rb(n + 1)
    OBVIOUS
  <2>1. rb(n) \in Nat /\ (\A k \in 0 .. n : rb(k) \in Nat /\ rb(k) <= rb(n)) /\ l[n + 1] \in Nat
    BY <1>2
  <2>2. rb(n + 1) \in Nat /\ rb(n) <= rb(n + 1)
    <3>1. rb(n + 1) = rb(n) + l[n + 1]
      BY <1>0
    <3> QED BY <2>1, <3>1
  <2>3. ASSUME NEW k \in 0 .. n + 1 PROVE rb(k) \in Nat /\ rb(k) <= rb(n + 1)
    <3>1. CASE k = n + 1
      BY <2>2, <3>1
    <3>2. CASE k # n + 1
      <4>1. k \in 0 .. n
        BY <3>2
      <4>2. rb(k) \in Nat /\ rb(k) <= rb(n)
        BY <2>1, <4>1
      <4> QED BY <2>1, <2>2, <4>1, <4>2
    <3> QED BY <3>1, <3>2
  <2> QED BY <2>2, <2>3
<1>3. Nat \subseteq S
  <2> HIDE DEF S
  <2> QED BY <1>1, <1>2, InductionOnNat
<1>4. ASSUME NEW n \in 0 .. Len(l) PROVE n \in S
  <2> HIDE DEF S
  <2> QED BY <1>3
<1> QED BY <1>4 DEF rb
-----------------------------------------------------------------------------
\* The records of s are those that follow the first n of the run.
Numbered(s, n) == \A i \in DOMAIN s : s[i] = n + i

\* Before the first walk no record is verified or handed over.
Early == {"idle", "root", "sig", "gates"}

\* The records in the shards of this run up to k.
Before(k) == RecordsBefore(body.shards, k)

(***************************************************************************)
(* How far the two walks are: a walk has taken the records of the shards   *)
(* before the current one, in order, those in its buffer excepted.         *)
(***************************************************************************)
WalkInv ==
    /\ body.shards \in Seq(Nat) /\ seen \in Seq(Nat) /\ handed \in Seq(Nat) /\ buf \in Seq(Nat)
    /\ shard \in Nat \ {0} /\ Numbered(seen, 0)
    /\ pc \in Early => shard = 1
    /\ pc \in Early \cup {"hashes"} => seen = <<>>
    /\ pc \in Early \cup {"hashes", "runlog", "logsig", "bundle"} => buf = <<>>
    /\ pc \notin {"reread", "report", "done"} => handed = <<>>
    /\ pc = "walk" =>
          /\ shard <= Len(body.shards) + 1 /\ Numbered(buf, Len(seen))
          /\ Len(seen) + Len(buf) = Before(shard - 1)
          /\ opts.cmd = "inspect" => buf = <<>>
    /\ pc \in {"runlog", "logsig", "bundle", "reread"} /\ opts.cmd = "verify" =>
          Len(seen) = Before(Len(body.shards))
    /\ pc = "reread" =>
          /\ opts.cmd = "verify" /\ shard <= Len(body.shards) + 1
          /\ Numbered(handed, 0) /\ Numbered(buf, Len(handed))
          /\ Len(handed) + Len(buf) = Before(shard - 1)
    /\ HandedOverWasVerified

\* Nothing is verified or handed over at first.
LEMMA InitWalk == Init => WalkInv
  BY DEF Init, WalkInv, NoBody, Numbered, HandedOverWasVerified, Early

\* The command ends, or goes on to its report.
LEMMA WalkEnds ==
    ASSUME WalkInv, pc' \in {"report", "done"}, UNCHANGED <<seen, handed>>,
           body'.shards \in Seq(Nat), shard' \in Nat \ {0}, buf' \in Seq(Nat)
    PROVE  WalkInv'
  BY DEF WalkInv, Numbered, HandedOverWasVerified, Early

\* The reader passes a gate.
LEMMA WalkWaits ==
    ASSUME WalkInv, UNCHANGED <<body, seen, handed, buf, shard>>, opts'.cmd = opts.cmd,
           pc' # "walk", pc' # "reread", pc \notin {"reread", "report", "done"},
           pc' \in Early => pc \in Early, pc' = "hashes" => pc \in Early \cup {"hashes"},
           pc' \in {"runlog", "logsig", "bundle"} => pc \in {"runlog", "logsig", "bundle"}
    PROVE  WalkInv'
  BY DEF WalkInv, Numbered, HandedOverWasVerified, Early, Before

\* The records of one shard continue those before it.
LEMMA RecordsOfShard ==
    ASSUME NEW l \in Seq(Nat), NEW k \in 1 .. Len(l)
    PROVE  /\ RecordsOf(l, k) \in Seq(Nat) /\ Numbered(RecordsOf(l, k), RecordsBefore(l, k - 1))
           /\ RecordsBefore(l, k - 1) \in Nat
           /\ RecordsBefore(l, k - 1) + Len(RecordsOf(l, k)) = RecordsBefore(l, k)
<1>1. l[k] \in Nat /\ k - 1 \in Nat /\ k - 1 \in 0 .. Len(l) /\ (k - 1) + 1 = k
  OBVIOUS
<1>2. RecordsBefore(l, k - 1) \in Nat
  BY <1>1, RecordsBeforeGrow
<1>3. RecordsBefore(l, (k - 1) + 1) = RecordsBefore(l, k - 1) + l[(k - 1) + 1]
  BY <1>1, RecordsBeforeStep
<1>4. RecordsOf(l, k) \in Seq(Nat) /\ Len(RecordsOf(l, k)) = l[k]
  BY <1>1, <1>2 DEF RecordsOf
<1>5. Numbered(RecordsOf(l, k), RecordsBefore(l, k - 1))
  BY DEF RecordsOf, Numbered
<1> QED BY <1>1, <1>2, <1>3, <1>4, <1>5

\* Both walks: a shard that opens fills the buffer with its records.
LEMMA FetchWalk ==
    ASSUME ReaderInv, WalkInv, NEW at \in {"walk", "reread"}, NEW bare, FetchShard(at, bare),
           at = "walk" => opts.cmd # "inspect"
    PROVE  WalkInv'
<1>0. /\ pc = at /\ buf = <<>> /\ shard <= Len(body.shards) /\ UNCHANGED <<opts, body, seen, handed>>
  BY DEF FetchShard
<1>1. CASE pc' = "done" /\ UNCHANGED <<buf, shard>>
  BY <1>0, <1>1, WalkEnds DEF WalkInv
<1>2. CASE buf' = Decoded("ok", shard) /\ shard' = shard + 1 /\ pc' = pc
  <2> DEFINE l == body.shards  r == RecordsOf(l, shard)
  <2>1. l \in Seq(Nat) /\ shard \in 1 .. Len(l) /\ shard \in Nat \ {0}
    BY <1>0 DEF WalkInv
  <2>2. buf' = r
    BY <1>2 DEF Decoded
  <2> HIDE DEF l
  <2>3. /\ r \in Seq(Nat) /\ Numbered(r, RecordsBefore(l, shard - 1))
        /\ RecordsBefore(l, shard - 1) \in Nat
        /\ RecordsBefore(l, shard - 1) + Len(r) = RecordsBefore(l, shard)
    BY <2>1, RecordsOfShard
  <2> HIDE DEF r
  <2>4. \A k : Before(k) = RecordsBefore(l, k) /\ Before(k)' = RecordsBefore(l, k)
    BY <1>0 DEF Before, l
  <2>5. Len(buf) = 0 /\ Len(seen) \in Nat /\ Len(handed) \in Nat
    BY <1>0 DEF WalkInv
  <2>6. shard' - 1 = shard /\ shard' \in Nat \ {0} /\ shard' <= Len(l) + 1
    BY <1>2, <2>1
  <2>9. Before(shard - 1)' = RecordsBefore(l, shard) /\ Before(Len(body.shards))' = Before(Len(body.shards))
    BY <1>0, <2>6 DEF Before, l
  <2>7. CASE pc = "walk"
    <3>1. Len(seen) = RecordsBefore(l, shard - 1)
      BY <2>4, <2>5, <2>7 DEF WalkInv
    <3>2. Len(seen) + Len(buf') = Before(shard - 1)'
      BY <2>2, <2>3, <2>9, <3>1
    <3>3. Numbered(buf', Len(seen)) /\ opts.cmd # "inspect" /\ Len(body'.shards) = Len(l)
      BY <1>0, <2>2, <2>3, <2>7, <3>1 DEF l
    <3> QED BY <1>0, <1>2, <2>2, <2>3, <2>9, <2>6, <2>7, <3>2, <3>3
            DEF WalkInv, Numbered, HandedOverWasVerified, Early
  <2>8. CASE pc = "reread"
    <3>1. Len(handed) = RecordsBefore(l, shard - 1)
      BY <2>4, <2>5, <2>8 DEF WalkInv
    <3>2. Len(handed) + Len(buf') = Before(shard - 1)'
      BY <2>2, <2>3, <2>9, <3>1
    <3>3. Numbered(buf', Len(handed)) /\ Len(body'.shards) = Len(l)
      BY <1>0, <2>2, <2>3, <3>1 DEF l
    <3> QED BY <1>0, <1>2, <2>2, <2>3, <2>9, <2>6, <2>8, <3>2, <3>3
            DEF WalkInv, Numbered, HandedOverWasVerified, Early
  <2> QED BY <1>0, <2>7, <2>8
<1> QED BY <1>1, <1>2 DEF FetchShard, ShardOpens, Finish

\* The first of the records in the buffer is the next one.
LEMMA NextRecord ==
    ASSUME NEW s \in Seq(Nat), NEW b \in Seq(Nat), b # <<>>, Numbered(s, 0), Numbered(b, Len(s))
    PROVE  /\ Append(s, Head(b)) \in Seq(Nat) /\ Numbered(Append(s, Head(b)), 0)
           /\ Tail(b) \in Seq(Nat) /\ Numbered(Tail(b), Len(s) + 1)
           /\ Len(Append(s, Head(b))) = Len(s) + 1 /\ Len(b) = Len(Tail(b)) + 1
           /\ Head(b) = Len(s) + 1
<1>1. Head(b) = Len(s) + 1 /\ Head(b) \in Nat /\ Len(b) \in Nat \ {0}
  BY DEF Numbered
<1>2. Append(s, Head(b)) \in Seq(Nat) /\ Len(Append(s, Head(b))) = Len(s) + 1
  BY <1>1
<1>3. Numbered(Append(s, Head(b)), 0)
  <2> DEFINE x == Len(s) + 1
  <2>1. x \in Nat /\ Len(s) + 1 = x
    OBVIOUS
  <2> SUFFICES ASSUME NEW i \in DOMAIN Append(s, x) PROVE Append(s, x)[i] = 0 + i
    BY <1>1 DEF Numbered
  <2>2. i \in 1 .. Len(s) + 1
    BY <2>1
  <2>3. CASE i \in 1 .. Len(s)
    BY <2>3 DEF Numbered
  <2>4. CASE i = Len(s) + 1
    BY <2>4
  <2> QED BY <2>2, <2>3, <2>4
<1>4. Tail(b) \in Seq(Nat) /\ Len(Tail(b)) = Len(b) - 1
  BY <1>1
<1>5. Numbered(Tail(b), Len(s) + 1)
  <2> SUFFICES ASSUME NEW i \in 1 .. Len(b) - 1 PROVE Tail(b)[i] = (Len(s) + 1) + i
    BY <1>4 DEF Numbered
  <2>1. Tail(b)[i] = b[i + 1] /\ i + 1 \in DOMAIN b
    BY <1>1
  <2>2. b[i + 1] = Len(s) + (i + 1)
    BY <2>1 DEF Numbered
  <2> QED BY <2>1, <2>2
<1> QED BY <1>1, <1>2, <1>3, <1>4, <1>5

\* First walk: the buffer's first record is verified and committed.
LEMMA WalkRecordWalk ==
    ASSUME ReaderInv, WalkInv, WalkRecord
    PROVE  WalkInv'
<1>0. pc = "walk" /\ buf # <<>> /\ opts.cmd # "inspect" /\ UNCHANGED <<opts, body, shard, handed>>
  BY DEF WalkRecord
<1>1. CASE pc' = "done" /\ UNCHANGED <<seen, buf>>
  BY <1>0, <1>1, WalkEnds DEF WalkInv
<1>2. CASE pc' = pc /\ seen' = Append(seen, Head(buf)) /\ buf' = Tail(buf)
  <2>1. /\ seen' \in Seq(Nat) /\ Numbered(seen', 0) /\ buf' \in Seq(Nat)
        /\ Numbered(buf', Len(seen) + 1) /\ Len(seen') = Len(seen) + 1 /\ Len(buf) = Len(buf') + 1
    BY <1>0, <1>2, NextRecord DEF WalkInv
  <2>2. \A k : Before(k)' = Before(k)
    BY <1>0 DEF Before
  <2>3. Len(seen) \in Nat /\ Len(buf') \in Nat /\ Len(seen) + Len(buf) = Before(shard - 1)
    BY <1>0, <2>1 DEF WalkInv
  <2>4. Len(seen') + Len(buf') = Before(shard - 1)
    BY <2>1, <2>3
  <2>5. handed = <<>>
    BY <1>0 DEF WalkInv
  <2>6. Numbered(buf', Len(seen')) /\ HandedOverWasVerified'
    BY <1>0, <2>1, <2>5 DEF HandedOverWasVerified
  <2> QED BY <1>0, <1>2, <2>1, <2>2, <2>4, <2>5, <2>6 DEF WalkInv, Numbered, Early
<1> QED BY <1>1, <1>2 DEF WalkRecord, Finish

\* Second walk: the buffer's first record is handed over.
LEMMA RereadRecordWalk ==
    ASSUME ReaderInv, WalkInv, RereadRecord
    PROVE  WalkInv'
<1>0. /\ pc = "reread" /\ buf # <<>> /\ UNCHANGED <<pc, opts, body, shard, seen>>
      /\ handed' = Append(handed, Head(buf)) /\ buf' = Tail(buf)
  BY DEF RereadRecord
<1>1. /\ handed' \in Seq(Nat) /\ Numbered(handed', 0) /\ buf' \in Seq(Nat)
      /\ Numbered(buf', Len(handed) + 1) /\ Len(handed') = Len(handed) + 1 /\ Len(buf) = Len(buf') + 1
  BY <1>0, NextRecord DEF WalkInv
<1>2. \A k : Before(k)' = Before(k)
  BY <1>0 DEF Before
<1>3. /\ Len(handed) \in Nat /\ Len(buf') \in Nat /\ Len(handed) + Len(buf) = Before(shard - 1)
      /\ shard <= Len(body.shards) + 1 /\ Len(seen) = Before(Len(body.shards)) /\ opts.cmd = "verify"
  BY <1>0, <1>1 DEF WalkInv
<1>4. Len(handed') + Len(buf') = Before(shard - 1)
  BY <1>1, <1>3
<1>5. Before(shard - 1) \in Nat /\ Before(shard - 1) <= Before(Len(body.shards)) /\ Len(seen) \in Nat
  <2>1. /\ body.shards \in Seq(Nat) /\ Len(body.shards) \in 0 .. Len(body.shards)
        /\ shard - 1 \in 0 .. Len(body.shards)
    BY <1>3 DEF WalkInv
  <2> DEFINE l == body.shards
  <2>2. l \in Seq(Nat) /\ Len(l) \in 0 .. Len(l) /\ shard - 1 \in 0 .. Len(l)
    BY <2>1
  <2> HIDE DEF l
  <2>3. RecordsBefore(l, shard - 1) \in Nat /\ RecordsBefore(l, shard - 1) <= RecordsBefore(l, Len(l))
    BY <2>2, RecordsBeforeGrow
  <2> QED BY <2>3 DEF Before, l, WalkInv
<1>6. Len(handed') <= Len(seen)
  BY <1>1, <1>3, <1>4, <1>5
<1>7. HandedOverWasVerified'
  <2> SUFFICES ASSUME NEW i \in DOMAIN handed' PROVE handed'[i] = seen[i]
    BY <1>0, <1>6 DEF HandedOverWasVerified
  <2>1. i \in DOMAIN seen
    BY <1>1, <1>5, <1>6 DEF WalkInv
  <2> QED BY <1>1, <2>1 DEF Numbered, WalkInv
<1>8. Numbered(buf', Len(handed'))
  BY <1>1
<1> QED BY <1>0, <1>1, <1>2, <1>3, <1>4, <1>7, <1>8 DEF WalkInv, Numbered, Early

\* The layouts of shards a body names are sequences of counts.
LEMMA BodyShards ==
    ASSUME NEW r \in Bodies PROVE r.shards \in Seq(Nat)
<1> DEFINE count(l, wrong) == Len(l) + (IF wrong = "shardCount" THEN 1 ELSE 0)
           total(l, wrong) == RecordTotal(l) + (IF wrong = "count" THEN 1 ELSE 0)
           tree(l, wrong) == IF wrong = "merkle" THEN LeafHash(0)
                             ELSE MerkleRoot([i \in 1 .. RecordTotal(l) |-> i])
<1>1. r \in {[parsed |-> TRUE, shards |-> l, man |-> m, shardCount |-> count(l, wrong),
              declared |-> total(l, wrong), merkle |-> tree(l, wrong)] :
             l \in Layouts, m \in Manifests, wrong \in {"none", "shardCount", "count", "merkle"}}
  BY DEF Bodies
<1> HIDE DEF count, total, tree
<1>2. r.shards \in Layouts
  BY <1>1
<1> QED BY <1>2, LayoutsAssumption

\* The gates between the body and the first walk read no record.
LEMMA RootGatesWalk ==
    ASSUME ReaderInv, WalkInv, RootGates
    PROVE  WalkInv'
<1>0. pc = "gates" /\ UNCHANGED <<opts, seen, handed, buf, shard>>
  BY DEF RootGates
<1>1. /\ body' = body \/ body' \in Bodies
      /\ pc' = "done" \/ (pc' \in {"walk", "hashes"} /\ body' \in Bodies)
  BY DEF RootGates, Finish
<1>2. body'.shards \in Seq(Nat)
  BY <1>1, BodyShards DEF WalkInv
<1>3. /\ seen = <<>> /\ handed = <<>> /\ buf = <<>> /\ shard = 1
  BY <1>0 DEF WalkInv, Early
<1>4. CASE pc' = "done"
  BY <1>0, <1>2, <1>3, <1>4, WalkEnds DEF WalkInv
<1>5. CASE pc' \in {"walk", "hashes"}
  <2>1. Before(shard - 1)' = 0
    <3>1. shard' - 1 = 0
      BY <1>0, <1>3
    <3>2. RecordsBefore(body'.shards, 0) = 0
      BY RecordsBeforeStep, 0 \in Nat
    <3> QED BY <3>1, <3>2 DEF Before
  <2>2. Len(seen) + Len(buf) = 0 /\ 1 <= Len(body'.shards) + 1
    BY <1>2, <1>3
  <2> QED BY <1>0, <1>2, <1>3, <1>5, <2>1, <2>2 DEF WalkInv, Numbered, HandedOverWasVerified, Early
<1> QED BY <1>1, <1>4, <1>5

\* Every step preserves the invariant of the two walks.
LEMMA NextWalk ==
    ASSUME ReaderInv, WalkInv, [Next]_vars
    PROVE  WalkInv'
<1>1. CASE Engine \/ UNCHANGED vars
  <2>1. UNCHANGED reader
    BY <1>1 DEF Engine, Trigger, Finalise, SignLog, Garble, Tamper, vars
  <2> QED BY <2>1 DEF reader, WalkInv, Numbered, HandedOverWasVerified, Early, Before
<1>2. CASE Start
  <2>1. /\ shard' = 1 /\ buf' = <<>> /\ seen' = <<>> /\ handed' = <<>> /\ body' = NoBody /\ pc' = "root"
    BY <1>2 DEF Start
  <2> QED BY <2>1 DEF WalkInv, NoBody, Numbered, HandedOverWasVerified, Early
<1>3. CASE ReadRoot
  <2>1. pc = "root" /\ pc' \in {"done", "sig"} /\ UNCHANGED <<opts, body, shard, buf, seen, handed>>
    BY <1>3 DEF ReadRoot, Finish
  <2> QED BY <2>1, WalkEnds, WalkWaits DEF WalkInv, Early
<1>4. CASE SignatureGate
  <2>1. pc = "sig" /\ pc' \in {"done", "gates"} /\ UNCHANGED <<opts, body, shard, buf, seen, handed>>
    BY <1>4 DEF SignatureGate, Finish
  <2> QED BY <2>1, WalkEnds, WalkWaits DEF WalkInv, Early
<1>5. CASE ClassifySignature
  <2>1. pc = "sig" /\ pc' = "gates" /\ UNCHANGED <<opts, body, shard, buf, seen, handed>>
    BY <1>5 DEF ClassifySignature
  <2> QED BY <2>1, WalkWaits DEF Early
<1>6. CASE RootGates
  BY <1>6, RootGatesWalk
<1>7. CASE CheckShardCount \/ Report \/ RereadDone
  <2>1. pc' \in {"done", "report"} /\ UNCHANGED <<opts, body, shard, buf, seen, handed>>
    BY <1>7 DEF CheckShardCount, Report, RereadDone, Finish
  <2> QED BY <2>1, WalkEnds DEF WalkInv
<1>8. CASE WalkShard \/ RereadShard
  <2>1. \/ FetchShard("walk", ExitUnverified) /\ opts.cmd # "inspect"
        \/ FetchShard("reread", ExitUncoded)
    BY <1>8 DEF WalkShard, RereadShard
  <2> QED BY <2>1, FetchWalk
<1>9. CASE WalkRecord \/ RereadRecord
  BY <1>9, WalkRecordWalk, RereadRecordWalk
<1>10. CASE Tally \/ CheckCompleteness
  <2>1. /\ pc = "walk" /\ pc' \in {"done", "runlog"} /\ UNCHANGED <<opts, body, shard, buf, seen, handed>>
        /\ shard > Len(body.shards) /\ (opts.cmd # "inspect" => buf = <<>>)
    BY <1>10 DEF Tally, CheckCompleteness, Finish
  <2>2. CASE pc' = "done"
    BY <2>1, <2>2, WalkEnds DEF WalkInv
  <2>3. CASE pc' = "runlog"
    <3>1. buf = <<>> /\ handed = <<>> /\ shard - 1 = Len(body.shards) /\ Len(seen) \in Nat
      BY <2>1 DEF WalkInv
    <3>2. Len(seen) = Before(Len(body.shards)) /\ Before(Len(body.shards))' = Before(Len(body.shards))
      BY <2>1, <3>1 DEF WalkInv, Before
    <3> QED BY <2>1, <2>3, <3>1, <3>2 DEF WalkInv, Numbered, HandedOverWasVerified, Early
  <2> QED BY <2>1, <2>2, <2>3
<1>11. CASE OpenShards
  <2>0. /\ pc = "walk" /\ opts.cmd = "inspect" /\ shard <= Len(body.shards)
        /\ UNCHANGED <<opts, body, buf, handed>>
    BY <1>11 DEF OpenShards
  <2>1. CASE pc' = "done" /\ UNCHANGED <<seen, shard>>
    BY <2>0, <2>1, WalkEnds DEF WalkInv
  <2>2. CASE pc' = pc /\ seen' = seen \o Decoded("ok", shard) /\ shard' = shard + 1
    <3> DEFINE l == body.shards  r == RecordsOf(l, shard)
    <3>1. l \in Seq(Nat) /\ shard \in 1 .. Len(l) /\ shard \in Nat \ {0}
      BY <2>0 DEF WalkInv
    <3>2. seen' = seen \o r
      BY <2>2 DEF Decoded
    <3> HIDE DEF l
    <3>3. /\ r \in Seq(Nat) /\ Numbered(r, RecordsBefore(l, shard - 1))
          /\ RecordsBefore(l, shard - 1) \in Nat
          /\ RecordsBefore(l, shard - 1) + Len(r) = RecordsBefore(l, shard)
      BY <3>1, RecordsOfShard
    <3> HIDE DEF r
    <3>4. /\ buf = <<>> /\ seen \in Seq(Nat) /\ Numbered(seen, 0) /\ Len(seen) + Len(buf) = Before(shard - 1)
          /\ handed = <<>>
      BY <2>0 DEF WalkInv
    <3>5. Len(seen) = RecordsBefore(l, shard - 1) /\ Len(seen) \in Nat
      BY <3>4 DEF Before, l
    <3>6. seen' \in Seq(Nat) /\ Len(seen') = Len(seen) + Len(r)
      BY <3>2, <3>3, <3>4
    <3>7. Numbered(seen', 0)
      <4> SUFFICES ASSUME NEW i \in 1 .. Len(seen) + Len(r) PROVE seen'[i] = 0 + i
        BY <3>6 DEF Numbered
      <4>1. CASE i <= Len(seen)
        <5>1. seen'[i] = seen[i] /\ i \in DOMAIN seen
          BY <3>2, <3>3, <3>4, <4>1
        <5> QED BY <3>4, <5>1 DEF Numbered
      <4>2. CASE i > Len(seen)
        <5>1. seen'[i] = r[i - Len(seen)] /\ i - Len(seen) \in DOMAIN r
          BY <3>2, <3>3, <3>4, <4>2
        <5>2. r[i - Len(seen)] = Len(seen) + (i - Len(seen))
          BY <3>3, <3>5, <5>1 DEF Numbered
        <5> QED BY <3>5, <5>1, <5>2
      <4> QED BY <3>5, <4>1, <4>2
    <3>8. shard' - 1 = shard /\ shard' \in Nat \ {0} /\ shard' <= Len(l) + 1 /\ Len(buf') = 0
      BY <2>0, <2>2, <3>1, <3>4
    <3>9. Before(shard - 1)' = RecordsBefore(l, shard) /\ Len(body'.shards) = Len(l)
      BY <2>0, <3>8 DEF Before, l
    <3>10. Len(seen') + Len(buf') = Before(shard - 1)'
      BY <3>3, <3>5, <3>6, <3>8, <3>9
    <3> QED BY <2>0, <2>2, <3>4, <3>6, <3>7, <3>8, <3>9, <3>10, SMTT(30)
            DEF WalkInv, Numbered, HandedOverWasVerified, Early
  <2> QED BY <1>11, <2>1, <2>2 DEF OpenShards, ShardOpens, Finish
<1>12. CASE VerifyShardHashes
  <2>0. /\ pc = "hashes" /\ UNCHANGED <<opts, body, buf, seen, handed>> /\ shard' \in {shard, shard + 1}
        /\ pc' \in {"hashes", "runlog", "done"}
    BY <1>12 DEF VerifyShardHashes, AttestFails, Finish
  <2>1. opts.cmd # "verify" /\ shard' \in Nat \ {0}
    BY <2>0 DEF ReaderInv, Sides, Attesting, WalkInv
  <2> QED BY <2>0, <2>1 DEF WalkInv, Numbered, HandedOverWasVerified, Early
<1>13. CASE ReadRunlog
  <2>0. /\ pc = "runlog" /\ UNCHANGED <<body, shard, buf, seen, handed>>
        /\ pc' \in {"logsig", "bundle", "done"}
    BY <1>13 DEF ReadRunlog, Gate, AttestRunlog, FreshnessGate, AttestFails, Finish
  <2>1. opts'.cmd = opts.cmd
    BY <1>13 DEF ReadRunlog, ChooseFlags, SetFlags, ReaderInv, OptsType
  <2> QED BY <2>0, <2>1, WalkEnds, WalkWaits DEF WalkInv, Early
<1>14. CASE ReadLogSig
  <2>0. /\ pc = "logsig" /\ UNCHANGED <<opts, body, shard, buf, seen, handed>>
        /\ pc' \in {"bundle", "done"}
    BY <1>14 DEF ReadLogSig, Gate, AttestRunlog, FreshnessGate, AttestFails, Finish
  <2> QED BY <2>0, WalkEnds, WalkWaits DEF WalkInv, Early
<1>15. CASE Bundle
  <2>0. /\ pc = "bundle" /\ shard' = 1 /\ UNCHANGED <<opts, body, buf, seen, handed>>
        /\ pc' \in {"report", "done", "reread"} /\ (pc' = "reread" => opts.cmd = "verify")
    BY <1>15 DEF Bundle, Finish
  <2>1. CASE pc' # "reread"
    BY <2>0, <2>1, WalkEnds DEF WalkInv
  <2>2. CASE pc' = "reread"
    <3>1. buf = <<>> /\ handed = <<>> /\ Len(seen) = Before(Len(body.shards)) /\ body.shards \in Seq(Nat)
      BY <2>0, <2>2 DEF WalkInv
    <3>2. Before(shard - 1)' = 0
      <4>1. shard' - 1 = 0
        BY <2>0
      <4>2. RecordsBefore(body'.shards, 0) = 0
        BY RecordsBeforeStep, 0 \in Nat
      <4> QED BY <4>1, <4>2 DEF Before
    <3>3. Before(Len(body.shards))' = Before(Len(body.shards)) /\ 1 <= Len(body.shards) + 1
          /\ Len(handed) + Len(buf) = 0
      BY <2>0, <3>1 DEF Before
    <3> QED BY <2>0, <2>2, <3>1, <3>2, <3>3 DEF WalkInv, Numbered, HandedOverWasVerified, Early
  <2> QED BY <2>1, <2>2
<1> QED BY <1>1, <1>2, <1>3, <1>4, <1>5, <1>6, <1>7, <1>8, <1>9, <1>10, <1>11, <1>12, <1>13,
           <1>14, <1>15 DEF Next, Reader

\* Whatever the second walk hands to a restore the first walk verified, in the same
\* order, for any layout of shards and however the store answers (EachRecord).
THEOREM OnlyVerifiedHandedOver == Spec => []HandedOverWasVerified
<1>1. Init => WalkInv
  BY InitWalk
<1>2. ReaderInv /\ WalkInv /\ [Next]_vars => WalkInv'
  BY NextWalk
<1>3. WalkInv => HandedOverWasVerified
  BY DEF WalkInv
<1> QED BY <1>1, <1>2, <1>3, AllInv, PTL DEF Spec

-----------------------------------------------------------------------------
(* The accumulator of the verifying walk *)

\* It is empty until the walk starts, and then holds the records verified so far.
AccInv ==
    /\ pc \in Early => acc = EmptyAcc
    /\ pc = "walk" /\ opts.cmd # "inspect" => PerfectSubtrees(acc, seen)

\* No other step of the walk touches the accumulator or the records.
LEMMA AccKept ==
    ASSUME WalkInv, AccInv, UNCHANGED <<acc, seen>>,
           pc' \in Early => pc \in Early,
           pc' = "walk" => pc \in {"walk", "gates"} /\ opts'.cmd = opts.cmd
    PROVE  AccInv'
<1>1. CASE pc' = "walk" /\ pc = "gates"
  <2>1. acc' = EmptyAcc /\ seen' = <<>>
    BY <1>1 DEF WalkInv, AccInv, Early
  <2>2. PerfectSubtrees(acc', seen')
    BY <2>1, EmptyPerfect
  <2> QED BY <1>1, <2>2 DEF AccInv, Early, PerfectSubtrees
<1>2. CASE pc' = "walk" /\ pc = "walk"
  BY <1>2 DEF AccInv, Early, PerfectSubtrees
<1>3. CASE pc' # "walk"
  BY <1>3 DEF AccInv
<1> QED BY <1>1, <1>2, <1>3

\* A record that is verified is pushed.
LEMMA AccPushed ==
    ASSUME WalkInv, AccInv, WalkRecord
    PROVE  AccInv'
<1>1. pc = "walk" /\ opts.cmd # "inspect" /\ opts' = opts /\ buf # <<>>
  BY DEF WalkRecord
<1>2. CASE pc' = "done"
  BY <1>2 DEF AccInv, Early
<1>3. CASE pc' = pc /\ acc' = Push(acc, Head(buf)) /\ seen' = Append(seen, Head(buf))
  <2> DEFINE h == Head(buf)
  <2>1. seen \in Seq(Nat) /\ h \in Nat
    BY <1>1 DEF WalkInv
  <2>2. PerfectSubtrees(acc, seen)
    BY <1>1 DEF AccInv
  <2>3. PerfectSubtrees(Push(acc, h), Append(seen, h))
    <3> HIDE DEF h
    <3> QED BY <2>1, <2>2, PushPerfect
  <2>4. PerfectSubtrees(acc', seen')
    BY <1>3, <2>3
  <2> QED BY <1>1, <1>3, <2>4 DEF AccInv, Early, PerfectSubtrees
<1> QED BY <1>2, <1>3 DEF WalkRecord, Finish

\* Every step preserves it.
LEMMA NextAcc ==
    ASSUME ReaderInv, WalkInv, AccInv, [Next]_vars
    PROVE  AccInv'
<1>1. CASE Engine \/ UNCHANGED vars
  <2>1. UNCHANGED reader
    BY <1>1 DEF Engine, Trigger, Finalise, SignLog, Garble, Tamper, vars
  <2>2. UNCHANGED <<acc, seen, pc, opts>>
    BY <2>1 DEF reader
  <2> QED BY <2>2, AccKept DEF AccInv
<1>2. CASE Start
  BY <1>2 DEF Start, AccInv
<1>3. CASE WalkRecord
  BY <1>3, AccPushed
<1>4. CASE OpenShards
  <2>1. pc = "walk" /\ opts.cmd = "inspect" /\ opts' = opts /\ pc' \in {"walk", "done"}
    BY <1>4 DEF OpenShards, Finish
  <2> QED BY <2>1 DEF AccInv, Early
<1>5. CASE ReadRoot \/ SignatureGate \/ ClassifySignature \/ RootGates
  <2>1. /\ UNCHANGED <<acc, seen, opts>> /\ pc \in Early /\ pc' # "idle"
        /\ pc' = "walk" => pc = "gates"
    BY <1>5 DEF ReadRoot, SignatureGate, ClassifySignature, RootGates, Finish, Early
  <2> QED BY <2>1, AccKept
<1>6. CASE CheckShardCount \/ Tally \/ CheckCompleteness \/ WalkShard \/ RereadShard
  <2>1. UNCHANGED <<acc, seen, opts>> /\ pc \in {"walk", "reread"} /\ pc' \in {pc, "done", "runlog"}
    BY <1>6 DEF CheckShardCount, Tally, CheckCompleteness, WalkShard, RereadShard, FetchShard, Finish
  <2>2. pc' \notin Early /\ (pc' = "walk" => pc = "walk")
    BY <2>1 DEF Early
  <2> QED BY <2>1, <2>2, AccKept
<1>7. CASE Report \/ RereadDone \/ RereadRecord \/ VerifyShardHashes \/ ReadRunlog \/ ReadLogSig \/ Bundle
  <2>1. UNCHANGED acc /\ pc' \notin Early \cup {"walk"}
    BY <1>7 DEF Report, RereadDone, RereadRecord, VerifyShardHashes, ReadRunlog, ReadLogSig, Bundle,
       Gate, AttestRunlog, FreshnessGate, AttestFails, Finish, Early
  <2> QED BY <2>1 DEF AccInv
<1> QED BY <1>1, <1>2, <1>3, <1>4, <1>5, <1>6, <1>7 DEF Next, Reader

\* The accumulator states the root of the records verified so far, for any layout of
\* shards and any number of records: the streaming reader and the reader that holds
\* all records refuse and accept the same runs for their Merkle root.
THEOREM AccumulatorIsExact == Spec => []AccumulatorAgrees
<1>1. Init => WalkInv /\ AccInv
  BY InitWalk DEF Init, AccInv
<1>2. ReaderInv /\ WalkInv /\ AccInv /\ [Next]_vars => WalkInv' /\ AccInv'
  BY NextWalk, NextAcc
<1>3. WalkInv /\ AccInv => AccumulatorAgrees
  <2> SUFFICES ASSUME WalkInv, AccInv, pc = "walk", opts.cmd # "inspect"
               PROVE  AccRoot(acc) = MerkleRoot(seen)
    BY DEF AccumulatorAgrees
  <2>1. PerfectSubtrees(acc, seen) /\ seen \in Seq(Nat)
    BY DEF WalkInv, AccInv
  <2> QED BY <2>1, RootOfAccumulator
<1> QED BY <1>1, <1>2, <1>3, AllInv, PTL DEF Spec
=============================================================================
