---------------------------- MODULE SetupProofs ----------------------------
(***************************************************************************)
(* Proofs about preflight and setup, for any account, page size and bound, *)
(* any configurations and any number of commands run one after another.    *)
(***************************************************************************)
EXTENDS Setup, TLAPS

\* The application of this run carries its policy.
OwnGate == \E i \in gated : base < i /\ i <= apps

\* While the plan is applied, what the API has done is what has left the plan, and
\* once the policy has left it, it sits on the application of this run.
PlanFront ==
    pc = "apply" =>
        /\ cmd.is = "apply" /\ exit = Running
        /\ todo \subseteq Plan(cmd.config)
        /\ did = Calls(cmd.config) \ todo
        /\ appID # 0 => base < appID /\ appID <= apps
        /\ BuildAccessPolicy \notin todo => OwnGate

Asking == {"zones", "workers-plan", "secrets-store", "store-usage", "logpush", "r2", "judge"}

\* One command runs at a time, and it is the one the program counter is in.
InCommand ==
    /\ pc \in Asking \cup {"idle", "apply"}
    /\ pc \in Asking => cmd.is = "preflight" /\ exit = Running

Counts == apps \in Nat /\ base \in Nat /\ appID \in Nat /\ gated \subseteq Nat

BaseBelow == base <= apps

ApplyInv == Counts /\ BaseBelow /\ InCommand /\ PlanFront /\ GatedFirst /\ AppliedMeansProvisioned

-----------------------------------------------------------------------------
(***************************************************************************)
(* The plan.                                                               *)
(***************************************************************************)
\* Every plan holds the application and its policy, and only the calls of the plan
\* are calls.
LEMMA PlanHasGate ==
    ASSUME NEW c
    PROVE  BuildAccessPolicy \in Plan(c) /\ BuildAccessApp \in Plan(c) /\ Calls(c) \subseteq Plan(c)
BY DEF Plan, Calls

\* An action that is neither the application nor its policy has its turn only when
\* the policy is done (sortActions).
LEMMA GateHasFirstTurn ==
    ASSUME NEW a, Turn(a), ~IsManual(a), a.kind \notin {"access-app", "access-policy"}
    PROVE  BuildAccessPolicy \notin todo
<1>1. ApplyRank(a) \in {3, 4, 5}
  BY DEF ApplyRank, IsManual
<1>2. ApplyRank(BuildAccessPolicy) = 1
  BY DEF ApplyRank, BuildAccessPolicy, Action
<1>3. ~Before(a, BuildAccessPolicy)
  BY <1>1, <1>2 DEF Before
<1> QED
  BY <1>3 DEF Turn

-----------------------------------------------------------------------------
(***************************************************************************)
(* setup --apply.                                                          *)
(***************************************************************************)
LEMMA InitApply == Init => ApplyInv
BY DEF Init, ApplyInv, Counts, BaseBelow, InCommand, PlanFront, GatedFirst, AppliedMeansProvisioned,
       Asking, Running

\* A step that touches neither the plan nor what it made.
LEMMA QuietApply ==
    ASSUME ApplyInv, UNCHANGED <<apps, gated, cmd, todo, appID, did, base>>, InCommand',
           \/ pc' = pc /\ exit' = exit
           \/ pc' # "apply" /\ (exit' = exit \/ exit' # 0 \/ cmd.is # "apply")
    PROVE  ApplyInv'
<1>1. Counts' /\ BaseBelow' /\ GatedFirst' /\ OwnGate' = OwnGate
  BY DEF ApplyInv, Counts, BaseBelow, GatedFirst, OwnGate
<1>2. PlanFront'
  BY <1>1 DEF ApplyInv, PlanFront
<1>3. AppliedMeansProvisioned'
  BY DEF ApplyInv, AppliedMeansProvisioned
<1> QED
  BY <1>1, <1>2, <1>3 DEF ApplyInv

LEMMA BeginApply ==
    ASSUME ApplyInv, NEW command, Begin(command), InCommand',
           pc' = "apply" => /\ command.is = "apply" /\ exit' = Running
                            /\ todo' = Plan(command.config),
           command.is = "apply" => exit' # 0
    PROVE  ApplyInv'
<1>1. Counts' /\ BaseBelow' /\ GatedFirst' /\ AppliedMeansProvisioned'
  BY DEF ApplyInv, Counts, BaseBelow, Begin, account, GatedFirst, AppliedMeansProvisioned
<1>2. PlanFront'
  BY PlanHasGate DEF PlanFront, Begin, Calls
<1> QED
  BY <1>1, <1>2 DEF ApplyInv

LEMMA CallApply == ApplyInv /\ Call => ApplyInv'
<1> SUFFICES ASSUME ApplyInv, Call PROVE ApplyInv'
  OBVIOUS
<1>1. PICK a \in todo, answer \in Answers, carried \in BOOLEAN, id \in BOOLEAN :
        /\ Turn(a) /\ ~IsManual(a) /\ ~Unready(a) /\ Told(answer, carried)
        /\ IF carried THEN CarryOut(a) ELSE UNCHANGED <<did, apps, gated>>
        /\ IF CallOK(answer)
           THEN /\ todo' = todo \ {a}
                /\ appID' = IF a.kind = "access-app" /\ id THEN apps' ELSE appID
                /\ UNCHANGED <<pc, exit>>
           ELSE Finish(ExitUncoded) /\ UNCHANGED <<todo, appID>>
  BY DEF Call
<1>2. pc = "apply" /\ cmd' = cmd /\ base' = base
  BY DEF Call
<1>3. /\ cmd.is = "apply" /\ todo \subseteq Plan(cmd.config)
      /\ did = Calls(cmd.config) \ todo /\ exit = Running
      /\ appID # 0 => base < appID /\ appID <= apps
      /\ BuildAccessPolicy \notin todo => OwnGate
  BY <1>2 DEF ApplyInv, PlanFront
<1>4. /\ apps \in Nat /\ base \in Nat /\ appID \in Nat
      /\ apps' \in Nat /\ apps <= apps'
      /\ gated \subseteq gated' /\ gated' \subseteq Nat
  <2>1. apps \in Nat /\ base \in Nat /\ appID \in Nat /\ gated \subseteq Nat
    BY DEF ApplyInv, Counts
  <2>2. apps' \in {apps, apps + 1}
    BY <1>1 DEF CarryOut
  <2>3. gated' \in {gated, gated \cup {appID}}
    BY <1>1 DEF CarryOut
  <2> QED
    BY <2>1, <2>2, <2>3
<1>5. OwnGate => OwnGate'
  BY <1>2, <1>4 DEF OwnGate, ApplyInv, Counts
<1>6. a.kind = "access-policy" /\ carried => OwnGate'
  <2> SUFFICES ASSUME a.kind = "access-policy", carried PROVE OwnGate'
    OBVIOUS
  <2>1. appID # 0 /\ appID \in gated' /\ apps' = apps
    BY <1>1 DEF Unready, CarryOut
  <2> QED
    BY <2>1, <1>2, <1>3 DEF OwnGate
<1>7. a \in Calls(cmd.config)
  BY <1>1, <1>3 DEF Calls
<1>8. did' \subseteq did \cup {a}
  BY <1>1 DEF CarryOut
<1>9. GatedFirst'
  <2>1. CASE a.kind \in {"access-app", "access-policy"}
    <3>1. (\E b \in did' : b.kind \notin {"access-app", "access-policy"}) => OwnGate
      BY <1>8, <2>1 DEF ApplyInv, GatedFirst, OwnGate
    <3> QED
      BY <3>1, <1>5 DEF GatedFirst, OwnGate
  <2>2. CASE a.kind \notin {"access-app", "access-policy"}
    BY <2>2, <1>1, <1>3, <1>5, GateHasFirstTurn DEF GatedFirst, OwnGate
  <2> QED
    BY <2>1, <2>2
<1>10. CASE CallOK(answer)
  <2>1. carried
    BY <1>10, <1>1 DEF CallOK, Told
  <2>2. did' = did \cup {a} /\ todo' = todo \ {a} /\ pc' = "apply" /\ exit' = Running
    BY <1>1, <1>2, <1>3, <1>10, <2>1 DEF CarryOut
  <2>3. did' = Calls(cmd.config) \ todo'
    BY <2>2, <1>3, <1>7
  <2>4. appID' # 0 => base < appID' /\ appID' <= apps'
    <3>1. CASE a.kind = "access-app" /\ id
      <4>1. apps' = apps + 1 /\ appID' = apps'
        BY <3>1, <1>1, <1>10, <2>1 DEF CarryOut
      <4>2. base <= apps
        BY DEF ApplyInv, BaseBelow
      <4> QED
        BY <4>1, <4>2, <1>4
    <3>2. CASE ~(a.kind = "access-app" /\ id)
      BY <3>2, <1>1, <1>3, <1>4, <1>10
    <3> QED
      BY <3>1, <3>2
  <2>5. BuildAccessPolicy \notin todo' => OwnGate'
    BY <2>1, <2>2, <1>3, <1>5, <1>6 DEF BuildAccessPolicy, Action
  <2>6. PlanFront'
    BY <2>2, <2>3, <2>4, <2>5, <1>2, <1>3 DEF PlanFront
  <2>7. Counts' /\ InCommand' /\ AppliedMeansProvisioned'
    BY <2>2, <1>1, <1>2, <1>4, <1>10 DEF Counts, InCommand, AppliedMeansProvisioned, Running, Asking
  <2> QED
    BY <2>6, <2>7, <1>9, <1>2, <1>4 DEF ApplyInv, BaseBelow
<1>11. CASE ~CallOK(answer)
  <2>1. pc' = "idle" /\ exit' = 1 /\ appID' = appID
    BY <1>11, <1>1 DEF Finish, ExitUncoded
  <2> QED
    BY <2>1, <1>2, <1>4, <1>9 DEF ApplyInv, BaseBelow, Counts, InCommand, PlanFront, Asking,
       AppliedMeansProvisioned
<1> QED
  BY <1>10, <1>11

\* The steps of preflight and of everybody else.
LEMMA QuietSteps ==
    ASSUME ApplyInv,
           \/ Revoke \/ TokenRefused \/ AskZonesFails \/ AskZones \/ AskWorkersPlan
           \/ AskSecretsStore \/ AskStoreUsage \/ AskLogpush \/ AskR2 \/ Judge \/ Killed
           \/ RefuseUnready \/ UNCHANGED vars
    PROVE  ApplyInv'
<1> USE DEF ApplyInv, InCommand, Asking, Finish, Answered, unasked, asking, applying, account
<1>1. CASE Revoke \/ UNCHANGED vars
  BY <1>1, QuietApply DEF Revoke, vars
<1>2. CASE TokenRefused \/ Killed \/ RefuseUnready
  BY <1>2, QuietApply DEF TokenRefused, Killed, RefuseUnready, ExitUncoded, ExitKilled
<1>3. CASE AskZonesFails \/ AskZones
  <2>1. pc = "zones" /\ pc' \in {"zones", "workers-plan"} /\ exit' = exit
        /\ UNCHANGED <<apps, gated, cmd, todo, appID, did, base>>
    BY <1>3 DEF AskZonesFails, AskZones
  <2> QED
    BY <2>1, QuietApply
<1>4. CASE AskWorkersPlan \/ AskSecretsStore \/ AskStoreUsage \/ AskLogpush \/ AskR2
  <2>1. /\ pc \in Asking /\ pc' \in Asking /\ exit' = exit
        /\ UNCHANGED <<apps, gated, cmd, todo, appID, did, base>>
    BY <1>4 DEF AskWorkersPlan, AskSecretsStore, AskStoreUsage, AskLogpush, AskR2, AskOnce
  <2> QED
    BY <2>1, QuietApply
<1>5. CASE Judge
  BY <1>5, QuietApply DEF Judge
<1> QED
  BY <1>1, <1>2, <1>3, <1>4, <1>5

LEMMA StartApply ==
    ASSUME ApplyInv, NEW b \in BOOLEAN, StartPreflight(b) \/ StartSetup(b)
    PROVE  ApplyInv'
<1>1. CASE StartPreflight(b)
  <2>1. Begin([is |-> "preflight", asked |-> b]) /\ pc' \in {"zones", "idle"}
    BY <1>1 DEF StartPreflight, Finish
  <2>2. cmd' = [is |-> "preflight", asked |-> b] /\ (pc' = "zones" => exit' = Running)
    BY <1>1 DEF StartPreflight, Finish, Begin
  <2> QED
    BY <2>1, <2>2, BeginApply DEF InCommand, Asking
<1>2. CASE StartSetup(b)
  <2>1. PICK c \in Configs, token \in BOOLEAN, id \in {"plain", "odd"} :
        \E set \in SUBSET SecretNames(c) :
          /\ Begin([is |-> IF b THEN "apply" ELSE "plan", asked |-> FALSE, config |-> c])
          /\ IF ~NewClient(token, id) \/ ~Validate(c) \/ (b /\ set # SecretNames(c))
             THEN todo' = {} /\ Finish(ExitUsage)
             ELSE IF ~b THEN todo' = {} /\ Finish(0)
                  ELSE todo' = Plan(c) /\ pc' = "apply" /\ exit' = Running
    BY <1>2 DEF StartSetup
  <2> DEFINE command == [is |-> IF b THEN "apply" ELSE "plan", asked |-> FALSE, config |-> c]
  <2>2. Begin(command) /\ pc' \in {"apply", "idle"}
    BY <2>1 DEF Finish
  <2>3. pc' = "apply" => command.is = "apply" /\ exit' = Running /\ todo' = Plan(command.config)
    BY <2>1 DEF Finish
  <2>4. command.is = "apply" => exit' # 0
    BY <2>1 DEF Finish, ExitUsage, Running
  <2>5. InCommand'
    BY <2>2 DEF InCommand, Asking
  <2> HIDE DEF command
  <2> QED
    BY <2>2, <2>3, <2>4, <2>5, BeginApply
<1> QED
  BY <1>1, <1>2

LEMMA SkipApply == ApplyInv /\ SkipManual => ApplyInv'
<1> SUFFICES ASSUME ApplyInv, SkipManual PROVE ApplyInv'
  OBVIOUS
<1>1. PICK a \in todo : Turn(a) /\ IsManual(a) /\ todo' = todo \ {a}
  BY DEF SkipManual
<1>2. pc = "apply" /\ UNCHANGED <<apps, gated, cmd, pc, appID, did, base, exit>>
  BY DEF SkipManual, account
<1>3. a # BuildAccessPolicy /\ a \notin Calls(cmd.config)
  BY <1>1 DEF IsManual, BuildAccessPolicy, Action, Calls
<1>4. did = Calls(cmd.config) \ todo'
  BY <1>1, <1>2, <1>3 DEF ApplyInv, PlanFront
<1>5. Counts' /\ BaseBelow' /\ InCommand' /\ GatedFirst' /\ AppliedMeansProvisioned'
      /\ OwnGate' = OwnGate
  BY <1>2 DEF ApplyInv, Counts, BaseBelow, InCommand, GatedFirst, AppliedMeansProvisioned, OwnGate
<1>6. PlanFront'
  BY <1>1, <1>2, <1>3, <1>4, <1>5 DEF ApplyInv, PlanFront
<1> QED
  BY <1>5, <1>6 DEF ApplyInv

LEMMA AppliedApply == ApplyInv /\ Applied => ApplyInv'
<1> SUFFICES ASSUME ApplyInv, Applied PROVE ApplyInv'
  OBVIOUS
<1>1. /\ pc = "apply" /\ todo = {} /\ pc' = "idle" /\ exit' = 0
      /\ UNCHANGED <<apps, gated, cmd, todo, appID, did, base>>
  BY DEF Applied, Finish, account, applying
<1>2. did = Calls(cmd.config) /\ OwnGate
  BY <1>1 DEF ApplyInv, PlanFront
<1>3. AppliedMeansProvisioned'
  BY <1>1, <1>2 DEF AppliedMeansProvisioned, OwnGate
<1> QED
  BY <1>1, <1>3 DEF ApplyInv, Counts, BaseBelow, InCommand, PlanFront, GatedFirst, Asking

LEMMA NextApply == ApplyInv /\ [Next]_vars => ApplyInv'
BY QuietSteps, StartApply, SkipApply, CallApply, AppliedApply DEF Next

\* The Access application of a run carries its allowlist before that run puts any
\* secret or binding on the account, whatever fails and wherever it stops.
THEOREM GateComesFirst == Spec => []GatedFirst
<1>1. ApplyInv => GatedFirst
  BY DEF ApplyInv
<1> QED
  BY <1>1, InitApply, NextApply, PTL DEF Spec

\* When setup --apply exits 0, the API has carried out every call of the plan.
THEOREM ZeroMeansProvisioned == Spec => []AppliedMeansProvisioned
<1>1. ApplyInv => AppliedMeansProvisioned
  BY DEF ApplyInv
<1> QED
  BY <1>1, InitApply, NextApply, PTL DEF Spec

-----------------------------------------------------------------------------
(***************************************************************************)
(* preflight.                                                              *)
(***************************************************************************)
\* The report holds a failure or an open question.
Blocked == \E c \in checks : c.status \in {"failed", "unknown"}

\* The questions that come before a place of the program.
Behind(at) ==
    CASE at = "workers-plan" -> {"zones"}
      [] at \in {"secrets-store", "store-usage"} -> {"zones", "workers-plan"}
      [] at = "logpush" -> {"zones", "workers-plan", "secrets-store"}
      [] at = "r2" -> {"zones", "workers-plan", "secrets-store", "logpush"}
      [] at = "judge" -> {"zones", "workers-plan", "secrets-store", "logpush", "r2"}
      [] OTHER -> {}

\* Every question behind the program was answered, or the report is blocked.
AnsweredOrBlocked == Blocked \/ Behind(pc) \subseteq answered

Zone == [name : STRING, active : BOOLEAN]

\* A covering zone that was listed was on the account, active, when its page was read.
ListedWasThere ==
    /\ listed \in Seq(Zone) /\ page \in Nat \ {0}
    /\ \A i \in 1 .. Len(listed) : listed[i].active /\ listed[i].name \in Covering => seen # {}

DomainWasThere == Check("domain", "verified") \in checks => seen # {}

PreflightInv ==
    /\ InCommand /\ ListedWasThere
    /\ pc \in Asking => AnsweredOrBlocked /\ DomainWasThere
    /\ ClearedMeansObserved

\* One check that failed or stayed open blocks the report.
LEMMA OneBlocks ==
    ASSUME NEW id, NEW status \in {"failed", "unknown"}, Check(id, status) \in checks'
    PROVE  Blocked'
<1>1. Check(id, status).status = status
  BY DEF Check
<1> QED
  BY <1>1 DEF Blocked

LEMMA Unanswering == \A class : Unanswered(class) \in {"failed", "unknown"}
BY DEF Unanswered

LEMMA InitPreflight == Init => PreflightInv
BY DEF Init, PreflightInv, InCommand, Asking, ListedWasThere, ClearedMeansObserved, Running

\* A step outside preflight, or one that ends it with a status other than 0.
LEMMA QuietPreflight ==
    ASSUME PreflightInv, InCommand', UNCHANGED <<cmd, page, listed, checks, answered, seen>>,
           \/ pc' = pc /\ exit' = exit
           \/ pc' \notin Asking /\ (exit' = exit \/ exit' # 0 \/ cmd.is # "preflight")
    PROVE  PreflightInv'
BY DEF PreflightInv, ListedWasThere, AnsweredOrBlocked, Blocked, DomainWasThere,
       ClearedMeansObserved

\* The zones a page holds were on the account when it was read.
LEMMA PageWasThere ==
    ASSUME ListedWasThere, NEW zones \in Accounts, seen' = seen \cup CoveredBy(zones)
    PROVE  /\ listed \o ZonePage(zones) \in Seq(Zone)
           /\ \A i \in 1 .. Len(listed \o ZonePage(zones)) :
                 LET z == (listed \o ZonePage(zones))[i]
                 IN  z.active /\ z.name \in Covering => seen' # {}
<1> DEFINE from == (page - 1) * PageSize
           n == IF Len(zones) <= from THEN 0
                ELSE IF Len(zones) - from < PageSize THEN Len(zones) - from ELSE PageSize
<1>1. zones \in Seq(Zone)
  BY AccountsAssumption DEF Zone
<1>2. from \in Nat
  BY PagesAssumption DEF ListedWasThere
<1>3. n \in Nat /\ \A i \in 1 .. n : from + i \in 1 .. Len(zones)
  BY <1>1, <1>2, PagesAssumption
<1>4. ZonePage(zones) = [i \in 1 .. n |-> zones[from + i]]
  BY DEF ZonePage
<1> HIDE DEF from, n
<1>5. ZonePage(zones) \in Seq(Zone) /\ Len(ZonePage(zones)) = n
  BY <1>1, <1>3, <1>4
<1>6. \A i \in 1 .. n : LET z == ZonePage(zones)[i]
                        IN  z.active /\ z.name \in Covering => CoveredBy(zones) # {}
  <2> SUFFICES ASSUME NEW i \in 1 .. n, zones[from + i].active, zones[from + i].name \in Covering
               PROVE  zones[from + i].name \in CoveredBy(zones)
    BY <1>4
  <2>1. from + i \in DOMAIN zones
    BY <1>1, <1>3
  <2> QED
    BY <2>1 DEF CoveredBy
<1>7. listed \in Seq(Zone)
  BY DEF ListedWasThere
<1>8. listed \o ZonePage(zones) \in Seq(Zone)
  BY <1>5, <1>7
<1>9. ASSUME NEW i \in 1 .. Len(listed \o ZonePage(zones))
      PROVE  \/ i \in 1 .. Len(listed) /\ (listed \o ZonePage(zones))[i] = listed[i]
             \/ /\ i - Len(listed) \in 1 .. n
                /\ (listed \o ZonePage(zones))[i] = ZonePage(zones)[i - Len(listed)]
  BY <1>5, <1>7
<1> QED
  BY <1>6, <1>8, <1>9 DEF ListedWasThere

LEMMA ZonesPreflight == PreflightInv /\ (AskZones \/ AskZonesFails) => PreflightInv'
<1>1. ASSUME PreflightInv, AskZonesFails PROVE PreflightInv'
  <2>1. PICK class \in Classes :
          checks' = checks \cup ZonesUnread(IF class = "ok" THEN "error" ELSE class, cmd.asked)
    BY <1>1 DEF AskZonesFails, Answered
  <2>2. /\ pc = "zones" /\ pc' = "workers-plan" /\ UNCHANGED <<cmd, exit, seen>>
        /\ page' = 1 /\ listed' = <<>>
    BY <1>1 DEF AskZonesFails, Answered
  <2>3. Blocked'
    BY <2>1, OneBlocks, Unanswering DEF ZonesUnread
  <2>4. Check("domain", "verified") \in checks' => Check("domain", "verified") \in checks
    BY <2>1 DEF ZonesUnread, Check, Unanswered
  <2>5. cmd.is = "preflight" /\ exit = Running /\ DomainWasThere
    BY <1>1, <2>2 DEF PreflightInv, InCommand, Asking
  <2> QED
    BY <2>2, <2>3, <2>4, <2>5 DEF PreflightInv, InCommand, Asking, ListedWasThere,
       AnsweredOrBlocked, DomainWasThere, ClearedMeansObserved, Running
<1>2. ASSUME PreflightInv, AskZones PROVE PreflightInv'
  <2>0. PICK zones \in Accounts : \E reported \in {0, Len(zones)} :
          LET collected == listed \o ZonePage(zones)
              total == IF reported = 0 THEN Len(collected) ELSE reported
          IN  /\ seen' = seen \cup CoveredBy(zones)
              /\ IF ZonePage(zones) = <<>> \/ Len(collected) >= total \/ page = PageBound
                 THEN /\ Answered(ZonesRead(collected, total, Covering, cmd.asked), TRUE,
                                  "workers-plan")
                      /\ page' = 1 /\ listed' = <<>>
                 ELSE /\ page' = page + 1 /\ listed' = collected
                      /\ UNCHANGED <<pc, checks, answered>>
    BY <1>2 DEF AskZones
  <2>1. PICK reported \in {0, Len(zones)} :
          LET collected == listed \o ZonePage(zones)
              total == IF reported = 0 THEN Len(collected) ELSE reported
          IN  /\ seen' = seen \cup CoveredBy(zones)
              /\ IF ZonePage(zones) = <<>> \/ Len(collected) >= total \/ page = PageBound
                 THEN /\ Answered(ZonesRead(collected, total, Covering, cmd.asked), TRUE,
                                  "workers-plan")
                      /\ page' = 1 /\ listed' = <<>>
                 ELSE /\ page' = page + 1 /\ listed' = collected
                      /\ UNCHANGED <<pc, checks, answered>>
    BY <2>0
  <2> DEFINE collected == listed \o ZonePage(zones)
             total == IF reported = 0 THEN Len(collected) ELSE reported
  <2>2. pc = "zones" /\ UNCHANGED <<cmd, exit>>
    BY <1>2 DEF AskZones
  <2>3. cmd.is = "preflight" /\ exit = Running /\ AnsweredOrBlocked /\ DomainWasThere
        /\ ListedWasThere
    BY <1>2, <2>2 DEF PreflightInv, InCommand, Asking
  <2>4. /\ collected \in Seq(Zone)
        /\ \A i \in 1 .. Len(collected) :
              collected[i].active /\ collected[i].name \in Covering => seen' # {}
    BY <2>1, <2>3, PageWasThere
  <2>5. ClearedMeansObserved'
    BY <2>2, <2>3 DEF ClearedMeansObserved, Running
  <2>6. CASE /\ checks' = checks \cup ZonesRead(collected, total, Covering, cmd.asked)
             /\ answered' = answered \cup {pc} /\ pc' = "workers-plan"
             /\ page' = 1 /\ listed' = <<>>
    <3>1. Check("domain", "verified") \in ZonesRead(collected, total, Covering, cmd.asked)
            => seen' # {}
      <4> SUFFICES ASSUME DomainStatus(collected, total, Covering) = "verified"
                   PROVE  seen' # {}
        BY DEF ZonesRead, Check
      <4>1. PICK i \in DOMAIN collected : collected[i].active /\ collected[i].name \in Covering
        BY DEF DomainStatus
      <4> QED
        BY <4>1, <2>4
    <3>2. DomainWasThere'
      BY <3>1, <2>1, <2>3, <2>6 DEF DomainWasThere
    <3>3. AnsweredOrBlocked'
      BY <2>2, <2>6 DEF AnsweredOrBlocked, Behind
    <3>4. InCommand' /\ ListedWasThere'
      BY <2>2, <2>3, <2>6 DEF InCommand, Asking, ListedWasThere
    <3> QED
      BY <3>2, <3>3, <3>4, <2>5 DEF PreflightInv
  <2>7. CASE page' = page + 1 /\ listed' = collected /\ UNCHANGED <<pc, checks, answered>>
    <3>1. ListedWasThere'
      BY <2>3, <2>4, <2>7 DEF ListedWasThere
    <3>2. AnsweredOrBlocked' /\ DomainWasThere' /\ InCommand'
      BY <2>1, <2>2, <2>3, <2>7 DEF AnsweredOrBlocked, Blocked, DomainWasThere, InCommand, Asking
    <3> QED
      BY <3>1, <3>2, <2>5 DEF PreflightInv
  <2> QED
    BY <2>1, <2>6, <2>7 DEF Answered
<1> QED
  BY <1>1, <1>2

\* A question other than the zones: its new check blocks the report, or the
\* question was answered.
LEMMA OnePreflight ==
    ASSUME PreflightInv, UNCHANGED unasked, pc \in Asking \ {"zones"}, pc' \in Asking,
           checks \subseteq checks', answered \subseteq answered',
           Check("domain", "verified") \in checks' => Check("domain", "verified") \in checks,
           Blocked' \/ Behind(pc') \subseteq Behind(pc) \cup answered'
    PROVE  PreflightInv'
<1>1. Blocked => Blocked'
  BY DEF Blocked
<1>2. AnsweredOrBlocked'
  BY <1>1 DEF PreflightInv, AnsweredOrBlocked
<1>3. cmd.is = "preflight" /\ exit = Running /\ DomainWasThere /\ ListedWasThere
  BY DEF PreflightInv, InCommand
<1> QED
  BY <1>2, <1>3 DEF PreflightInv, unasked, InCommand, DomainWasThere, ListedWasThere,
     ClearedMeansObserved, Running

LEMMA QuestionsPreflight ==
    ASSUME PreflightInv,
           AskWorkersPlan \/ AskSecretsStore \/ AskStoreUsage \/ AskLogpush \/ AskR2
    PROVE  PreflightInv'
<1>1. ASSUME NEW id \in {"workers-plan", "secrets-store", "logpush"}, NEW next, NEW found,
             AskOnce(id, next, found), next \in Asking, Behind(next) = Behind(id) \cup {id}
      PROVE  PreflightInv'
  <2>1. UNCHANGED unasked /\ pc = id /\ pc' = next /\ checks \subseteq checks'
        /\ answered \subseteq answered'
    BY <1>1 DEF AskOnce, Answered
  <2>2. Check("domain", "verified") \in checks' => Check("domain", "verified") \in checks
    BY <1>1 DEF AskOnce, Answered, Check
  <2>3. Blocked' \/ id \in answered'
    BY <1>1, OneBlocks, Unanswering DEF AskOnce, Answered
  <2> QED
    BY <1>1, <2>1, <2>2, <2>3, OnePreflight DEF Asking
<1>2. CASE AskWorkersPlan
  BY <1>1, <1>2 DEF AskWorkersPlan, Asking, Behind
<1>3. CASE AskSecretsStore
  <2>1. CASE AskOnce("secrets-store", "logpush", {"unconfigured"})
    BY <1>1, <2>1 DEF Asking, Behind
  <2>2. CASE /\ pc = "secrets-store" /\ Answered({}, FALSE, "store-usage") /\ UNCHANGED unasked
    BY <2>2, OnePreflight DEF Answered, Asking, Behind
  <2> QED
    BY <1>3, <2>1, <2>2 DEF AskSecretsStore
<1>4. CASE AskStoreUsage
  <2>1. UNCHANGED unasked /\ pc = "store-usage" /\ pc' = "logpush" /\ checks \subseteq checks'
        /\ answered \subseteq answered'
    BY <1>4 DEF AskStoreUsage
  <2>2. Check("domain", "verified") \in checks' => Check("domain", "verified") \in checks
    BY <1>4 DEF AskStoreUsage, Check
  <2>3. Blocked' \/ "secrets-store" \in answered'
    BY <1>4, OneBlocks DEF AskStoreUsage
  <2> QED
    BY <2>1, <2>2, <2>3, OnePreflight DEF Asking, Behind
<1>5. CASE AskLogpush
  BY <1>1, <1>5 DEF AskLogpush, Asking, Behind
<1>6. CASE AskR2
  <2>1. UNCHANGED unasked /\ pc = "r2" /\ pc' = "judge" /\ checks \subseteq checks'
        /\ answered \subseteq answered'
    BY <1>6 DEF AskR2, Answered
  <2>2. Check("domain", "verified") \in checks' => Check("domain", "verified") \in checks
    BY <1>6 DEF AskR2, Answered, Check
  <2>3. Blocked' \/ "r2" \in answered'
    BY <1>6, OneBlocks, Unanswering DEF AskR2, Answered
  <2> QED
    BY <2>1, <2>2, <2>3, OnePreflight DEF Asking, Behind
<1> QED
  BY <1>2, <1>3, <1>4, <1>5, <1>6

LEMMA VerdictPreflight == PreflightInv /\ Judge => PreflightInv'
<1> SUFFICES ASSUME PreflightInv, Judge PROVE PreflightInv'
  OBVIOUS
<1>1. /\ pc = "judge" /\ pc' = "idle" /\ exit' \in {JudgePreflight(checks, cmd.asked), 1}
      /\ UNCHANGED <<cmd, page, listed, checks, answered, seen>>
  BY DEF Judge, Finish, asking, ExitUncoded
<1>2. AnsweredOrBlocked /\ DomainWasThere
  BY <1>1 DEF PreflightInv, Asking
<1>3. ASSUME exit' = 0
      PROVE  (\A i \in DOMAIN Questions : Questions[i] \in answered) /\ (cmd.asked => seen # {})
  <2>1. ~Blocked /\ (cmd.asked => Check("domain", "verified") \in checks)
    BY <1>1, <1>3 DEF JudgePreflight, ExitPreflight, Blocked
  <2> QED
    BY <2>1, <1>1, <1>2 DEF AnsweredOrBlocked, Behind, DomainWasThere, Questions
<1>4. ClearedMeansObserved'
  BY <1>1, <1>3 DEF ClearedMeansObserved
<1> QED
  BY <1>1, <1>4 DEF PreflightInv, InCommand, Asking, ListedWasThere

LEMMA NextPreflight == ApplyInv /\ PreflightInv /\ [Next]_vars => PreflightInv'
<1> SUFFICES ASSUME ApplyInv, PreflightInv, [Next]_vars PROVE PreflightInv'
  OBVIOUS
<1>1. InCommand'
  BY NextApply DEF ApplyInv
<1>2. CASE Revoke \/ UNCHANGED vars
  BY <1>1, <1>2, QuietPreflight DEF Revoke, vars, asking
<1>3. CASE TokenRefused \/ Killed \/ RefuseUnready
  BY <1>1, <1>3, QuietPreflight DEF TokenRefused, Killed, RefuseUnready, Finish, asking,
     ExitUncoded, ExitKilled, Asking
<1>4. CASE SkipManual \/ Call \/ Applied
  <2>1. pc = "apply" /\ pc' \in {"apply", "idle"}
        /\ UNCHANGED <<cmd, page, listed, checks, answered, seen>>
    BY <1>4 DEF SkipManual, Call, Applied, Finish, asking
  <2>2. cmd.is = "apply"
    BY <2>1 DEF ApplyInv, PlanFront
  <2> QED
    BY <1>1, <2>1, <2>2, QuietPreflight DEF Asking
<1>5. ASSUME NEW b \in BOOLEAN, StartPreflight(b) \/ StartSetup(b) PROVE PreflightInv'
  <2>1. /\ page' = 1 /\ listed' = <<>> /\ checks' = {} /\ pc' \in {"idle", "zones", "apply"}
    BY <1>5 DEF StartPreflight, StartSetup, Begin, Finish
  <2>2. ClearedMeansObserved'
    BY <1>5 DEF StartPreflight, StartSetup, Begin, Finish, ClearedMeansObserved, ExitUsage,
       ExitUncoded, Running
  <2> QED
    BY <1>1, <2>1, <2>2 DEF PreflightInv, ListedWasThere, AnsweredOrBlocked, Behind,
       DomainWasThere, Asking
<1> QED
  BY <1>2, <1>3, <1>4, <1>5, ZonesPreflight, QuestionsPreflight, VerdictPreflight DEF Next

\* When preflight exits 0, every question was answered in that run and the asked
\* domain had an active zone, whatever the account, the page size and the page bound.
THEOREM ClearanceIsObserved == Spec => []ClearedMeansObserved
<1>1. PreflightInv => ClearedMeansObserved
  BY DEF PreflightInv
<1> QED
  BY <1>1, InitApply, NextApply, InitPreflight, NextPreflight, PTL DEF Spec

=============================================================================
