------------------------------- MODULE Setup -------------------------------
(***************************************************************************)
(* Onboarding an account (internal/provision, cmd/downpipe/preflight.go    *)
(* and setup.go): `downpipe preflight` asks the Cloudflare API its         *)
(* questions and says whether to deploy; `downpipe setup --apply` carries  *)
(* out a plan call by call and stops at the first failure.                 *)
(*                                                                         *)
(* The account belongs to others as well: its zones are whatever they are  *)
(* at each call, so that a listing shifts between two of its pages, and    *)
(* the token may be revoked between two calls.  An answer may be lost      *)
(* after the call was carried out, the process may be killed, and the      *)
(* operator may run either command again.                                  *)
(***************************************************************************)
EXTENDS Preflight, FiniteSets

CONSTANTS
    Accounts,    \* what the zone listing may hold: sequences of [name, active]
    Covering,    \* names of the zones that are the asked domain or a parent of it
    PageSize,    \* zones per page of the listing
    PageBound,   \* zonePageBound
    Configs,     \* the configurations an operator may bring
    MaxPasses    \* bound: commands run

ASSUME PagesAssumption == PageSize \in Nat \ {0} /\ PageBound \in Nat \ {0}
ASSUME PassesAssumption == MaxPasses \in Nat
ASSUME AccountsAssumption ==
    /\ Accounts # {}
    /\ \A s \in Accounts : s \in Seq([name : STRING, active : BOOLEAN])
ASSUME ConfigsAssumption ==
    \A c \in Configs :
        /\ c.note \in BOOLEAN
        /\ c.secrets \in Seq([store : Nat, name : Nat])
        /\ c.sources \in Seq(Nat) /\ c.destination \in Seq(Nat)

VARIABLES
    valid,     \* the token is good
    apps,      \* how many Access applications setup has had made
    gated,     \* the ones among 1 .. apps that carry the allowlist policy
    cmd,       \* the command: what it is, whether a domain was asked for, its config
    pc,        \* the question or the call it is at, "idle" between commands
    page,      \* the page of zones to ask for
    listed,    \* zones collected
    checks,    \* the report's checks
    todo,      \* actions of the plan not yet applied
    appID,     \* createdAppID, 0 for none
    values,    \* names of the secrets a value was gathered for
    exit,      \* exit status of the last command, Running while it runs
    answered,  \* history: questions this command got an account fact for
    seen,      \* history: active covering zones the account had at a call for zones
    did,       \* history: actions of this command that the API carried out
    base,      \* history: apps when this command started
    passes     \* commands left

account == <<valid, apps, gated>>
asking == <<page, listed, checks, answered>>
applying == <<todo, appID, values, did, base>>
vars == <<account, cmd, pc, asking, applying, exit, seen, passes>>

ExitUncoded == 1
ExitUsage == 6
ExitKilled == 137
Running == 256      \* no exit status

\* The zones of an account that answer the asked domain.
CoveredBy(s) == {s[i].name : i \in {k \in DOMAIN s : s[k].active /\ s[k].name \in Covering}}

-----------------------------------------------------------------------------
(***************************************************************************)
(* Everybody else.                                                         *)
(***************************************************************************)
Revoke ==
    /\ pc # "idle" /\ valid /\ valid' = FALSE
    /\ UNCHANGED <<apps, gated, cmd, pc, asking, applying, exit, seen, passes>>

\* What the API may answer a call: a bad token is never obeyed.
Reachable(a) == IF valid THEN a.status # 401 ELSE a.status \in {NoAnswer, 401, 500}

-----------------------------------------------------------------------------
(***************************************************************************)
(* The plan (resources.go, plan.go, planner.go).  The text of a field is   *)
(* one of a few classes, "plain" among them; names are numbers in the      *)
(* order sortActions compares them in.                                     *)
(***************************************************************************)
PathSegment(t) == t \notin {"blank", "traversal", "odd"}

CustomHostname(t) == t \notin {"blank", "url", "unqualified", "workers.dev"}

\* Config.Validate, section by section.
Validate(c) ==
    /\ c.appName # "blank" /\ c.hosts # {} /\ \A h \in c.hosts : CustomHostname(h)
    /\ c.allowed # {} /\ \A e \in c.allowed : e = "plain"
    /\ c.note => CustomHostname(c.sender)
    /\ \A t \in c.segments : PathSegment(t)
    /\ c.types \subseteq {"kv", "r2", "d1", "secrets"} /\ "blank" \notin c.resources

Action(kind, store, name, at) == [kind |-> kind, store |-> store, name |-> name, at |-> at]

BuildAccessApp == Action("access-app", 0, 0, 0)
BuildAccessPolicy == Action("access-policy", 0, 0, 0)
BuildEmailNote == Action("email-note", 0, 0, 0)
BuildSecrets(c) ==
    {Action("secret", c.secrets[i].store, c.secrets[i].name, i) : i \in DOMAIN c.secrets}
BuildSourceBindings(c) ==
    {Action("source-binding", 0, c.sources[i], i) : i \in DOMAIN c.sources}
BuildDestinationBinding(c) ==
    {Action("destination-binding", 0, c.destination[i], i) : i \in DOMAIN c.destination}

Plan(c) ==
    {BuildAccessApp, BuildAccessPolicy}
        \cup (IF c.note THEN {BuildEmailNote} ELSE {})
        \cup BuildSecrets(c) \cup BuildSourceBindings(c) \cup BuildDestinationBinding(c)

IsManual(a) == a.kind = "email-note"
Calls(c) == {a \in Plan(c) : ~IsManual(a)}

\* Mutant of ApplyRank: what is gated comes before its gate.
GateRankedLast(a) ==
    CASE a.kind = "access-app" -> 3 [] a.kind = "access-policy" -> 4
      [] a.kind = "email-note" -> 5 [] a.kind = "secret" -> 0
      [] a.kind = "source-binding" -> 1 [] OTHER -> 2

ApplyRank(a) ==
    CASE a.kind = "access-app" -> 0 [] a.kind = "access-policy" -> 1
      [] a.kind = "email-note" -> 2 [] a.kind = "secret" -> 3
      [] a.kind = "source-binding" -> 4 [] OTHER -> 5

\* sortActions: by rank, then by name, then as they were configured.
Before(a, b) ==
    \/ ApplyRank(a) < ApplyRank(b)
    \/ /\ ApplyRank(a) = ApplyRank(b)
       /\ a.name < b.name \/ (a.name = b.name /\ a.at <= b.at)

Turn(a) == a \in todo /\ \A b \in todo : Before(a, b)

-----------------------------------------------------------------------------
(***************************************************************************)
(* The commands start.                                                     *)
(***************************************************************************)
Finish(code) == pc' = "idle" /\ exit' = code

Begin(command) ==
    /\ pc = "idle" /\ passes > 0 /\ passes' = passes - 1
    /\ cmd' = command
    /\ page' = 1 /\ listed' = <<>> /\ checks' = {} /\ answered' = {}
    /\ appID' = 0 /\ did' = {} /\ base' = apps /\ seen' = {}
    /\ UNCHANGED account

\* A client needs a token and an account id that can stand in a path.
NewClient(token, id) == token /\ PathSegment(id)

\* cmdPreflight: no account, no token or an account id that is no path segment is
\* a usage error, a domain outside ASCII an uncoded one; neither asks anything.
StartPreflight(asked) ==
    /\ Begin([is |-> "preflight", asked |-> asked])
    /\ todo' = {} /\ values' = {}
    /\ \E token \in BOOLEAN, id \in {"plain", "odd"}, ascii \in BOOLEAN :
          IF ~NewClient(token, id) THEN Finish(ExitUsage)
          ELSE IF asked /\ ~ascii THEN Finish(ExitUncoded)
               ELSE pc' = "zones" /\ exit' = Running

\* Secrets that gatherSecretValues finds a value for are the ones whose variable is
\* set; one that is missing ends the command before the first call.
SecretNames(c) == {c.secrets[i].name : i \in DOMAIN c.secrets}

\* cmdSetup and applySetupPlan: without --apply the plan is printed and nothing is
\* called.
StartSetup(apply) ==
    \E c \in Configs, token \in BOOLEAN, id \in {"plain", "odd"} :
    \E set \in SUBSET SecretNames(c) :
        /\ Begin([is |-> IF apply THEN "apply" ELSE "plan", asked |-> FALSE, config |-> c])
        /\ values' = set
        /\ IF ~NewClient(token, id) \/ ~Validate(c) \/ (apply /\ set # SecretNames(c))
           THEN todo' = {} /\ Finish(ExitUsage)
           ELSE IF ~apply THEN todo' = {} /\ Finish(0)
                ELSE todo' = Plan(c) /\ pc' = "apply" /\ exit' = Running

-----------------------------------------------------------------------------
(***************************************************************************)
(* preflight, question by question.                                        *)
(***************************************************************************)
Questions == <<"zones", "workers-plan", "secrets-store", "logpush", "r2">>

\* A 401 anywhere ends the whole report.
TokenRefused ==
    /\ pc \notin {"idle", "apply", "judge"}
    /\ \E a \in Answers : Reachable(a) /\ Get(a) = "token-invalid"
    /\ Finish(ExitUncoded)
    /\ UNCHANGED <<account, cmd, asking, applying, seen, passes>>

\* One answer to the question at pc: new checks, whether it was a fact, what is next.
Answered(new, fact, next) ==
    /\ checks' = checks \cup new
    /\ answered' = IF fact THEN answered \cup {pc} ELSE answered
    /\ pc' = next

unasked == <<page, listed, account, cmd, applying, exit, seen, passes>>

Classes == {Get(a) : a \in {b \in Answers : Reachable(b)}} \ {"token-invalid"}

\* listZones gives up at the first page it cannot read, whatever it had collected.
AskZonesFails ==
    /\ pc = "zones"
    /\ \E class \in Classes :
          Answered(ZonesUnread(IF class = "ok" THEN "error" ELSE class, cmd.asked),
                   FALSE, "workers-plan")
    /\ page' = 1 /\ listed' = <<>>
    /\ UNCHANGED <<account, cmd, applying, exit, seen, passes>>

ZonePage(zones) ==
    LET from == (page - 1) * PageSize
        n == IF Len(zones) <= from THEN 0
             ELSE IF Len(zones) - from < PageSize THEN Len(zones) - from ELSE PageSize
    IN  [i \in 1 .. n |-> zones[from + i]]

\* listZones: pages until one is empty, the reported total is reached or the page
\* bound is; an absent total is what was collected so far.
AskZones ==
    /\ pc = "zones" /\ "ok" \in Classes
    /\ \E zones \in Accounts : \E reported \in {0, Len(zones)} :
          LET collected == listed \o ZonePage(zones)
              total == IF reported = 0 THEN Len(collected) ELSE reported
          IN  /\ seen' = seen \cup CoveredBy(zones)
              /\ IF ZonePage(zones) = <<>> \/ Len(collected) >= total \/ page = PageBound
                 THEN /\ Answered(ZonesRead(collected, total, Covering, cmd.asked), TRUE,
                                  "workers-plan")
                      /\ page' = 1 /\ listed' = <<>>
                 ELSE /\ page' = page + 1 /\ listed' = collected
                      /\ UNCHANGED <<pc, checks, answered>>
    /\ UNCHANGED <<account, cmd, applying, exit, passes>>

\* The single-answer questions: a result that does not parse is an open question.
AskOnce(id, next, found) ==
    /\ pc = id /\ UNCHANGED unasked
    /\ \/ \E class \in Classes \ {"ok"} : Answered({Check(id, Unanswered(class))}, FALSE, next)
       \/ "ok" \in Classes /\ Answered({Check(id, "unknown")}, FALSE, next)
       \/ "ok" \in Classes /\ \E s \in found : Answered({Check(id, s)}, TRUE, next)

AskWorkersPlan ==
    AskOnce("workers-plan", "secrets-store",
            {WorkersPlan(subs) : subs \in SUBSET {"paid id", "workers-shaped", "other"}})

\* checkSecretsStore: with no store that is the answer, with one its usage is asked for.
AskSecretsStore ==
    \/ AskOnce("secrets-store", "logpush", {"unconfigured"})
    \/ /\ pc = "secrets-store" /\ "ok" \in Classes
       /\ Answered({}, FALSE, "store-usage") /\ UNCHANGED unasked

AskStoreUsage ==
    /\ pc = "store-usage" /\ UNCHANGED unasked
    /\ \E class \in Classes :
          /\ checks' = checks \cup
                {Check("secrets-store", IF class = "ok" THEN "verified" ELSE "unknown")}
          /\ answered' = IF class = "ok" THEN answered \cup {"secrets-store"} ELSE answered
    /\ pc' = "logpush"

AskLogpush ==
    AskOnce("logpush", "r2",
            {Logpush(jobs) : jobs \in SUBSET {"enabled trace events", "other"}})

\* checkR2Buckets: an account without R2 is a fact, not a failure.
AskR2 ==
    /\ pc = "r2" /\ UNCHANGED unasked
    /\ \/ \E class \in Classes \ {"ok", "not-entitled"} :
             Answered({Check("r2", Unanswered(class))}, FALSE, "judge")
       \/ "ok" \in Classes /\ Answered({Check("r2", "unknown")}, FALSE, "judge")
       \/ "ok" \in Classes /\ Answered({Check("r2", "verified")}, TRUE, "judge")
       \/ "not-entitled" \in Classes /\ Answered({Check("r2", "unconfigured")}, TRUE, "judge")

\* The report is printed and judged; a report that cannot be encoded is an error.
Judge ==
    /\ pc = "judge"
    /\ \E code \in {JudgePreflight(checks, cmd.asked), ExitUncoded} : Finish(code)
    /\ UNCHANGED <<account, cmd, asking, applying, seen, passes>>

-----------------------------------------------------------------------------
(***************************************************************************)
(* setup --apply, call by call (Client.Apply).                             *)
(***************************************************************************)
\* Mutant of CallOK: the envelope's success flag is not looked at.
CallOKByStatus(a) == InRange2xx(a) /\ a.body # "unreadable"

\* Client.call: an answer that is in range, parses and says success.
CallOK(a) == InRange2xx(a) /\ a.body = "success"

\* What the API says is done is done; anything else may be either, except that
\* what it refuses it has not done.
Told(a, carried) ==
    /\ Reachable(a)
    /\ InRange2xx(a) /\ a.body = "success" => carried
    /\ carried => valid /\ a.status \notin {403, 429} /\ a.body \in {"success", "unreadable"}

\* The path of the policy names the application this run created; the body of a
\* secret carries the value gathered for its name.
Unready(a) ==
    \/ a.kind = "access-policy" /\ appID = 0
    \/ a.kind = "secret" /\ a.name \notin values

SkipManual ==
    /\ pc = "apply"
    /\ \E a \in todo : Turn(a) /\ IsManual(a) /\ todo' = todo \ {a}
    /\ UNCHANGED <<account, cmd, pc, asking, appID, values, did, base, exit, seen, passes>>

RefuseUnready ==
    /\ pc = "apply"
    /\ \E a \in todo : Turn(a) /\ Unready(a)
    /\ Finish(ExitUncoded)
    /\ UNCHANGED <<account, cmd, asking, applying, seen, passes>>

\* What the API does when it carries out a call.
CarryOut(a) ==
    /\ did' = did \cup {a}
    /\ apps' = IF a.kind = "access-app" THEN apps + 1 ELSE apps
    /\ gated' = IF a.kind = "access-policy" THEN gated \cup {appID} ELSE gated

\* The answer decides whether the plan goes on, and with which application id: the
\* API may leave the id out.
Call ==
    /\ pc = "apply"
    /\ \E a \in todo, answer \in Answers, carried \in BOOLEAN, id \in BOOLEAN :
          /\ Turn(a) /\ ~IsManual(a) /\ ~Unready(a) /\ Told(answer, carried)
          /\ IF carried THEN CarryOut(a) ELSE UNCHANGED <<did, apps, gated>>
          /\ IF CallOK(answer)
             THEN /\ todo' = todo \ {a}
                  /\ appID' = IF a.kind = "access-app" /\ id THEN apps' ELSE appID
                  /\ UNCHANGED <<pc, exit>>
             ELSE Finish(ExitUncoded) /\ UNCHANGED <<todo, appID>>
    /\ UNCHANGED <<valid, cmd, asking, values, base, seen, passes>>

Applied ==
    /\ pc = "apply" /\ todo = {} /\ Finish(0)
    /\ UNCHANGED <<account, cmd, asking, applying, seen, passes>>

\* An interrupt is caught for every command and these two never look at it; a
\* process that is killed is gone between two calls.
Killed ==
    /\ pc # "idle" /\ Finish(ExitKilled)
    /\ UNCHANGED <<account, cmd, asking, applying, seen, passes>>

-----------------------------------------------------------------------------
Init ==
    /\ valid = TRUE /\ apps = 0 /\ gated = {}
    /\ cmd = [is |-> "none", asked |-> FALSE] /\ pc = "idle" /\ exit = Running
    /\ page = 1 /\ listed = <<>> /\ checks = {} /\ answered = {}
    /\ todo = {} /\ appID = 0 /\ values = {} /\ did = {} /\ base = 0 /\ seen = {}
    /\ passes = MaxPasses

Next ==
    \/ \E b \in BOOLEAN : StartPreflight(b) \/ StartSetup(b)
    \/ Revoke \/ TokenRefused
    \/ AskZonesFails \/ AskZones \/ AskWorkersPlan \/ AskSecretsStore \/ AskStoreUsage
    \/ AskLogpush \/ AskR2 \/ Judge
    \/ SkipManual \/ RefuseUnready \/ Call \/ Applied \/ Killed

Spec == Init /\ [][Next]_vars

-----------------------------------------------------------------------------
(***************************************************************************)
(* Properties.                                                             *)
(***************************************************************************)
\* A preflight that exits 0 asked every question and got an account fact for each
\* of them in this run, and if a domain was asked for, a zone that covers it was
\* active on the account while it ran: a listing in pages, a revoked token, a fault
\* or a missing scope never becomes clearance to deploy (judgePreflight).
ClearedMeansObserved ==
    cmd.is = "preflight" /\ exit = 0 =>
        /\ \A i \in DOMAIN Questions : Questions[i] \in answered
        /\ cmd.asked => seen # {}

\* The deployment is gated before anything else exists (Kind): whatever setup puts
\* on the account, the application of the same run carries its allowlist by then,
\* whichever call fails, is lost or is interrupted.
GatedFirst ==
    (\E a \in did : a.kind \notin {"access-app", "access-policy"}) =>
        \E i \in gated : base < i /\ i <= apps

\* A setup --apply that exits 0 has had every call of its plan carried out, by this
\* run, and its policy sits on the application of this run (Apply, applyPlan).
AppliedMeansProvisioned ==
    cmd.is = "apply" /\ exit = 0 =>
        did = Calls(cmd.config) /\ \E i \in gated : base < i /\ i <= apps

=============================================================================
