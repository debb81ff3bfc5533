----------------------------- MODULE Preflight -----------------------------
(***************************************************************************)
(* How `downpipe preflight` reads the Cloudflare API's answers and what it *)
(* concludes (internal/provision/preflight.go, preflight_checks.go,        *)
(* cmd/downpipe/preflight.go).                                             *)
(*                                                                         *)
(* An answer is [status, body]: an HTTP status, 0 when none arrived, and   *)
(* how the body reads: not at all, as a success, as a refusal, or as the   *)
(* refusal of an account without R2 (code 10042).                          *)
(***************************************************************************)
EXTENDS Naturals, Sequences

NoAnswer == 0

Answers == [status : {NoAnswer, 200, 302, 401, 403, 429, 500},
            body : {"unreadable", "success", "refused", "not-entitled"}]

InRange2xx(a) == a.status >= 200 /\ a.status < 300

(***************************************************************************)
(* Client.get: the class of an answer.  A network fault and a 5xx say      *)
(* nothing about the account; a 401 condemns the token; a 403 is a missing *)
(* scope, unless it says that R2 is not enabled.                           *)
(***************************************************************************)
Get(a) ==
    CASE a.status = NoAnswer \/ a.status >= 500 -> "transient"
      [] a.status = 401 -> "token-invalid"
      [] a.status = 403 /\ a.body # "not-entitled" -> "scope"
      [] a.body = "not-entitled" -> "not-entitled"
      [] InRange2xx(a) /\ a.body = "success" -> "ok"
      [] OTHER -> "error"

\* A question that got no account fact for an answer: what is missing is told
\* from what was refused.
Unanswered(class) == IF class \in {"scope", "transient"} THEN "unknown" ELSE "failed"

-----------------------------------------------------------------------------
(***************************************************************************)
(* The questions, and the status of each for what the account really holds.*)
(***************************************************************************)
Check(id, status) == [id |-> id, status |-> status]

\* checkZones: the domain is covered by an active zone that is the domain or a
\* parent of it; a zone that is not listed may be one the page bound cut off.
DomainStatus(listed, total, covering) ==
    IF \E i \in DOMAIN listed : listed[i].active /\ listed[i].name \in covering THEN "verified"
    ELSE IF total > Len(listed) THEN "unknown" ELSE "failed"

\* domainUnverified: the zones were not read, so the domain is an open question.
ZonesUnread(class, asked) ==
    {Check("zones", Unanswered(class))}
        \cup (IF asked THEN {Check("domain", "unknown")} ELSE {})

ZonesRead(listed, total, covering, asked) ==
    {IF asked THEN Check("domain", DomainStatus(listed, total, covering))
     ELSE Check("zones", "verified")}

\* checkWorkersSubscription: the rate plans on the account, by their shape.
WorkersPlan(subs) ==
    IF "paid id" \in subs THEN "verified"
    ELSE IF "workers-shaped" \in subs THEN "configured" ELSE "unconfigured"

\* checkLogpush: the jobs on the account.
Logpush(jobs) == IF "enabled trace events" \in jobs THEN "verified" ELSE "unconfigured"

-----------------------------------------------------------------------------
(***************************************************************************)
(* judgePreflight and preflightVerdict.err: clearance is no failure, no    *)
(* open question and, if a domain was asked for, that domain verified.     *)
(***************************************************************************)
ExitPreflight == 7

\* Mutant of JudgePreflight: only what was observed false counts.
JudgeFailures(checks, asked) ==
    IF \E c \in checks : c.status = "failed" THEN ExitPreflight ELSE 0

JudgePreflight(checks, asked) ==
    IF \/ \E c \in checks : c.status \in {"failed", "unknown"}
       \/ asked /\ Check("domain", "verified") \notin checks
    THEN ExitPreflight ELSE 0

=============================================================================
