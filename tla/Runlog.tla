------------------------------- MODULE Runlog -------------------------------
(***************************************************************************)
(* The RUNLOG and the freshness check over it (internal/format/            *)
(* freshness.go).  An entry is [run, dp, idx, prev], prev = NoRun for the  *)
(* first run of a downpipe.  A log object is [parses, entries]; a          *)
(* signature object is [decodes, over]: it verifies against the pinned     *)
(* signer exactly for the log it was made over.                            *)
(***************************************************************************)
EXTENDS Naturals, Sequences

NoRun == 0

\* The highest index of the log is below n.
MaxBelow(log, n) == \A i \in DOMAIN log : log[i].idx < n

\* Mutant of IsLatest: the log is not looked at past the run's own entry.
IsLatestAlways(log, dp, idx) == TRUE

\* idx is the highest index of the downpipe, given that it is one of them.
IsLatest(log, dp, idx) == \A i \in DOMAIN log : log[i].dp = dp => log[i].idx <= idx

(***************************************************************************)
(* detectChainAnomaly: over the entries in index order, a duplicated       *)
(* index, an entry that does not name the entry of its downpipe before it, *)
(* a prevRunId no entry carries, or one that two entries carry.            *)
(***************************************************************************)
\* Mutant of DuplicateIndex: indices must ascend line by line.
IndexNotAscending(log) == \E i \in 2 .. Len(log) : log[i].idx <= log[i - 1].idx

DuplicateIndex(log) ==
    \E i, j \in DOMAIN log : i # j /\ log[i].idx = log[j].idx

\* j is the entry of i's downpipe next below it in index order.
Precedes(log, j, i) ==
    /\ log[j].dp = log[i].dp /\ log[j].idx < log[i].idx
    /\ ~ \E k \in DOMAIN log : /\ log[k].dp = log[i].dp
                               /\ log[j].idx < log[k].idx /\ log[k].idx < log[i].idx

BrokenChain(log) ==
    \E i, j \in DOMAIN log : Precedes(log, j, i) /\ log[i].prev # log[j].run

Dangling(log) ==
    \E i \in DOMAIN log :
        /\ log[i].prev # NoRun
        /\ \A j \in DOMAIN log : log[j].run # log[i].prev

Forked(log) ==
    \E i, j \in DOMAIN log :
        i # j /\ log[i].prev # NoRun /\ log[i].prev = log[j].prev

ChainAnomaly(log) ==
    DuplicateIndex(log) \/ BrokenChain(log) \/ Dangling(log) \/ Forked(log)

(***************************************************************************)
(* lookupRunEntry: the last entry for the run, which must agree with the   *)
(* signed root on downpipe, index and prevRunId.                           *)
(***************************************************************************)
Listed(log, run) == {i \in DOMAIN log : log[i].run = run}

LookupFails(log, root) ==
    ~ \E i \in Listed(log, root.run) :
          /\ \A j \in Listed(log, root.run) : j <= i
          /\ log[i].dp = root.dp /\ log[i].idx = root.idx /\ log[i].prev = root.prev

(***************************************************************************)
(* CheckFreshness.  err names the class of the error: the check could not  *)
(* be run, the log contradicts itself, or the check ran and the run is     *)
(* old.  untrusted and unchecked are the result's own flags, set at other  *)
(* places of the code than err.                                            *)
(***************************************************************************)
\* Mutant of UncheckedFreshness: the result does not say that the log is untrusted.
UncheckedButTrusted ==
    [latest |-> FALSE, warning |-> TRUE, unchecked |-> TRUE, untrusted |-> FALSE,
     err |-> "unchecked"]

UncheckedFreshness ==
    [latest |-> FALSE, warning |-> TRUE, unchecked |-> TRUE, untrusted |-> TRUE,
     err |-> "unchecked"]

CheckFreshness(log, sig, root, pin) ==
    LET latest == IsLatest(log.entries, root.dp, root.idx)
        found(w, u, e) == [latest |-> latest, warning |-> w, unchecked |-> FALSE,
                           untrusted |-> u, err |-> e]
    IN  IF \/ ~sig.decodes \/ sig.over # log \/ ~log.parses \/ log.entries = <<>>
           \/ LookupFails(log.entries, root)
        THEN UncheckedFreshness
        ELSE IF ChainAnomaly(log.entries) THEN found(TRUE, TRUE, "anomaly")
             ELSE IF (pin > 0 /\ MaxBelow(log.entries, pin)) \/ ~latest
                  THEN found(TRUE, FALSE, "stale")
                  ELSE found(FALSE, FALSE, "none")

\* Mutant of Acknowledges: the age word covers whatever the check found.
AcknowledgesAny(opts, fresh) == opts.unverified \/ opts.runlog \/ opts.stale

\* Options.acknowledges: what the operator's flags cover.
Acknowledges(opts, fresh) ==
    \/ opts.unverified \/ opts.runlog
    \/ opts.stale /\ ~fresh.untrusted

=============================================================================
