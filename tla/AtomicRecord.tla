---------------------------- MODULE AtomicRecord ----------------------------
(***************************************************************************)
(* What restoring one record promises: the value appears at the            *)
(* destination whole and verified, in one step, or not at all, and success *)
(* is reported exactly when it appeared.                                   *)
(***************************************************************************)
VARIABLES place,      \* "free", "taken" by something else, or "value"
          text,       \* the bytes put there
          expected,   \* the bytes the signed manifest describes
          outcome     \* "running", "ok" or "failed"

vars == <<place, text, expected, outcome>>

Init == /\ place \in {"free", "taken"}
        /\ text = <<>>
        /\ outcome = "running"

Commit == /\ outcome = "running" /\ place = "free"
          /\ place' = "value" /\ text' = expected
          /\ UNCHANGED <<expected, outcome>>

Succeed == /\ outcome = "running" /\ place = "value"
           /\ outcome' = "ok"
           /\ UNCHANGED <<place, text, expected>>

Fail == /\ outcome = "running" /\ place # "value"
        /\ outcome' = "failed"
        /\ UNCHANGED <<place, text, expected>>

Next == Commit \/ Succeed \/ Fail

Spec == Init /\ [][Next]_vars
=============================================================================
