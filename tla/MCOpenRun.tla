----------------------------- MODULE MCOpenRun -----------------------------
(***************************************************************************)
(* Instances of OpenRun: two downpipes, three runs.  The layouts hold no   *)
(* shard, an empty shard, and seven records: the accumulator passes every  *)
(* count up to seven, powers of two and their neighbours included.         *)
(***************************************************************************)
EXTENDS OpenRun, TLC

MCLayouts == {<<>>, <<0, 2>>, <<3, 4>>}

Recipient(role, fp, genuine) == [role |-> role, fp |-> fp, genuine |-> genuine]

Operator == Recipient("operator", "operator", TRUE)
Break == Recipient("break-glass", "break-glass", TRUE)

Manifest(recipients, wraps, present, setHash) ==
    [recipients |-> recipients, wraps |-> wraps, breakGlassPresent |-> present,
     setHash |-> setHash]

MCManifests ==
    { Manifest(<<Operator, Break>>, <<"operator", "break-glass">>, TRUE, TRUE),
      Manifest(<<Operator, Break>>, <<"operator", "operator">>, TRUE, TRUE),
      Manifest(<<Operator>>, <<"operator">>, TRUE, TRUE),
      Manifest(<<Operator, Break>>, <<"operator", "stranger">>, TRUE, TRUE),
      Manifest(<<Operator, Break, Break>>, <<"operator", "break-glass">>, TRUE, TRUE),
      Manifest(<<Operator, Break>>, <<"operator", "break-glass">>, FALSE, TRUE),
      Manifest(<<Operator, Break>>, <<"operator", "break-glass">>, TRUE, FALSE),
      Manifest(<<Operator, Recipient("break-glass", "operator", FALSE)>>,
               <<"operator">>, TRUE, TRUE) }

Symmetry == Permutations(Downpipes)

\* Once the log has been judged nothing reads the engine's state, and once the
\* bundle has been checked nothing reads the log that was judged: the invariants
\* about them hold or fail in the state before.
View ==
    CASE pc \in {"reread", "report", "done"} ->
            <<pc, opts, root, body, out, shard, buf, acc, seen, handed, fresh, exit>>
      [] pc = "bundle" -> <<reader>>
      [] OTHER -> <<vars>>

=============================================================================
