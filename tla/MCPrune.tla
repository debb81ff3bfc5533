------------------------------ MODULE MCPrune ------------------------------
(***************************************************************************)
(* Model-checking instances of Prune: runs, segments and downpipes are     *)
(* model values and interchangeable.                                       *)
(***************************************************************************)
EXTENDS Prune, TLC

Symmetry == Permutations(Segs) \cup Permutations(Runs) \cup Permutations(Downpipes)
=============================================================================
