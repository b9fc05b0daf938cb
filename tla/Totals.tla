------------------------------- MODULE Totals -------------------------------
(***************************************************************************)
(* The sum of a function into Nat, as the disk and memory budgets take it  *)
(* over the entries of a store (`sum(e.size for e in entries.values())').  *)
(* The sum is the number of cells of the function's graph, so that the     *)
(* theorems about finite sets apply to it.                                 *)
(***************************************************************************)
EXTENDS Integers, FiniteSets

Column(x, n) == {x} \X (1..n)
Cells(f) == UNION {Column(x, f[x]) : x \in DOMAIN f}
Total(f) == Cardinality(Cells(f))
=============================================================================
