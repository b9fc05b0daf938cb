--------------------------- MODULE MCSessionCaches ---------------------------
(***************************************************************************)
(* Values for TLC: two threads, selectors of which the budget of sets does *)
(* not hold all, index files that appear and vanish, and one upgrade.      *)
(***************************************************************************)
EXTENDS SessionCaches, TLC

Symmetric == Permutations(Callers) \cup Permutations(Selected)
=============================================================================
