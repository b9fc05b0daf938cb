--------------------------- MODULE MCSnapshotCache ---------------------------
(***************************************************************************)
(* Values for TLC: a few calls with one or two queries over a file that    *)
(* changes once, and a cache that few snapshots fill.                      *)
(***************************************************************************)
EXTENDS SnapshotCache, TLC

Symmetric == 
    Permutations(Callers) \cup Permutations(Queries) \cup Permutations(Futures)
=============================================================================
