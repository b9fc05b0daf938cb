---------------------------- MODULE MCSessionStore ----------------------------
(***************************************************************************)
(* Values for TLC: two callers over few keys and a disk budget of a few    *)
(* units, small enough that reservations collide, evict and are refused.   *)
(***************************************************************************)
EXTENDS SessionStore, TLC

Symmetric == Permutations(Callers) \cup Permutations(Keys)
=============================================================================
