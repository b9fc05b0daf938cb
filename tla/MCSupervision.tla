---------------------------- MODULE MCSupervision ----------------------------
(***************************************************************************)
(* Values for TLC: two threads and one slot, streams that may overflow.    *)
(* No symmetry: the run checks liveness.                                   *)
(***************************************************************************)
EXTENDS Supervision

Limits == [out |-> 1, err |-> 0]
=============================================================================
