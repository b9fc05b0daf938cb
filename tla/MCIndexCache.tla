---------------------------- MODULE MCIndexCache ----------------------------
(***************************************************************************)
(* Values for TLC: two sessions on one input, so that what one publishes   *)
(* the other restores, and a directory in which two copies fit.            *)
(***************************************************************************)
EXTENDS IndexCache, TLC

OneInput == [s \in Sessions |-> CHOOSE i \in Inputs : TRUE]
Sizes == [k \in Identity |-> IF k.scope = "calls" THEN 1 ELSE IF k.engine = 0 THEN 2 ELSE 4]
Larger == [k \in Identity |-> IF k.scope = "calls" THEN 2 ELSE IF k.engine = 0 THEN 3 ELSE 4]
Stale == [input : Inputs, engine : {0}, scope : Scopes]

Symmetric == Permutations(Workers) \cup Permutations(Sessions)
=============================================================================
