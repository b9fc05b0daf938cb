---------------------------- MODULE SessionLease ----------------------------
(***************************************************************************)
(* What the session store promises to its callers, without budgets, locks  *)
(* or clocks: every session lives through free, building, open, closing    *)
(* and gone, and is never removed while a query holds it.                  *)
(***************************************************************************)
CONSTANTS Keys, Callers

VARIABLES state, holders

lease == <<state, holders>>

States == {"free", "building", "open", "closing", "gone"}

Init ==
    /\ state = [k \in Keys |-> "free"]
    /\ holders = [k \in Keys |-> {}]

\* A session that is built becomes open, or is discarded.
Build(k) ==
    /\ <<state[k], state'[k]>> \in {<<"free", "building">>, <<"building", "open">>,
                                    <<"building", "gone">>}
    /\ holders'[k] = holders[k]

\* A query acquires an open session.
Acquire(k) ==
    /\ state[k] = "open" /\ state'[k] = "open"
    /\ \E t \in Callers \ holders[k] : holders'[k] = holders[k] \cup {t}

\* Nobody holds k and it is removed: expired, evicted, closed or shut down.
Remove(k) ==
    /\ state[k] = "open" /\ holders[k] = {}
    /\ state'[k] = "gone" /\ holders'[k] = {}

\* A session that is held may only be marked; its last holder removes it.
Doom(k) ==
    /\ state[k] = "open" /\ holders[k] # {}
    /\ state'[k] = "closing" /\ holders'[k] = holders[k]

Leave(k) ==
    \E t \in holders[k] :
        /\ holders'[k] = holders[k] \ {t}
        /\ state'[k] = IF state[k] = "closing" /\ holders[k] = {t} THEN "gone" ELSE state[k]

Same(k) == state'[k] = state[k] /\ holders'[k] = holders[k]

\* One critical section of the store may move several sessions.
Next ==
    /\ state' = [k \in Keys |-> state'[k]]
    /\ holders' = [k \in Keys |-> holders'[k]]
    /\ \A k \in Keys :
        Build(k) \/ Acquire(k) \/ Remove(k) \/ Doom(k) \/ Leave(k) \/ Same(k)

Spec == Init /\ [][Next]_lease
=============================================================================
