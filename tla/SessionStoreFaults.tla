------------------------- MODULE SessionStoreFaults -------------------------
(***************************************************************************)
(* The session store where removing a directory may raise OSError, as it   *)
(* does when another process still has one of its files open.              *)
(***************************************************************************)
EXTENDS SessionStore

\* storage.cleanup() raises inside the finally of open or load_artifact: the
\* statements after it, which return the reservation, are not reached.
CleanupRaises(t) ==
    /\ pc[t] = "open_undo"
    /\ entry' = Dropped(entry, {cur[t]})
    /\ pc' = [pc EXCEPT ![t] = "idle"]
    /\ cur' = [cur EXCEPT ![t] = None]
    /\ hold' = [hold EXCEPT ![t] = 0]
    /\ made' = [made EXCEPT ![t] = 0]
    /\ UNCHANGED <<newer, reserved, opening, closed, stop, reaper, mutex, prep, pins, todo>>

\* _expire raises inside _sweep: the exception leaves the loop and ends the
\* thread, and since self.reaper is set _reserve starts no other.
ReaperDies ==
    /\ reaper = "waiting" /\ Unlocked /\ Expirable # {}
    /\ reaper' = "done"
    /\ UNCHANGED <<store, stop, mutex, prep, thread>>

FaultNext == Next \/ ReaperDies \/ \E t \in Callers : CleanupRaises(t)

FaultSpec == Init /\ [][FaultNext]_vars

FairFaultSpec == FaultSpec /\ Fairness

\* "Cancellation or failed opens release their reservations": once every call
\* has returned, nothing is reserved any more.
FailedOpensRelease ==
    (\A t \in Callers : pc[t] = "idle") => reserved = 0 /\ opening = 0

\* "Idle sessions expire (swept at most every 30 seconds)": an idle session
\* goes away by itself, whatever became of earlier sweeps.
IdleSessionsExpire ==
    \A k \in Keys : (entry[k].state = "open" /\ entry[k].stale) ~> (entry[k].state = "gone")
=============================================================================
