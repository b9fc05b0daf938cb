----------------------------- MODULE Supervision -----------------------------
(***************************************************************************)
(* One supervised execution of a worker process: runner._acquire and       *)
(* _execute, the threads that drain its two pipes, _start_process and      *)
(* _terminate_process_tree, windows_job.py and worker_bootstrap.py.        *)
(*                                                                         *)
(* A call is the thread of the server that waits for its worker.  The      *)
(* worker's leader may start descendants, which hold the pipes open and    *)
(* write to them as well.  They belong to a process group (POSIX) or to a  *)
(* job whose last handle the server holds (Windows); a descendant that     *)
(* leaves the group is outside this model.  What is written to a pipe is   *)
(* counted.                                                                *)
(***************************************************************************)
EXTENDS Integers, FiniteSets

CONSTANTS
    Calls,  \* threads of the server that run workers
    Slots,  \* max_parallel
    Cap,    \* stream -> its limit: max_output_bytes, 64 KiB for stderr
    None

ASSUME SupervisionAssumption ==
    /\ IsFiniteSet(Calls)
    /\ Slots \in Nat \ {0} /\ Cap \in [{"out", "err"} -> Nat]

Streams == {"out", "err"}

VARIABLES
    nt,    \* os.name = "nt"
    host,  \* the server runs
    free,  \* the semaphore _slots
    call   \* call -> its place in _execute, its worker and its readers

vars == <<nt, host, free, call>>

Idle == [pc |-> "idle", leader |-> "none", gate |-> "shut", kids |-> FALSE, job |-> FALSE,
         wrote |-> [s \in Streams |-> 0], got |-> [s \in Streams |-> 0],
         reader |-> [s \in Streams |-> "none"], code |-> None, late |-> FALSE, out |-> None]

Init ==
    /\ nt \in BOOLEAN /\ host = TRUE
    /\ free = Slots
    /\ call = [c \in Calls |-> Idle]

At(c, place) == host /\ call[c].pc = place
Goto(c, place) == call' = [call EXCEPT ![c].pc = place]
Alive(c) == call[c].leader \in {"gate", "work"} \/ call[c].kids
Ended(c) == \A s \in Streams : call[c].reader[s] \in {"full", "failed", "eof"}
Damaged(c) == \E s \in Streams : call[c].reader[s] \in {"full", "failed"}

Same == UNCHANGED <<nt, host, free>>

-----------------------------------------------------------------------------

\* _acquire: every 50 ms the thread sees whether it is cancelled or too late.
Call(c) == At(c, "idle") /\ Goto(c, "queue") /\ Same

TakeSlot(c) ==
    /\ At(c, "queue") /\ free > 0
    /\ free' = free - 1 /\ Goto(c, "start")
    /\ UNCHANGED <<nt, host>>

\* Mutant: the slot is released although it was never acquired.
GiveUpReleasing(c) ==
    /\ At(c, "queue")
    /\ free' = free + 1 /\ call' = [call EXCEPT ![c].pc = "done", ![c].out = "error"]
    /\ UNCHANGED <<nt, host>>

\* "Analysis queue timed out", or cancelled.
GiveUp(c) ==
    /\ At(c, "queue")
    /\ call' = [call EXCEPT ![c].pc = "done", ![c].out = "error"]
    /\ Same

-----------------------------------------------------------------------------

Read == [s \in Streams |-> "on"]

\* Popen in a session of its own; the bootstrap runs its target at once.
StartGroup(c) ==
    /\ At(c, "start") /\ ~nt
    /\ call' = [call EXCEPT ![c].pc = "watch", ![c].leader = "work", ![c].reader = Read]
    /\ Same

\* The job or the process cannot be made.
StartFails(c) ==
    /\ At(c, "start")
    /\ call' = [call EXCEPT ![c].pc = "release", ![c].out = "error"]
    /\ Same

\* Mutant: the bootstrap does not wait for the gate.
StartUngated(c) ==
    /\ At(c, "start") /\ nt
    /\ call' = [call EXCEPT ![c].pc = "assign", ![c].leader = "gate", ![c].gate = "open"]
    /\ Same

\* start_process: the bootstrap waits on its stdin.
StartGated(c) ==
    /\ At(c, "start") /\ nt
    /\ call' = [call EXCEPT ![c].pc = "assign", ![c].leader = "gate"]
    /\ Same

Assign(c) ==
    /\ At(c, "assign") /\ call[c].leader = "gate"
    /\ call' = [call EXCEPT ![c].pc = "open", ![c].job = TRUE]
    /\ Same

Open(c) ==
    /\ At(c, "open") /\ call[c].leader = "gate"
    /\ call' = [call EXCEPT ![c].pc = "watch", ![c].gate = "open", ![c].reader = Read]
    /\ Same

\* Assignment or handshake fails: the job is closed and the leader killed.
Abandon(c) ==
    /\ At(c, "assign") \/ At(c, "open")
    /\ call' = [call EXCEPT ![c].pc = "release", ![c].out = "error", ![c].leader = "gone"]
    /\ Same

-----------------------------------------------------------------------------

\* The worker, as far as its supervisor can tell; without a server only what
\* the bootstrap does is modelled.
Enter(c) ==
    /\ call[c].leader = "gate" /\ call[c].gate = "open"
    /\ call' = [call EXCEPT ![c].leader = "work"]
    /\ Same

\* Mutant: the end of the gate's pipe is taken for the byte.
EofEnters(c) ==
    /\ call[c].leader = "gate" /\ call[c].gate = "eof"
    /\ call' = [call EXCEPT ![c].leader = "work"]
    /\ Same

\* "Worker startup handshake failed".
EofLeaves(c) ==
    /\ call[c].leader = "gate" /\ call[c].gate = "eof"
    /\ call' = [call EXCEPT ![c].leader = "gone", ![c].code = 1]
    /\ Same

Works(c) == call[c].leader = "work" \/ call[c].kids

Write(c, s) ==
    /\ host /\ Works(c) /\ call[c].wrote[s] <= Cap[s] /\ call[c].reader[s] = "on"
    /\ call' = [call EXCEPT ![c].wrote[s] = @ + 1]
    /\ Same

Fork(c) ==
    /\ host /\ Works(c) /\ ~call[c].kids
    /\ call' = [call EXCEPT ![c].kids = TRUE]
    /\ Same

Exit(c) ==
    /\ host
    /\ \/ \E code \in {0, 1} : call[c].leader = "work"
            /\ call' = [call EXCEPT ![c].leader = "gone", ![c].code = code]
       \/ call[c].leader = "gate" /\ call' = [call EXCEPT ![c].leader = "gone", ![c].code = 1]
       \/ call[c].kids /\ call' = [call EXCEPT ![c].kids = FALSE]
    /\ Same

-----------------------------------------------------------------------------

\* drain: a chunk that does not fit is cut, and the thread ends.
Drain(c, s) ==
    /\ host /\ call[c].reader[s] = "on"
    /\ \E n \in (call[c].got[s] + 1)..call[c].wrote[s] :
        call' = [call EXCEPT ![c] =
                    [@ EXCEPT !.got[s] = IF n > Cap[s] THEN Cap[s] ELSE n,
                              !.reader[s] = IF n > Cap[s] THEN "full" ELSE "on"]]
    /\ Same

\* Nobody holds the writing end any more.
Eof(c, s) ==
    /\ host /\ call[c].reader[s] = "on" /\ ~Alive(c) /\ call[c].got[s] = call[c].wrote[s]
    /\ call' = [call EXCEPT ![c].reader[s] = "eof"]
    /\ Same

ReadFails(c, s) ==
    /\ host /\ call[c].reader[s] = "on"
    /\ call' = [call EXCEPT ![c].reader[s] = "failed"]
    /\ Same

-----------------------------------------------------------------------------

Deadline(c) ==
    /\ host /\ call[c].pc \in {"watch", "looked"} /\ ~call[c].late
    /\ call' = [call EXCEPT ![c].late = TRUE]
    /\ Same

\* The first half of a turn of the loop: cancelled, too much memory, or a
\* reader has complained.
Look(c) ==
    /\ At(c, "watch")
    /\ \/ call' = [call EXCEPT ![c].pc = "kill", ![c].out = "error"]
       \/ ~Damaged(c) /\ Goto(c, "looked")
    /\ Same

\* Mutant: a worker that does not end is waited for.
DecideForever(c) ==
    /\ At(c, "looked")
    /\ Goto(c, IF call[c].leader = "gone" /\ Ended(c) THEN "check" ELSE "watch")
    /\ Same

\* The second half: the worker has been polled and the readers have ended, or
\* it is too late.
Decide(c) ==
    /\ At(c, "looked")
    /\ LET over == call[c].leader = "gone" /\ Ended(c)
       IN  call' = [call EXCEPT
            ![c].pc = IF over THEN "check" ELSE IF call[c].late THEN "kill" ELSE "watch",
            ![c].out = IF ~over /\ call[c].late THEN "error" ELSE @]
    /\ Same

\* Mutant: what the readers said before the loop's last check is all.
CheckCode(c) ==
    /\ At(c, "check")
    /\ call' = [call EXCEPT ![c].pc = "kill",
                            ![c].out = IF call[c].code = 0 THEN "ok" ELSE "error"]
    /\ Same

\* A reader may have ended between the two halves; so it is asked again.
Check(c) ==
    /\ At(c, "check")
    /\ call' = [call EXCEPT ![c].pc = "kill",
                    ![c].out = IF Damaged(c) \/ call[c].code # 0 THEN "error" ELSE "ok"]
    /\ Same

\* Mutant: only a leader that still runs has its group killed.
KillRunning(c) ==
    /\ At(c, "kill")
    /\ call' = [call EXCEPT ![c].pc = "join",
            ![c].leader = "gone", ![c].kids = @ /\ call[c].leader = "gone"]
    /\ Same

\* _terminate_process_tree: the group, or all members of the job.
Kill(c) ==
    /\ At(c, "kill")
    /\ call' = [call EXCEPT ![c].pc = "join", ![c].leader = "gone", ![c].kids = FALSE]
    /\ Same

\* The readers are told to stop and are joined, each for a second.
Join(c) ==
    /\ At(c, "join") /\ Goto(c, "release")
    /\ Same

Release(c) ==
    /\ At(c, "release")
    /\ free' = free + 1
    /\ call' = [call EXCEPT ![c] = [Idle EXCEPT !.pc = "done", !.out = call[c].out,
                                    !.leader = call[c].leader, !.kids = call[c].kids]]
    /\ UNCHANGED <<nt, host>>

Return(c) ==
    /\ At(c, "done")
    /\ call' = [call EXCEPT ![c] = Idle]
    /\ Same

\* The system closes the handles of a dead server: the job's members are
\* killed, and who waits at the gate sees the end of its pipe.
HostDies ==
    /\ host /\ host' = FALSE
    /\ call' = [c \in Calls |->
            IF nt /\ call[c].job /\ Alive(c) THEN [call[c] EXCEPT !.leader = "gone", !.kids = FALSE]
            ELSE IF call[c].gate = "shut" THEN [call[c] EXCEPT !.gate = "eof"] ELSE call[c]]
    /\ UNCHANGED <<nt, free>>

-----------------------------------------------------------------------------

Host(c) ==
    \/ TakeSlot(c) \/ GiveUp(c)
    \/ StartGroup(c) \/ StartFails(c) \/ StartGated(c) \/ Assign(c) \/ Open(c) \/ Abandon(c)
    \/ Look(c) \/ Decide(c) \/ Check(c) \/ Kill(c) \/ Join(c) \/ Release(c) \/ Return(c)

Worker(c) == Fork(c) \/ Exit(c) \/ \E s \in Streams : Write(c, s)
Readers(c) == \E s \in Streams : Drain(c, s) \/ Eof(c, s) \/ ReadFails(c, s)

Next ==
    \/ \E c \in Calls : Call(c) \/ Host(c) \/ Deadline(c) \/ Readers(c)
                        \/ Worker(c) \/ Enter(c) \/ EofLeaves(c)
    \/ HostDies

\* The server's threads run, the clock too, and a bootstrap that can read its
\* gate does; a worker need not do anything.
Fairness ==
    \A c \in Calls : WF_vars(Host(c)) /\ WF_vars(Deadline(c)) /\ WF_vars(EofLeaves(c))

Spec == Init /\ [][Next]_vars /\ Fairness

-----------------------------------------------------------------------------

Places == {"idle", "queue", "start", "assign", "open", "watch", "looked", "check",
           "kill", "join", "release", "done"}
Holding(c) == call[c].pc \notin {"idle", "queue", "done"}

CallType ==
    [pc : Places, leader : {"none", "gate", "work", "gone"}, gate : {"shut", "open", "eof"},
     kids : BOOLEAN, job : BOOLEAN, wrote : [Streams -> Nat], got : [Streams -> Nat],
     reader : [Streams -> {"none", "on", "full", "failed", "eof"}],
     code : {0, 1, None}, late : BOOLEAN, out : {None, "ok", "error"}]

\* Every variable has its type, and no buffer exceeds its stream's limit.
TypeOK ==
    /\ {nt, host} \subseteq BOOLEAN /\ free \in 0..Slots
    /\ call \in [Calls -> CallType]
    /\ \A c \in Calls, s \in Streams : call[c].got[s] <= Cap[s]

\* An answer that _execute returns is all that the worker and its descendants
\* have written, and no less: a cut or failed stream is an error.
AnswersComplete ==
    \A c \in Calls : call[c].out = "ok" /\ call[c].pc \in {"kill", "join", "release"} =>
        call[c].code = 0 /\ \A s \in Streams : call[c].got[s] = call[c].wrote[s]

\* When a call gives its slot back nothing of its worker runs any more, on
\* every path out of _execute and however the leader ended.
NothingSurvives ==
    host => \A c \in Calls : call[c].pc \in {"release", "done", "idle"} => ~Alive(c)

\* On Windows no workload, and no descendant, runs outside the job.
WorkInJob ==
    nt => \A c \in Calls : Works(c) => call[c].job

\* At most max_parallel trees of processes run at a time.
TreesWithinSlots ==
    host => Cardinality({c \in Calls : Alive(c)}) <= Slots

\* A call ends, whatever its worker does, unless the server dies.
CallsEnd ==
    \A c \in Calls : (host /\ call[c].pc = "queue") ~> (~host \/ call[c].pc = "done")

\* On Windows no worker outlives the server, not even one that has not been
\* assigned to its job yet.
DiesWithHost ==
    (nt /\ ~host) ~> \A c \in Calls : ~Alive(c)
=============================================================================
