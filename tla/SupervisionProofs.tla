-------------------------- MODULE SupervisionProofs --------------------------
(***************************************************************************)
(* Supervision proved for any set of threads, any number of slots and any  *)
(* limits of the two pipes, on both platforms.                             *)
(*                                                                         *)
(* None of the properties is inductive.  A slot's release needs that its   *)
(* worker is gone, which the places before it must carry (Staged); that an *)
(* answer is complete needs what the end of a pipe says of the processes   *)
(* that could still write to it (Heard); that no workload runs outside its *)
(* job needs that the gate opens only after the assignment (Jobbed).  They *)
(* speak of one call's record, so a step of one call keeps the others'     *)
(* (OthersKeep) and each action is shown sound on its own record.  The     *)
(* slots are counted apart (Counted).                                      *)
(***************************************************************************)
EXTENDS Supervision, FiniteSetTheorems, TLAPS

\* The places before the worker runs its target.
Unstarted(r) == r.pc \in {"idle", "queue", "start", "assign", "open"}

\* Nothing of the worker runs.
Quiet(r) == r.leader \in {"none", "gone"} /\ ~r.kids

\* What the place of the server's thread says of its worker.
Staged(r) ==
    /\ Unstarted(r) => \A s \in Streams : r.reader[s] = "none"
    /\ host /\ r.pc \in {"idle", "queue", "start", "join", "release", "done"} => Quiet(r)
    /\ host /\ Unstarted(r) => r.gate = "shut"
    /\ host /\ r.pc \in {"assign", "open"} => r.leader \in {"gate", "gone"} /\ ~r.kids

\* On Windows whatever runs, and an open gate, has a job.
Jobbed(r) ==
    nt => /\ r.leader = "work" \/ r.kids \/ r.gate = "open" => r.job
          /\ r.pc = "open" => r.job

\* What a reader that has ended, and an answer, say of the worker.
Heard(r) ==
    /\ \A s \in Streams : r.reader[s] = "eof" => r.got[s] = r.wrote[s] /\ Quiet(r)
    /\ r.pc = "check" =>
        r.leader = "gone" /\ \A s \in Streams : r.reader[s] \in {"full", "failed", "eof"}
    /\ r.out = "ok" /\ r.pc \in {"kill", "join", "release"} =>
        r.code = 0 /\ \A s \in Streams : r.reader[s] = "eof"

\* The types, and the bound of each buffer.
Typed(r) == r \in CallType /\ \A s \in Streams : r.got[s] <= Cap[s]

\* The invariant of one call.
Sound(r) == Typed(r) /\ Staged(r) /\ Jobbed(r) /\ Heard(r)

\* The calls that have a slot.
Held == {c \in Calls : Holding(c)}

\* The inductive invariant of the calls.
SInv ==
    /\ nt \in BOOLEAN /\ host \in BOOLEAN
    /\ call \in [Calls -> CallType]
    /\ \A c \in Calls : Sound(call[c])

\* What a step that keeps the invariant leaves behind.
Kept == call' \in [Calls -> CallType] /\ \A d \in Calls : Sound(call[d])'

\* Every slot is free or held, and no slot is made or lost.
Counted == free \in Nat /\ free + Cardinality(Held) = Slots

-----------------------------------------------------------------------------

\* A step that leaves one call with a sound record keeps the invariant.
LEMMA OthersKeep ==
    ASSUME SInv, NEW c \in Calls, NEW r \in CallType, Sound(r),
           call' = [call EXCEPT ![c] = r], UNCHANGED <<nt, host>>
    PROVE  Kept
PROOF
<1>1. call' \in [Calls -> CallType] BY DEF SInv
<1>2. ASSUME NEW d \in Calls PROVE Sound(call[d])'
  <2>1. CASE d = c
    <3>1. call'[d] = r BY <2>1 DEF SInv
    <3> QED BY <3>1 DEF Sound, Typed, Staged, Jobbed, Heard, Unstarted, Quiet
  <2>2. CASE d # c
    <3>1. call'[d] = call[d] BY <2>2 DEF SInv
    <3>2. Sound(call[d]) BY DEF SInv
    <3> QED BY <3>1, <3>2 DEF Sound, Typed, Staged, Jobbed, Heard, Unstarted, Quiet
  <2> QED BY <2>1, <2>2
<1> QED BY <1>1, <1>2 DEF Kept

\* A thread begins to wait for a slot.
LEMMA CallSound ==
    ASSUME SInv, NEW c \in Calls, Call(c)
    PROVE  Kept
PROOF
<1> DEFINE q == call[c]
           r == [q EXCEPT !.pc = "queue"]
<1>1. q \in CallType /\ Sound(q) BY DEF SInv
<1>2. call' = [call EXCEPT ![c] = r] /\ UNCHANGED <<nt, host>> BY DEF Call, Goto, Same
<1>3. q.pc = "idle" BY DEF Call, Goto, At
<1>4. r \in CallType BY <1>1, <1>3 DEF CallType, Places
<1> HIDE DEF q
<1>5. Typed(r) BY <1>1, <1>3, <1>4 DEF CallType, Sound, Typed
<1>6. Staged(r) BY <1>1, <1>3 DEF CallType, Sound, Staged, Quiet, Unstarted
<1>7. Jobbed(r) BY <1>1, <1>3 DEF CallType, Sound, Jobbed, Staged
<1>8. Heard(r) BY <1>1, <1>3 DEF CallType, Sound, Heard, Staged, Quiet, Unstarted
<1>9. Sound(r) BY <1>5, <1>6, <1>7, <1>8 DEF Sound
<1> HIDE DEF r
<1> QED BY <1>2, <1>4, <1>9, OthersKeep

\* It gets one.
LEMMA TakeSlotSound ==
    ASSUME SInv, NEW c \in Calls, TakeSlot(c)
    PROVE  Kept
PROOF
<1> DEFINE q == call[c]
           r == [q EXCEPT !.pc = "start"]
<1>1. q \in CallType /\ Sound(q) BY DEF SInv
<1>2. call' = [call EXCEPT ![c] = r] /\ UNCHANGED <<nt, host>> BY DEF TakeSlot, Goto, Same
<1>3. q.pc = "queue" BY DEF TakeSlot, Goto, At
<1>4. r \in CallType BY <1>1, <1>3 DEF CallType, Places
<1> HIDE DEF q
<1>5. Typed(r) BY <1>1, <1>3, <1>4 DEF CallType, Sound, Typed
<1>6. Staged(r) BY <1>1, <1>3 DEF CallType, Sound, Staged, Quiet, Unstarted
<1>7. Jobbed(r) BY <1>1, <1>3 DEF CallType, Sound, Jobbed, Staged
<1>8. Heard(r) BY <1>1, <1>3 DEF CallType, Sound, Heard, Staged, Quiet, Unstarted
<1>9. Sound(r) BY <1>5, <1>6, <1>7, <1>8 DEF Sound
<1> HIDE DEF r
<1> QED BY <1>2, <1>4, <1>9, OthersKeep

\* It waits no longer.
LEMMA GiveUpSound ==
    ASSUME SInv, NEW c \in Calls, GiveUp(c)
    PROVE  Kept
PROOF
<1> DEFINE q == call[c]
           r == [q EXCEPT !.pc = "done", !.out = "error"]
<1>1. q \in CallType /\ Sound(q) BY DEF SInv
<1>2. call' = [call EXCEPT ![c] = r] /\ UNCHANGED <<nt, host>> BY DEF GiveUp, Same
<1>3. q.pc = "queue" BY DEF GiveUp, At
<1>4. r \in CallType BY <1>1, <1>3 DEF CallType, Places
<1> HIDE DEF q
<1>5. Typed(r) BY <1>1, <1>3, <1>4 DEF CallType, Sound, Typed
<1>6. Staged(r) BY <1>1, <1>3 DEF CallType, Sound, Staged, Quiet, Unstarted
<1>7. Jobbed(r) BY <1>1, <1>3 DEF CallType, Sound, Jobbed, Staged
<1>8. Heard(r) BY <1>1, <1>3 DEF CallType, Sound, Heard, Staged, Quiet, Unstarted
<1>9. Sound(r) BY <1>5, <1>6, <1>7, <1>8 DEF Sound
<1> HIDE DEF r
<1> QED BY <1>2, <1>4, <1>9, OthersKeep

\* POSIX: the worker and both readers start; no reader has heard anything.
LEMMA StartGroupSound ==
    ASSUME SInv, NEW c \in Calls, StartGroup(c)
    PROVE  Kept
PROOF
<1> DEFINE q == call[c]
           r == [q EXCEPT !.pc = "watch", !.leader = "work", !.reader = Read]
<1>1. q \in CallType /\ Sound(q) BY DEF SInv
<1>2. call' = [call EXCEPT ![c] = r] /\ UNCHANGED <<nt, host>> BY DEF StartGroup, Same
<1>3. q.pc = "start" /\ ~nt BY DEF StartGroup, At
<1>4. r \in CallType BY <1>1, <1>3 DEF CallType, Places, Read, Streams
<1> HIDE DEF q
<1>5. Typed(r) BY <1>1, <1>3, <1>4 DEF CallType, Sound, Typed
<1>6. Staged(r) BY <1>1, <1>3 DEF CallType, Sound, Staged, Quiet, Unstarted, Read, Streams
<1>7. Jobbed(r) BY <1>1, <1>3 DEF CallType, Sound, Jobbed, Staged
<1>8. Heard(r)
  BY <1>1, <1>3 DEF CallType, Sound, Heard, Staged, Quiet, Unstarted, Read, Streams
<1>9. Sound(r) BY <1>5, <1>6, <1>7, <1>8 DEF Sound
<1> HIDE DEF r
<1> QED BY <1>2, <1>4, <1>9, OthersKeep

\* No worker is made, so there is nothing to kill.
LEMMA StartFailsSound ==
    ASSUME SInv, NEW c \in Calls, StartFails(c)
    PROVE  Kept
PROOF
<1> DEFINE q == call[c]
           r == [q EXCEPT !.pc = "release", !.out = "error"]
<1>1. q \in CallType /\ Sound(q) BY DEF SInv
<1>2. call' = [call EXCEPT ![c] = r] /\ UNCHANGED <<nt, host>> BY DEF StartFails, Same
<1>3. q.pc = "start" BY DEF StartFails, At
<1>4. r \in CallType BY <1>1, <1>3 DEF CallType, Places
<1> HIDE DEF q
<1>5. Typed(r) BY <1>1, <1>3, <1>4 DEF CallType, Sound, Typed
<1>6. Staged(r) BY <1>1, <1>3 DEF CallType, Sound, Staged, Quiet, Unstarted
<1>7. Jobbed(r) BY <1>1, <1>3 DEF CallType, Sound, Jobbed, Staged
<1>8. Heard(r) BY <1>1, <1>3 DEF CallType, Sound, Heard, Staged, Quiet, Unstarted
<1>9. Sound(r) BY <1>5, <1>6, <1>7, <1>8 DEF Sound
<1> HIDE DEF r
<1> QED BY <1>2, <1>4, <1>9, OthersKeep

\* Windows: the bootstrap starts behind a shut gate.
LEMMA StartGatedSound ==
    ASSUME SInv, NEW c \in Calls, StartGated(c)
    PROVE  Kept
PROOF
<1> DEFINE q == call[c]
           r == [q EXCEPT !.pc = "assign", !.leader = "gate"]
<1>1. q \in CallType /\ Sound(q) BY DEF SInv
<1>2. call' = [call EXCEPT ![c] = r] /\ UNCHANGED <<nt, host>> BY DEF StartGated, Same
<1>3. q.pc = "start" /\ host BY DEF StartGated, At
<1>4. r \in CallType BY <1>1, <1>3 DEF CallType, Places
<1> HIDE DEF q
<1>5. Typed(r) BY <1>1, <1>3, <1>4 DEF CallType, Sound, Typed
<1>6. Staged(r) BY <1>1, <1>3 DEF CallType, Sound, Staged, Quiet, Unstarted
<1>7. Jobbed(r) BY <1>1, <1>3 DEF CallType, Sound, Jobbed, Staged
<1>8. Heard(r) BY <1>1, <1>3 DEF CallType, Sound, Heard, Staged, Quiet, Unstarted
<1>9. Sound(r) BY <1>5, <1>6, <1>7, <1>8 DEF Sound
<1> HIDE DEF r
<1> QED BY <1>2, <1>4, <1>9, OthersKeep

\* The bootstrap becomes a member of the job.
LEMMA AssignSound ==
    ASSUME SInv, NEW c \in Calls, Assign(c)
    PROVE  Kept
PROOF
<1> DEFINE q == call[c]
           r == [q EXCEPT !.pc = "open", !.job = TRUE]
<1>1. q \in CallType /\ Sound(q) BY DEF SInv
<1>2. call' = [call EXCEPT ![c] = r] /\ UNCHANGED <<nt, host>> BY DEF Assign, Same
<1>3. q.pc = "assign" BY DEF Assign, At
<1>4. r \in CallType BY <1>1, <1>3 DEF CallType, Places
<1> HIDE DEF q
<1>5. Typed(r) BY <1>1, <1>3, <1>4 DEF CallType, Sound, Typed
<1>6. Staged(r) BY <1>1, <1>3 DEF CallType, Sound, Staged, Quiet, Unstarted
<1>7. Jobbed(r) BY <1>1, <1>3 DEF CallType, Sound, Jobbed, Staged
<1>8. Heard(r) BY <1>1, <1>3 DEF CallType, Sound, Heard, Staged, Quiet, Unstarted
<1>9. Sound(r) BY <1>5, <1>6, <1>7, <1>8 DEF Sound
<1> HIDE DEF r
<1> QED BY <1>2, <1>4, <1>9, OthersKeep

\* Only now may it run its target.
LEMMA OpenSound ==
    ASSUME SInv, NEW c \in Calls, Open(c)
    PROVE  Kept
PROOF
<1> DEFINE q == call[c]
           r == [q EXCEPT !.pc = "watch", !.gate = "open", !.reader = Read]
<1>1. q \in CallType /\ Sound(q) BY DEF SInv
<1>2. call' = [call EXCEPT ![c] = r] /\ UNCHANGED <<nt, host>> BY DEF Open, Same
<1>3. q.pc = "open" BY DEF Open, At
<1>4. r \in CallType BY <1>1, <1>3 DEF CallType, Places, Read, Streams
<1> HIDE DEF q
<1>5. Typed(r) BY <1>1, <1>3, <1>4 DEF CallType, Sound, Typed
<1>6. Staged(r) BY <1>1, <1>3 DEF CallType, Sound, Staged, Quiet, Unstarted, Read, Streams
<1>7. Jobbed(r) BY <1>1, <1>3 DEF CallType, Sound, Jobbed, Staged
<1>8. Heard(r)
  BY <1>1, <1>3 DEF CallType, Sound, Heard, Staged, Quiet, Unstarted, Read, Streams
<1>9. Sound(r) BY <1>5, <1>6, <1>7, <1>8 DEF Sound
<1> HIDE DEF r
<1> QED BY <1>2, <1>4, <1>9, OthersKeep

\* A bootstrap that could not be assigned is killed behind the gate.
LEMMA AbandonSound ==
    ASSUME SInv, NEW c \in Calls, Abandon(c)
    PROVE  Kept
PROOF
<1> DEFINE q == call[c]
           r == [q EXCEPT !.pc = "release", !.out = "error", !.leader = "gone"]
<1>1. q \in CallType /\ Sound(q) BY DEF SInv
<1>2. call' = [call EXCEPT ![c] = r] /\ UNCHANGED <<nt, host>> BY DEF Abandon, Same
<1>3. host /\ q.pc \in {"assign", "open"} BY DEF Abandon, At
<1>4. r \in CallType BY <1>1, <1>3 DEF CallType, Places
<1> HIDE DEF q
<1>5. Typed(r) BY <1>1, <1>3, <1>4 DEF CallType, Sound, Typed
<1>6. Staged(r) BY <1>1, <1>3 DEF CallType, Sound, Staged, Quiet, Unstarted
<1>7. Jobbed(r) BY <1>1, <1>3 DEF CallType, Sound, Jobbed, Staged
<1>8. Heard(r) BY <1>1, <1>3 DEF CallType, Sound, Heard, Staged, Quiet, Unstarted
<1>9. Sound(r) BY <1>5, <1>6, <1>7, <1>8 DEF Sound
<1> HIDE DEF r
<1> QED BY <1>2, <1>4, <1>9, OthersKeep

\* The bootstrap passes the gate: it has a job.
LEMMA EnterSound ==
    ASSUME SInv, NEW c \in Calls, Enter(c)
    PROVE  Kept
PROOF
<1> DEFINE q == call[c]
           r == [q EXCEPT !.leader = "work"]
<1>1. q \in CallType /\ Sound(q) BY DEF SInv
<1>2. call' = [call EXCEPT ![c] = r] /\ UNCHANGED <<nt, host>> BY DEF Enter, Same
<1>3. q.leader = "gate" /\ q.gate = "open" BY DEF Enter, At
<1>4. r \in CallType BY <1>1, <1>3 DEF CallType, Places
<1> HIDE DEF q
<1>5. Typed(r) BY <1>1, <1>3, <1>4 DEF CallType, Sound, Typed
<1>6. Staged(r) BY <1>1, <1>3 DEF CallType, Sound, Staged, Quiet, Unstarted
<1>7. Jobbed(r) BY <1>1, <1>3 DEF CallType, Sound, Jobbed, Staged
<1>8. Heard(r) BY <1>1, <1>3 DEF CallType, Sound, Heard, Staged, Quiet, Unstarted
<1>9. Sound(r) BY <1>5, <1>6, <1>7, <1>8 DEF Sound
<1> HIDE DEF r
<1> QED BY <1>2, <1>4, <1>9, OthersKeep

\* The bootstrap sees the end of the gate.
LEMMA EofLeavesSound ==
    ASSUME SInv, NEW c \in Calls, EofLeaves(c)
    PROVE  Kept
PROOF
<1> DEFINE q == call[c]
           r == [q EXCEPT !.leader = "gone", !.code = 1]
<1>1. q \in CallType /\ Sound(q) BY DEF SInv
<1>2. call' = [call EXCEPT ![c] = r] /\ UNCHANGED <<nt, host>> BY DEF EofLeaves, Same
<1>3. q.leader = "gate" /\ q.gate = "eof" BY DEF EofLeaves, At
<1>4. r \in CallType BY <1>1, <1>3 DEF CallType, Places
<1> HIDE DEF q
<1>5. Typed(r) BY <1>1, <1>3, <1>4 DEF CallType, Sound, Typed
<1>6. Staged(r) BY <1>1, <1>3 DEF CallType, Sound, Staged, Quiet, Unstarted
<1>7. Jobbed(r) BY <1>1, <1>3 DEF CallType, Sound, Jobbed, Staged
<1>8. Heard(r) BY <1>1, <1>3 DEF CallType, Sound, Heard, Staged, Quiet, Unstarted, Streams
<1>9. Sound(r) BY <1>5, <1>6, <1>7, <1>8 DEF Sound
<1> HIDE DEF r
<1> QED BY <1>2, <1>4, <1>9, OthersKeep

\* Only what runs can write, so no reader has seen the end.
LEMMA WriteSound ==
    ASSUME SInv, NEW c \in Calls, NEW s \in Streams, Write(c, s)
    PROVE  Kept
PROOF
<1> DEFINE q == call[c]
           r == [q EXCEPT !.wrote[s] = @ + 1]
<1>1. q \in CallType /\ Sound(q) BY DEF SInv
<1>2. call' = [call EXCEPT ![c] = r] /\ UNCHANGED <<nt, host>> BY DEF Write, Works, Same
<1>3. q.reader[s] = "on" /\ (q.leader = "work" \/ q.kids) BY DEF Write, Works, At
<1>4. r \in CallType BY <1>1, <1>3 DEF CallType, Places, Streams
<1> HIDE DEF q
<1>5. Typed(r) BY <1>1, <1>3, <1>4 DEF CallType, Sound, Typed
<1>6. Staged(r) BY <1>1, <1>3 DEF CallType, Sound, Staged, Quiet, Unstarted, Streams
<1>7. Jobbed(r) BY <1>1, <1>3 DEF CallType, Sound, Jobbed, Staged
<1>8. Heard(r) BY <1>1, <1>3 DEF CallType, Sound, Heard, Staged, Quiet, Unstarted
<1>9. Sound(r) BY <1>5, <1>6, <1>7, <1>8 DEF Sound
<1> HIDE DEF r
<1> QED BY <1>2, <1>4, <1>9, OthersKeep

\* A descendant belongs to the job of whoever forks it.
LEMMA ForkSound ==
    ASSUME SInv, NEW c \in Calls, Fork(c)
    PROVE  Kept
PROOF
<1> DEFINE q == call[c]
           r == [q EXCEPT !.kids = TRUE]
<1>1. q \in CallType /\ Sound(q) BY DEF SInv
<1>2. call' = [call EXCEPT ![c] = r] /\ UNCHANGED <<nt, host>> BY DEF Fork, Works, Same
<1>3. host /\ (q.leader = "work" \/ q.kids) BY DEF Fork, Works, At
<1>4. r \in CallType BY <1>1, <1>3 DEF CallType, Places
<1> HIDE DEF q
<1>5. Typed(r) BY <1>1, <1>3, <1>4 DEF CallType, Sound, Typed
<1>6. Staged(r) BY <1>1, <1>3 DEF CallType, Sound, Staged, Quiet, Unstarted
<1>7. Jobbed(r) BY <1>1, <1>3 DEF CallType, Sound, Jobbed, Staged
<1>8. Heard(r) BY <1>1, <1>3 DEF CallType, Sound, Heard, Staged, Quiet, Unstarted
<1>9. Sound(r) BY <1>5, <1>6, <1>7, <1>8 DEF Sound
<1> HIDE DEF r
<1> QED BY <1>2, <1>4, <1>9, OthersKeep

\* The end of a pipe: nothing runs and all has been read.
LEMMA EofSound ==
    ASSUME SInv, NEW c \in Calls, NEW s \in Streams, Eof(c, s)
    PROVE  Kept
PROOF
<1> DEFINE q == call[c]
           r == [q EXCEPT !.reader[s] = "eof"]
<1>1. q \in CallType /\ Sound(q) BY DEF SInv
<1>2. call' = [call EXCEPT ![c] = r] /\ UNCHANGED <<nt, host>> BY DEF Eof, Alive, Same
<1>3. q.reader[s] = "on" /\ q.got[s] = q.wrote[s] /\ ~(q.leader \in {"gate", "work"} \/ q.kids)
    BY DEF Eof, Alive, At
<1>4. r \in CallType BY <1>1, <1>3 DEF CallType, Places
<1> HIDE DEF q
<1>5. Typed(r) BY <1>1, <1>3, <1>4 DEF CallType, Sound, Typed
<1>6. Staged(r) BY <1>1, <1>3 DEF CallType, Sound, Staged, Quiet, Unstarted
<1>7. Jobbed(r) BY <1>1, <1>3 DEF CallType, Sound, Jobbed, Staged
<1>8. Heard(r) BY <1>1, <1>3 DEF CallType, Sound, Heard, Staged, Quiet, Unstarted
<1>9. Sound(r) BY <1>5, <1>6, <1>7, <1>8 DEF Sound
<1> HIDE DEF r
<1> QED BY <1>2, <1>4, <1>9, OthersKeep

\* A failed reader claims nothing.
LEMMA ReadFailsSound ==
    ASSUME SInv, NEW c \in Calls, NEW s \in Streams, ReadFails(c, s)
    PROVE  Kept
PROOF
<1> DEFINE q == call[c]
           r == [q EXCEPT !.reader[s] = "failed"]
<1>1. q \in CallType /\ Sound(q) BY DEF SInv
<1>2. call' = [call EXCEPT ![c] = r] /\ UNCHANGED <<nt, host>> BY DEF ReadFails, Same
<1>3. q.reader[s] = "on" BY DEF ReadFails, At
<1>4. r \in CallType BY <1>1, <1>3 DEF CallType, Places
<1> HIDE DEF q
<1>5. Typed(r) BY <1>1, <1>3, <1>4 DEF CallType, Sound, Typed
<1>6. Staged(r) BY <1>1, <1>3 DEF CallType, Sound, Staged, Quiet, Unstarted
<1>7. Jobbed(r) BY <1>1, <1>3 DEF CallType, Sound, Jobbed, Staged
<1>8. Heard(r) BY <1>1, <1>3 DEF CallType, Sound, Heard, Staged, Quiet, Unstarted
<1>9. Sound(r) BY <1>5, <1>6, <1>7, <1>8 DEF Sound
<1> HIDE DEF r
<1> QED BY <1>2, <1>4, <1>9, OthersKeep

\* The deadline changes no claim.
LEMMA DeadlineSound ==
    ASSUME SInv, NEW c \in Calls, Deadline(c)
    PROVE  Kept
PROOF
<1> DEFINE q == call[c]
           r == [q EXCEPT !.late = TRUE]
<1>1. q \in CallType /\ Sound(q) BY DEF SInv
<1>2. call' = [call EXCEPT ![c] = r] /\ UNCHANGED <<nt, host>> BY DEF Deadline, Same
<1>3. q.pc \in {"watch", "looked"} BY DEF Deadline, At
<1>4. r \in CallType BY <1>1, <1>3 DEF CallType, Places
<1> HIDE DEF q
<1>5. Typed(r) BY <1>1, <1>3, <1>4 DEF CallType, Sound, Typed
<1>6. Staged(r) BY <1>1, <1>3 DEF CallType, Sound, Staged, Quiet, Unstarted
<1>7. Jobbed(r) BY <1>1, <1>3 DEF CallType, Sound, Jobbed, Staged
<1>8. Heard(r) BY <1>1, <1>3 DEF CallType, Sound, Heard, Staged, Quiet, Unstarted
<1>9. Sound(r) BY <1>5, <1>6, <1>7, <1>8 DEF Sound
<1> HIDE DEF r
<1> QED BY <1>2, <1>4, <1>9, OthersKeep

\* The loop leaves for its checks only when the leader and both readers have ended.
LEMMA DecideSound ==
    ASSUME SInv, NEW c \in Calls, Decide(c)
    PROVE  Kept
PROOF
<1> DEFINE q == call[c]
           over == /\ q.leader = "gone"
                   /\ \A s \in Streams : q.reader[s] \in {"full", "failed", "eof"}
           r == [q EXCEPT
            !.pc = IF over THEN "check" ELSE IF q.late THEN "kill" ELSE "watch",
            !.out = IF ~over /\ q.late THEN "error" ELSE @]
<1>1. q \in CallType /\ Sound(q) BY DEF SInv
<1>2. call' = [call EXCEPT ![c] = r] /\ UNCHANGED <<nt, host>> BY DEF Decide, Ended, Same
<1>3. q.pc = "looked" BY DEF Decide, Ended, At
<1>4. r \in CallType BY <1>1, <1>3 DEF CallType, Places
<1> HIDE DEF q
<1>5. Typed(r) BY <1>1, <1>3, <1>4 DEF CallType, Sound, Typed
<1>6. Staged(r) BY <1>1, <1>3 DEF CallType, Sound, Staged, Quiet, Unstarted
<1>7. Jobbed(r) BY <1>1, <1>3 DEF CallType, Sound, Jobbed, Staged
<1>8. Heard(r) BY <1>1, <1>3 DEF CallType, Sound, Heard, Staged, Quiet, Unstarted
<1>9. Sound(r) BY <1>5, <1>6, <1>7, <1>8 DEF Sound
<1> HIDE DEF r
<1> QED BY <1>2, <1>4, <1>9, OthersKeep

\* An answer needs two readers that saw the end.
LEMMA CheckSound ==
    ASSUME SInv, NEW c \in Calls, Check(c)
    PROVE  Kept
PROOF
<1> DEFINE q == call[c]
           r == [q EXCEPT !.pc = "kill", !.out = IF Damaged(c) \/ q.code # 0 THEN "error" ELSE "ok"]
<1>1. q \in CallType /\ Sound(q) BY DEF SInv
<1>2. call' = [call EXCEPT ![c] = r] /\ UNCHANGED <<nt, host>> BY DEF Check, Damaged, Same
<1>3. q.pc = "check" /\ (Damaged(c) <=> \E s \in Streams : q.reader[s] \in {"full", "failed"})
    BY DEF Check, Damaged, At
<1>4. r \in CallType BY <1>1, <1>3 DEF CallType, Places
<1> HIDE DEF q
<1>5. Typed(r) BY <1>1, <1>3, <1>4 DEF CallType, Sound, Typed
<1>6. Staged(r) BY <1>1, <1>3 DEF CallType, Sound, Staged, Quiet, Unstarted
<1>7. Jobbed(r) BY <1>1, <1>3 DEF CallType, Sound, Jobbed, Staged
<1>8. Heard(r) BY <1>1, <1>3 DEF CallType, Sound, Heard, Staged, Quiet, Unstarted
<1>9. Sound(r) BY <1>5, <1>6, <1>7, <1>8 DEF Sound
<1> HIDE DEF r
<1> QED BY <1>2, <1>4, <1>9, OthersKeep

\* Nothing of the worker is left.
LEMMA KillSound ==
    ASSUME SInv, NEW c \in Calls, Kill(c)
    PROVE  Kept
PROOF
<1> DEFINE q == call[c]
           r == [q EXCEPT !.pc = "join", !.leader = "gone", !.kids = FALSE]
<1>1. q \in CallType /\ Sound(q) BY DEF SInv
<1>2. call' = [call EXCEPT ![c] = r] /\ UNCHANGED <<nt, host>> BY DEF Kill, Same
<1>3. q.pc = "kill" BY DEF Kill, At
<1>4. r \in CallType BY <1>1, <1>3 DEF CallType, Places
<1> HIDE DEF q
<1>5. Typed(r) BY <1>1, <1>3, <1>4 DEF CallType, Sound, Typed
<1>6. Staged(r) BY <1>1, <1>3 DEF CallType, Sound, Staged, Quiet, Unstarted
<1>7. Jobbed(r) BY <1>1, <1>3 DEF CallType, Sound, Jobbed, Staged
<1>8. Heard(r) BY <1>1, <1>3 DEF CallType, Sound, Heard, Staged, Quiet, Unstarted
<1>9. Sound(r) BY <1>5, <1>6, <1>7, <1>8 DEF Sound
<1> HIDE DEF r
<1> QED BY <1>2, <1>4, <1>9, OthersKeep

\* The readers are joined.
LEMMA JoinSound ==
    ASSUME SInv, NEW c \in Calls, Join(c)
    PROVE  Kept
PROOF
<1> DEFINE q == call[c]
           r == [q EXCEPT !.pc = "release"]
<1>1. q \in CallType /\ Sound(q) BY DEF SInv
<1>2. call' = [call EXCEPT ![c] = r] /\ UNCHANGED <<nt, host>> BY DEF Join, Goto, Same
<1>3. q.pc = "join" BY DEF Join, Goto, At
<1>4. r \in CallType BY <1>1, <1>3 DEF CallType, Places
<1> HIDE DEF q
<1>5. Typed(r) BY <1>1, <1>3, <1>4 DEF CallType, Sound, Typed
<1>6. Staged(r) BY <1>1, <1>3 DEF CallType, Sound, Staged, Quiet, Unstarted
<1>7. Jobbed(r) BY <1>1, <1>3 DEF CallType, Sound, Jobbed, Staged
<1>8. Heard(r) BY <1>1, <1>3 DEF CallType, Sound, Heard, Staged, Quiet, Unstarted
<1>9. Sound(r) BY <1>5, <1>6, <1>7, <1>8 DEF Sound
<1> HIDE DEF r
<1> QED BY <1>2, <1>4, <1>9, OthersKeep

\* The slot is given back after the kill.
LEMMA ReleaseSound ==
    ASSUME SInv, NEW c \in Calls, Release(c)
    PROVE  Kept
PROOF
<1> DEFINE q == call[c]
           r == [Idle EXCEPT !.pc = "done", !.out = q.out,
                           !.leader = q.leader, !.kids = q.kids]
<1>1. q \in CallType /\ Sound(q) BY DEF SInv
<1>2. call' = [call EXCEPT ![c] = r] /\ UNCHANGED <<nt, host>> BY DEF Release, Same
<1>3. host /\ q.pc = "release" BY DEF Release, At
<1>4. r \in CallType BY <1>1, <1>3 DEF CallType, Places, Idle, Streams
<1> HIDE DEF q
<1>5. Typed(r)
  BY <1>1, <1>3, <1>4, SupervisionAssumption DEF CallType, Sound, Typed, Idle, Streams
<1>6. Staged(r) BY <1>1, <1>3 DEF CallType, Sound, Staged, Quiet, Unstarted, Idle, Streams
<1>7. Jobbed(r) BY <1>1, <1>3 DEF CallType, Sound, Jobbed, Staged, Idle, Quiet
<1>8. Heard(r)
  BY <1>1, <1>3 DEF CallType, Sound, Heard, Staged, Quiet, Unstarted, Idle, Streams
<1>9. Sound(r) BY <1>5, <1>6, <1>7, <1>8 DEF Sound
<1> HIDE DEF r
<1> QED BY <1>2, <1>4, <1>9, OthersKeep

\* The call is over.
LEMMA ReturnSound ==
    ASSUME SInv, NEW c \in Calls, Return(c)
    PROVE  Kept
PROOF
<1> DEFINE q == call[c]
           r == Idle
<1>1. q \in CallType /\ Sound(q) BY DEF SInv
<1>2. call' = [call EXCEPT ![c] = r] /\ UNCHANGED <<nt, host>> BY DEF Return, Same
<1>3. host /\ q.pc = "done" BY DEF Return, At
<1>4. r \in CallType BY <1>1, <1>3 DEF CallType, Places, Idle, Streams
<1> HIDE DEF q
<1>5. Typed(r)
  BY <1>1, <1>3, <1>4, SupervisionAssumption DEF CallType, Sound, Typed, Idle, Streams
<1>6. Staged(r) BY <1>1, <1>3 DEF CallType, Sound, Staged, Quiet, Unstarted, Idle, Streams
<1>7. Jobbed(r) BY <1>1, <1>3 DEF CallType, Sound, Jobbed, Staged, Idle
<1>8. Heard(r)
  BY <1>1, <1>3 DEF CallType, Sound, Heard, Staged, Quiet, Unstarted, Idle, Streams
<1>9. Sound(r) BY <1>5, <1>6, <1>7, <1>8 DEF Sound
<1> HIDE DEF r
<1> QED BY <1>2, <1>4, <1>9, OthersKeep

\* A chunk that does not fit is cut at the limit and ends its reader.
LEMMA DrainSound ==
    ASSUME SInv, NEW c \in Calls, NEW s \in Streams, Drain(c, s)
    PROVE  Kept
PROOF
<1> DEFINE q == call[c]
<1>0. PICK n \in (q.got[s] + 1)..q.wrote[s] :
        call' = [call EXCEPT ![c] =
                    [@ EXCEPT !.got[s] = IF n > Cap[s] THEN Cap[s] ELSE n,
                              !.reader[s] = IF n > Cap[s] THEN "full" ELSE "on"]]
    BY DEF Drain
<1> DEFINE m == IF n > Cap[s] THEN Cap[s] ELSE n
           e == IF n > Cap[s] THEN "full" ELSE "on"
           r == [q EXCEPT !.got[s] = m, !.reader[s] = e]
<1>1. q \in CallType /\ Sound(q) BY DEF SInv
<1>2. call' = [call EXCEPT ![c] = r] /\ UNCHANGED <<nt, host>> BY <1>0 DEF Drain, Same
<1>3. q.reader[s] = "on" BY DEF Drain
<1>10. q.got[s] \in Nat /\ q.wrote[s] \in Nat /\ Cap[s] \in Nat
    BY <1>1, SupervisionAssumption DEF CallType, Streams
<1> HIDE DEF q
<1>11. m \in Nat /\ m <= Cap[s] /\ e \in {"on", "full"} BY <1>10
<1> HIDE DEF m, e
<1>4. r \in CallType BY <1>1, <1>11 DEF CallType
<1>5. Typed(r) BY <1>1, <1>4, <1>11 DEF CallType, Sound, Typed
<1>6. Staged(r) BY <1>1, <1>3 DEF CallType, Sound, Staged, Quiet, Unstarted
<1>7. Jobbed(r) BY <1>1, <1>3 DEF CallType, Sound, Jobbed, Staged
<1>8. Heard(r) BY <1>1, <1>3, <1>11 DEF CallType, Sound, Heard, Staged, Quiet, Unstarted
<1>9. Sound(r) BY <1>5, <1>6, <1>7, <1>8 DEF Sound
<1> HIDE DEF r
<1> QED BY <1>2, <1>4, <1>9, OthersKeep

\* The leader ends: nobody has taken its answer yet.
LEMMA LeaderExitsSound ==
    ASSUME SInv, NEW c \in Calls, NEW code \in {0, 1},
           host, call[c].leader \in {"gate", "work"}, Same,
           call' = [call EXCEPT ![c].leader = "gone", ![c].code = code]
    PROVE  Kept
PROOF
<1> DEFINE q == call[c]
           r == [q EXCEPT !.leader = "gone", !.code = code]
<1>1. q \in CallType /\ Sound(q) BY DEF SInv
<1>2. call' = [call EXCEPT ![c] = r] /\ UNCHANGED <<nt, host>> BY DEF Same
<1>3. host /\ q.leader \in {"gate", "work"} OBVIOUS
<1>4. r \in CallType BY <1>1, <1>3 DEF CallType, Places
<1> HIDE DEF q
<1>5. Typed(r) BY <1>1, <1>3, <1>4 DEF CallType, Sound, Typed
<1>6. Staged(r) BY <1>1, <1>3 DEF CallType, Sound, Staged, Quiet, Unstarted
<1>7. Jobbed(r) BY <1>1, <1>3 DEF CallType, Sound, Jobbed, Staged
<1>8. Heard(r) BY <1>1, <1>3 DEF CallType, Sound, Heard, Staged, Quiet, Unstarted, Streams
<1>9. Sound(r) BY <1>5, <1>6, <1>7, <1>8 DEF Sound
<1> HIDE DEF r
<1> QED BY <1>2, <1>4, <1>9, OthersKeep

\* The descendants end.
LEMMA KidsExitSound ==
    ASSUME SInv, NEW c \in Calls, host, call[c].kids, Same,
           call' = [call EXCEPT ![c].kids = FALSE]
    PROVE  Kept
PROOF
<1> DEFINE q == call[c]
           r == [q EXCEPT !.kids = FALSE]
<1>1. q \in CallType /\ Sound(q) BY DEF SInv
<1>2. call' = [call EXCEPT ![c] = r] /\ UNCHANGED <<nt, host>> BY DEF Same
<1>3. host /\ q.kids OBVIOUS
<1>4. r \in CallType BY <1>1, <1>3 DEF CallType, Places
<1> HIDE DEF q
<1>5. Typed(r) BY <1>1, <1>3, <1>4 DEF CallType, Sound, Typed
<1>6. Staged(r) BY <1>1, <1>3 DEF CallType, Sound, Staged, Quiet, Unstarted
<1>7. Jobbed(r) BY <1>1, <1>3 DEF CallType, Sound, Jobbed, Staged
<1>8. Heard(r) BY <1>1, <1>3 DEF CallType, Sound, Heard, Staged, Quiet, Unstarted, Streams
<1>9. Sound(r) BY <1>5, <1>6, <1>7, <1>8 DEF Sound
<1> HIDE DEF r
<1> QED BY <1>2, <1>4, <1>9, OthersKeep

\* The first half of a turn finds a reason to end the worker.
LEMMA ComplainSound ==
    ASSUME SInv, NEW c \in Calls, At(c, "watch"), Same,
           call' = [call EXCEPT ![c].pc = "kill", ![c].out = "error"]
    PROVE  Kept
PROOF
<1> DEFINE q == call[c]
           r == [q EXCEPT !.pc = "kill", !.out = "error"]
<1>1. q \in CallType /\ Sound(q) BY DEF SInv
<1>2. call' = [call EXCEPT ![c] = r] /\ UNCHANGED <<nt, host>> BY DEF Same
<1>3. host /\ q.pc = "watch" BY DEF At
<1>4. r \in CallType BY <1>1, <1>3 DEF CallType, Places
<1> HIDE DEF q
<1>5. Typed(r) BY <1>1, <1>3, <1>4 DEF CallType, Sound, Typed
<1>6. Staged(r) BY <1>1, <1>3 DEF CallType, Sound, Staged, Quiet, Unstarted
<1>7. Jobbed(r) BY <1>1, <1>3 DEF CallType, Sound, Jobbed, Staged
<1>8. Heard(r) BY <1>1, <1>3 DEF CallType, Sound, Heard, Staged, Quiet, Unstarted
<1>9. Sound(r) BY <1>5, <1>6, <1>7, <1>8 DEF Sound
<1> HIDE DEF r
<1> QED BY <1>2, <1>4, <1>9, OthersKeep

\* The first half of a turn finds none.
LEMMA OnwardsSound ==
    ASSUME SInv, NEW c \in Calls, At(c, "watch"), Same,
           Goto(c, "looked")
    PROVE  Kept
PROOF
<1> DEFINE q == call[c]
           r == [q EXCEPT !.pc = "looked"]
<1>1. q \in CallType /\ Sound(q) BY DEF SInv
<1>2. call' = [call EXCEPT ![c] = r] /\ UNCHANGED <<nt, host>> BY DEF Goto, Same
<1>3. host /\ q.pc = "watch" BY DEF At
<1>4. r \in CallType BY <1>1, <1>3 DEF CallType, Places
<1> HIDE DEF q
<1>5. Typed(r) BY <1>1, <1>3, <1>4 DEF CallType, Sound, Typed
<1>6. Staged(r) BY <1>1, <1>3 DEF CallType, Sound, Staged, Quiet, Unstarted
<1>7. Jobbed(r) BY <1>1, <1>3 DEF CallType, Sound, Jobbed, Staged
<1>8. Heard(r) BY <1>1, <1>3 DEF CallType, Sound, Heard, Staged, Quiet, Unstarted
<1>9. Sound(r) BY <1>5, <1>6, <1>7, <1>8 DEF Sound
<1> HIDE DEF r
<1> QED BY <1>2, <1>4, <1>9, OthersKeep

-----------------------------------------------------------------------------

\* What is left of a call when its server has died.
LEMMA Orphaned ==
    ASSUME host' = FALSE, nt' = nt, NEW d \in Calls, NEW r \in CallType, call'[d] = r,
           Typed(r), Jobbed(r), Heard(r),
           Unstarted(r) => \A s \in Streams : r.reader[s] = "none"
    PROVE  Sound(call[d])'
PROOF BY DEF Sound, Typed, Staged, Jobbed, Heard, Unstarted, Quiet

\* The death of the server keeps the invariant of every call.
LEMMA HostDiesSound ==
    ASSUME SInv, HostDies
    PROVE  Kept
PROOF
<1>0. ASSUME NEW d \in Calls
      PROVE  call'[d] \in CallType /\ Sound(call[d])'
  <2> DEFINE q == call[d]
  <2>1. q \in CallType /\ Sound(q) /\ host' = FALSE /\ nt' = nt BY DEF SInv, HostDies
  <2>2. CASE nt /\ call[d].job /\ Alive(d)
    <3> DEFINE r == [q EXCEPT !.leader = "gone", !.kids = FALSE]
    <3>1. call'[d] = r BY <2>2 DEF HostDies
    <3> HIDE DEF q
    <3>2. r \in CallType BY <2>1 DEF CallType
    <3>3. Typed(r) BY <2>1, <3>2 DEF Sound, Typed, CallType
    <3>4. Unstarted(r) => \A s \in Streams : r.reader[s] = "none"
      BY <2>1 DEF Sound, Staged, CallType, Unstarted
    <3>5. Jobbed(r) BY <2>1, <2>2 DEF Sound, Jobbed, CallType
    <3>6. Heard(r) BY <2>1 DEF Sound, Heard, CallType, Quiet
    <3> HIDE DEF r
    <3> QED BY <3>1, <3>2, <3>3, <3>4, <3>5, <3>6, <2>1, Orphaned
  <2>3. CASE ~(nt /\ call[d].job /\ Alive(d)) /\ call[d].gate = "shut"
    <3> DEFINE r == [q EXCEPT !.gate = "eof"]
    <3>1. call'[d] = r BY <2>3 DEF HostDies
    <3> HIDE DEF q
    <3>2. r \in CallType BY <2>1 DEF CallType
    <3>3. Typed(r) BY <2>1, <3>2 DEF Sound, Typed, CallType
    <3>4. Unstarted(r) => \A s \in Streams : r.reader[s] = "none"
      BY <2>1 DEF Sound, Staged, CallType, Unstarted
    <3>5. Jobbed(r) BY <2>1 DEF Sound, Jobbed, CallType
    <3>6. Heard(r) BY <2>1 DEF Sound, Heard, CallType, Quiet
    <3> HIDE DEF r
    <3> QED BY <3>1, <3>2, <3>3, <3>4, <3>5, <3>6, <2>1, Orphaned
  <2>4. CASE ~(nt /\ call[d].job /\ Alive(d)) /\ call[d].gate # "shut"
    <3>1. call'[d] = q BY <2>4 DEF HostDies
    <3>2. Unstarted(q) => \A s \in Streams : q.reader[s] = "none" BY <2>1 DEF Sound, Staged
    <3> QED BY <2>1, <3>1, <3>2, Orphaned DEF Sound
  <2> QED BY <2>2, <2>3, <2>4
<1>1. call' = [d \in Calls |-> call'[d]] BY DEF HostDies
<1> QED BY <1>0, <1>1 DEF Kept

-----------------------------------------------------------------------------

\* A step within the places with a slot, or without, moves no slot.
LEMMA HeldSame ==
    ASSUME call \in [Calls -> CallType], call' \in [Calls -> CallType], free' = free,
           NEW c \in Calls, \A d \in Calls \ {c} : call'[d] = call[d],
           \/ call'[c].pc = call[c].pc
           \/ {call[c].pc, call'[c].pc} \subseteq {"idle", "queue", "done"}
           \/ {call[c].pc, call'[c].pc} \cap {"idle", "queue", "done"} = {}
    PROVE  Held' = Held
PROOF BY DEF Held, Holding

\* Only TakeSlot and Release take a call from one kind of place to the other.
LEMMA PlacesKept ==
    ASSUME SInv, NEW c \in Calls,
           \/ Call(c) \/ GiveUp(c) \/ StartGroup(c) \/ StartFails(c) \/ StartGated(c)
           \/ Assign(c) \/ Open(c) \/ Abandon(c) \/ Look(c) \/ Decide(c) \/ Check(c)
           \/ Kill(c) \/ Join(c) \/ Return(c) \/ Enter(c) \/ EofLeaves(c) \/ Deadline(c)
           \/ Readers(c) \/ Worker(c)
    PROVE  /\ free' = free /\ \A d \in Calls \ {c} : call'[d] = call[d]
           /\ \/ call'[c].pc = call[c].pc
              \/ {call[c].pc, call'[c].pc} \subseteq {"idle", "queue", "done"}
              \/ {call[c].pc, call'[c].pc} \cap {"idle", "queue", "done"} = {}
PROOF
<1>1. CASE Call(c) BY <1>1 DEF Call, At, Goto, Same, SInv, CallType
<1>2. CASE GiveUp(c) BY <1>2 DEF GiveUp, At, Same, SInv, CallType
<1>3. CASE StartGroup(c) BY <1>3 DEF StartGroup, At, Same, SInv, CallType
<1>4. CASE StartFails(c) BY <1>4 DEF StartFails, At, Same, SInv, CallType
<1>5. CASE StartGated(c) BY <1>5 DEF StartGated, At, Same, SInv, CallType
<1>6. CASE Assign(c) BY <1>6 DEF Assign, At, Same, SInv, CallType
<1>7. CASE Open(c) BY <1>7 DEF Open, At, Same, SInv, CallType
<1>8. CASE Abandon(c) BY <1>8 DEF Abandon, At, Same, SInv, CallType
<1>9. CASE Look(c) BY <1>9 DEF Look, At, Goto, Same, SInv, CallType
<1>10. CASE Decide(c) BY <1>10 DEF Decide, At, Same, SInv, CallType
<1>11. CASE Check(c) BY <1>11 DEF Check, At, Same, SInv, CallType
<1>12. CASE Kill(c) BY <1>12 DEF Kill, At, Same, SInv, CallType
<1>13. CASE Join(c) BY <1>13 DEF Join, At, Goto, Same, SInv, CallType
<1>14. CASE Return(c) BY <1>14 DEF Return, At, Idle, Same, SInv, CallType
<1>15. CASE Enter(c) BY <1>15 DEF Enter, At, Same, SInv, CallType
<1>16. CASE EofLeaves(c) BY <1>16 DEF EofLeaves, At, Same, SInv, CallType
<1>17. CASE Deadline(c) BY <1>17 DEF Deadline, At, Same, SInv, CallType
<1>18. CASE Fork(c) BY <1>18 DEF Fork, At, Same, SInv, CallType
<1>19. CASE \E s \in Streams : Write(c, s) BY <1>19 DEF Write, Same, SInv, CallType
<1>20. CASE \E s \in Streams : Drain(c, s) BY <1>20 DEF Drain, Same, SInv, CallType
<1>21. CASE \E s \in Streams : Eof(c, s) BY <1>21 DEF Eof, Same, SInv, CallType
<1>22. CASE \E s \in Streams : ReadFails(c, s) BY <1>22 DEF ReadFails, Same, SInv, CallType
<1>23. CASE Exit(c)
  <2>1. CASE call[c].leader = "work" /\ (\E code \in {0, 1} :
                call' = [call EXCEPT ![c].leader = "gone", ![c].code = code])
    BY <1>23, <2>1 DEF Exit, Same, SInv, CallType
  <2>2. CASE call' = [call EXCEPT ![c].leader = "gone", ![c].code = 1]
    BY <1>23, <2>2 DEF Exit, Same, SInv, CallType
  <2>3. CASE call' = [call EXCEPT ![c].kids = FALSE]
    BY <1>23, <2>3 DEF Exit, Same, SInv, CallType
  <2> QED BY <1>23, <2>1, <2>2, <2>3 DEF Exit
<1> QED
  BY <1>1, <1>2, <1>3, <1>4, <1>5, <1>6, <1>7, <1>8, <1>9, <1>10, <1>11, <1>12, <1>13,
     <1>14, <1>15, <1>16, <1>17, <1>18, <1>19, <1>20, <1>21, <1>22, <1>23 DEF Readers,
     Worker

-----------------------------------------------------------------------------

\* Every step keeps the invariant of the calls.
LEMMA SInvStep ==
    ASSUME SInv, [Next]_vars
    PROVE  SInv'
PROOF
<1>1. CASE HostDies BY <1>1, HostDiesSound DEF SInv, Kept, HostDies
<1>2. CASE UNCHANGED vars
  BY <1>2 DEF vars, SInv, Sound, Typed, Staged, Jobbed, Heard, Unstarted, Quiet
<1>3. ASSUME NEW c \in Calls, Call(c) \/ Host(c) \/ Deadline(c) \/ Readers(c)
                                \/ Worker(c) \/ Enter(c) \/ EofLeaves(c)
      PROVE  SInv'
  <2>1. CASE Call(c) BY <1>3, <2>1, CallSound DEF SInv, Kept, Call, Same
  <2>2. CASE TakeSlot(c) BY <2>2, <1>3, TakeSlotSound DEF SInv, Kept, TakeSlot, Same
  <2>3. CASE GiveUp(c) BY <2>3, <1>3, GiveUpSound DEF SInv, Kept, GiveUp, Same
  <2>4. CASE StartGroup(c) BY <2>4, <1>3, StartGroupSound DEF SInv, Kept, StartGroup, Same
  <2>5. CASE StartFails(c) BY <2>5, <1>3, StartFailsSound DEF SInv, Kept, StartFails, Same
  <2>6. CASE StartGated(c) BY <2>6, <1>3, StartGatedSound DEF SInv, Kept, StartGated, Same
  <2>7. CASE Assign(c) BY <2>7, <1>3, AssignSound DEF SInv, Kept, Assign, Same
  <2>8. CASE Open(c) BY <2>8, <1>3, OpenSound DEF SInv, Kept, Open, Same
  <2>9. CASE Abandon(c) BY <2>9, <1>3, AbandonSound DEF SInv, Kept, Abandon, Same
  <2>10. CASE Decide(c) BY <2>10, <1>3, DecideSound DEF SInv, Kept, Decide, Same
  <2>11. CASE Check(c) BY <2>11, <1>3, CheckSound DEF SInv, Kept, Check, Same
  <2>12. CASE Kill(c) BY <2>12, <1>3, KillSound DEF SInv, Kept, Kill, Same
  <2>13. CASE Join(c) BY <2>13, <1>3, JoinSound DEF SInv, Kept, Join, Same
  <2>14. CASE Release(c) BY <2>14, <1>3, ReleaseSound DEF SInv, Kept, Release, Same
  <2>15. CASE Return(c) BY <2>15, <1>3, ReturnSound DEF SInv, Kept, Return, Same
  <2>16. CASE Enter(c) BY <2>16, <1>3, EnterSound DEF SInv, Kept, Enter, Same
  <2>17. CASE EofLeaves(c) BY <2>17, <1>3, EofLeavesSound DEF SInv, Kept, EofLeaves, Same
  <2>18. CASE Deadline(c) BY <2>18, <1>3, DeadlineSound DEF SInv, Kept, Deadline, Same
  <2>19. CASE Fork(c) BY <2>19, <1>3, ForkSound DEF SInv, Kept, Fork, Same
  <2>20. CASE \E s \in Streams : Write(c, s)
    BY <2>20, <1>3, WriteSound DEF SInv, Kept, Write, Same
  <2>21. CASE \E s \in Streams : Drain(c, s)
    BY <2>21, <1>3, DrainSound DEF SInv, Kept, Drain, Same
  <2>22. CASE \E s \in Streams : Eof(c, s)
    BY <2>22, <1>3, EofSound DEF SInv, Kept, Eof, Same
  <2>23. CASE \E s \in Streams : ReadFails(c, s)
    BY <2>23, <1>3, ReadFailsSound DEF SInv, Kept, ReadFails, Same
  <2>24. CASE Look(c)
    BY <2>24, <1>3, ComplainSound, OnwardsSound DEF SInv, Kept, Look, Same
  <2>25. CASE Exit(c)
    BY <2>25, <1>3, LeaderExitsSound, KidsExitSound DEF SInv, Kept, Exit, Same
  <2> QED
    BY <1>3, <2>1, <2>2, <2>3, <2>4, <2>5, <2>6, <2>7, <2>8, <2>9, <2>10, <2>11, <2>12,
       <2>13, <2>14, <2>15, <2>16, <2>17, <2>18, <2>19, <2>20, <2>21, <2>22, <2>23, <2>24,
       <2>25 DEF Host, Readers, Worker
<1> QED BY <1>1, <1>2, <1>3 DEF Next
\* It holds at the start.
LEMMA SInvInit ==
    ASSUME Init PROVE SInv /\ Counted
PROOF
<1>1. Idle \in CallType BY DEF Idle, CallType, Places, Streams
<1>2. Sound(Idle)
  <2>1. Typed(Idle) BY <1>1, SupervisionAssumption DEF Typed, Idle, Streams
  <2> QED BY <2>1 DEF Sound, Staged, Jobbed, Heard, Unstarted, Quiet, Idle, Streams
<1>3. call \in [Calls -> CallType] /\ \A c \in Calls : call[c] = Idle BY <1>1 DEF Init
<1>4. SInv BY <1>2, <1>3 DEF Init, SInv
<1>5. Held = {} BY <1>3 DEF Held, Holding, Idle
<1>6. Counted BY <1>5, FS_EmptySet, SupervisionAssumption DEF Counted, Init
<1> QED BY <1>4, <1>6

\* Every step keeps the count of slots.
LEMMA CountedStep ==
    ASSUME SInv, SInv', Counted, [Next]_vars
    PROVE  Counted'
PROOF
<1>0. IsFiniteSet(Held) /\ Cardinality(Held) \in Nat
  BY SupervisionAssumption, FS_Subset, FS_CardinalityType DEF Held
<1>1. CASE HostDies
  <2>1. ASSUME NEW d \in Calls PROVE call'[d].pc = call[d].pc
    <3>0. call[d] \in CallType BY DEF SInv
    <3>1. \/ call'[d] = [call[d] EXCEPT !.leader = "gone", !.kids = FALSE]
          \/ call'[d] = [call[d] EXCEPT !.gate = "eof"]
          \/ call'[d] = call[d]
      BY <1>1 DEF HostDies
    <3> QED BY <3>0, <3>1 DEF CallType
  <2>2. Held' = Held BY <2>1 DEF Held, Holding
  <2> QED BY <1>1, <2>2 DEF HostDies, Counted
<1>2. CASE UNCHANGED vars BY <1>2 DEF vars, Counted, Held, Holding
<1>3. ASSUME NEW c \in Calls, TakeSlot(c) PROVE Counted'
  <2>1. /\ free > 0 /\ free' = free - 1 /\ call[c].pc = "queue" /\ call'[c].pc = "start"
        /\ \A d \in Calls \ {c} : call'[d] = call[d]
    BY <1>3 DEF TakeSlot, At, Goto, SInv, CallType
  <2>2. c \notin Held /\ Held' = Held \cup {c} BY <2>1 DEF Held, Holding
  <2>3. Cardinality(Held') = Cardinality(Held) + 1 BY <1>0, <2>2, FS_AddElement
  <2> QED BY <1>0, <2>1, <2>3 DEF Counted
<1>4. ASSUME NEW c \in Calls, Release(c) PROVE Counted'
  <2>1. /\ free' = free + 1 /\ call[c].pc = "release" /\ call'[c].pc = "done"
        /\ \A d \in Calls \ {c} : call'[d] = call[d]
    BY <1>4 DEF Release, At, Idle, SInv, CallType
  <2>2. c \in Held /\ Held' = Held \ {c} BY <2>1 DEF Held, Holding
  <2>3. Cardinality(Held') = Cardinality(Held) - 1 BY <1>0, <2>2, FS_RemoveElement
  <2> QED BY <1>0, <2>1, <2>3 DEF Counted
<1>5. ASSUME NEW c \in Calls, ~TakeSlot(c), ~Release(c),
             \/ Call(c) \/ Host(c) \/ Deadline(c) \/ Readers(c)
             \/ Worker(c) \/ Enter(c) \/ EofLeaves(c)
      PROVE  Counted'
  <2>1. free' = free /\ Held' = Held BY <1>5, PlacesKept, HeldSame DEF Host, SInv
  <2> QED BY <2>1 DEF Counted
<1> QED BY <1>1, <1>2, <1>3, <1>4, <1>5 DEF Next

\* So both hold in every state.
LEMMA SupervisionInductive == Spec => [](SInv /\ Counted)
PROOF
<1>1. Init => SInv /\ Counted BY SInvInit
<1>2. SInv /\ Counted /\ [Next]_vars => (SInv /\ Counted)' BY SInvStep, CountedStep
<1> QED BY <1>1, <1>2, PTL DEF Spec

-----------------------------------------------------------------------------

\* Every variable has its type, the semaphore stays between nothing and
\* max_parallel, and no buffer outgrows its limit (drain of runner._execute).
THEOREM SupervisionTypeOK == Spec => []TypeOK
PROOF
<1>1. SInv /\ Counted => TypeOK
  <2> SUFFICES ASSUME SInv, Counted PROVE TypeOK OBVIOUS
  <2>1. Cardinality(Held) \in Nat
    BY SupervisionAssumption, FS_Subset, FS_CardinalityType DEF Held
  <2>2. free \in 0..Slots BY <2>1, SupervisionAssumption DEF Counted
  <2> QED BY <2>2 DEF SInv, TypeOK, Sound, Typed
<1> QED BY <1>1, SupervisionInductive, PTL

\* What _execute answers is all that the worker and its descendants have
\* written: a reader's complaint between the loop's two halves is not lost.
THEOREM SupervisionAnswersComplete == Spec => []AnswersComplete
PROOF
<1>1. SInv => AnswersComplete BY DEF SInv, Sound, Heard, AnswersComplete
<1> QED BY <1>1, SupervisionInductive, PTL

\* A slot is free again only after the worker's processes are gone, on every
\* path out of _execute.
THEOREM SupervisionNothingSurvives == Spec => []NothingSurvives
PROOF
<1>1. SInv => NothingSurvives BY DEF SInv, Sound, Staged, Quiet, NothingSurvives, Alive
<1> QED BY <1>1, SupervisionInductive, PTL

\* On Windows the workload and its descendants are members of the job whose
\* last handle the server holds (windows_job.py, worker_bootstrap.py).
THEOREM SupervisionWorkInJob == Spec => []WorkInJob
PROOF
<1>1. SInv => WorkInJob BY DEF SInv, Sound, Jobbed, WorkInJob, Works
<1> QED BY <1>1, SupervisionInductive, PTL

\* max_parallel bounds the trees of processes themselves, not only the calls.
THEOREM SupervisionTreesWithinSlots == Spec => []TreesWithinSlots
PROOF
<1>1. SInv /\ Counted => TreesWithinSlots
  <2> SUFFICES ASSUME SInv, Counted, host PROVE Cardinality({c \in Calls : Alive(c)}) <= Slots
    BY DEF TreesWithinSlots
  <2>1. IsFiniteSet(Held) BY SupervisionAssumption, FS_Subset DEF Held
  <2>2. {c \in Calls : Alive(c)} \subseteq Held
    BY DEF SInv, Sound, Staged, Quiet, Alive, Held, Holding
  <2>3. Cardinality({c \in Calls : Alive(c)}) <= Cardinality(Held) BY <2>1, <2>2, FS_Subset
  <2> QED
    BY <2>1, <2>2, <2>3, FS_Subset, FS_CardinalityType, SupervisionAssumption DEF Counted
<1> QED BY <1>1, SupervisionInductive, PTL
=============================================================================
