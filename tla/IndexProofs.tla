---------------------------- MODULE IndexProofs ----------------------------
(***************************************************************************)
(* IndexCache proved for any set of workers, sessions and inputs, any      *)
(* sizes and any limits, as long as the package is not upgraded under a    *)
(* running query (LiveUpgrade = FALSE).                                    *)
(*                                                                         *)
(* What a session's file holds depends on what its worker carries to it,   *)
(* so the invariant says of every worker what it asks for (Asks), what it  *)
(* relies on in the session's files (Finds) and what the file lock gives   *)
(* it (Locks).  A worker's claim about a file survives the others because  *)
(* whoever replaces that file asks for the same identity, and only an      *)
(* operation under the session's index_lock removes one (Exclusive).  A    *)
(* worker that is killed at any place leaves claims to nobody.             *)
(***************************************************************************)
EXTENDS IndexCache, DataProofs, FiniteSetTheorems, TLAPS

\* A worker's record.
WorkerType ==
    [pc : Places, session : Sessions \cup {None}, op : Ops \cup {None},
     id : Identity \cup {None}, reused : BOOLEAN, copy : Content, reads : Content]

\* The types.
Typed ==
    /\ engine \in 0..MaxEngine
    /\ dir \in [Identity -> Entry \cup {None}]
    /\ newer \in [Identity -> SUBSET Identity]
    /\ pending \in Identity \cup {None}
    /\ lock \in Workers \cup {None}
    /\ file \in [Sessions -> [Scopes -> Content]]
    /\ worker \in [Workers -> WorkerType]

\* q, the record of w, and the directory: who is in a critical section holds
\* cache.lock, "pending" is its own, and the entry it copies stays.
Locks(w, q, holder, written, entries) ==
    /\ q.pc \in Locked <=> holder = w
    /\ q.pc \in {"fill", "swap"} => written = q.id
    /\ q.pc \in {"copy", "replace", "touch"} => entries[q.id] # None

\* The identity a query asks for, and what it carries: never anything else.
Asks(q, version) ==
    /\ q.pc # "idle" =>
        /\ q.session \in Sessions /\ q.op \in Ops /\ q.id \in Identity
        /\ q.id.input = InputOf[q.session] /\ q.id.engine = version
        /\ q.id.scope = "calls" => q.op \in IndexOps
    /\ q.pc \in {"clean", "build", "built", "publish", "fill", "swap"} => q.op \in IndexOps
    /\ q.pc \in {"replace", "built", "swap"} => q.copy = q.id
    /\ q.pc = "read" => q.reads = q.id

\* What a query relies on in its session's files.
Finds(q, files) ==
    LET target == files[q.session][q.id.scope] IN
    /\ q.pc \in {"touch", "publish", "fill", "swap"} => target = q.id
    /\ q.pc = "open" => target # None /\ (~q.reused => target = q.id)

\* index_lock: one operation of a session builds at a time.
Exclusive ==
    \A v, w \in Workers :
        /\ worker[v].pc # "idle" /\ worker[v].op \in IndexOps
        /\ worker[w].pc # "idle" /\ worker[w].op \in IndexOps
        /\ worker[v].session = worker[w].session
        => v = w

\* The file of scope c is replaced by what the worker with record q asks for.
Installs(q, s, c) ==
    /\ q.pc # "idle" /\ q.session = s /\ q.id.scope = c
    /\ file'[s][c] = q.id

\* It is removed, by an operation under index_lock; only calls.sqlite is.
Cleans(q, s, c) ==
    /\ q.pc # "idle" /\ q.session = s /\ q.op \in IndexOps
    /\ c = "calls" /\ file'[s][c] = None

\* What a step of w does to the files.
Filed(w) ==
    \A s \in Sessions, c \in Scopes :
        file'[s][c] = file[s][c] \/ Installs(worker[w], s, c)
        \/ Cleans(worker[w], s, c)

\* The inductive invariant.
IInv ==
    /\ Typed
    /\ \A w \in Workers : /\ Locks(w, worker[w], lock, pending, dir)
                        /\ Asks(worker[w], engine) /\ Finds(worker[w], file)
    /\ Exclusive
    /\ WholeIndexes

-----------------------------------------------------------------------------

\* The fields of a worker's record.
LEMMA Records ==
    ASSUME NEW w \in Workers, Typed
    PROVE  /\ worker[w] \in WorkerType
           /\ worker[w].pc \in Places /\ worker[w].reused \in BOOLEAN
           /\ worker[w].copy \in Content /\ worker[w].reads \in Content
PROOF BY DEF Typed, WorkerType

\* A step of w keeps what another worker v relies on.
LEMMA OthersKeep ==
    ASSUME IInv, NEW w \in Workers, NEW v \in Workers \ {w},
           lock' = lock \/ (lock \in {w, None} /\ lock' \in {w, None}),
           lock \in {w, None}
            \/ (pending' = pending /\ \A k \in Identity : dir'[k] = None => dir[k] = None),
           Filed(w)
    PROVE  Locks(v, worker[v], lock', pending', dir') /\ Finds(worker[v], file')
PROOF
<1> DEFINE q == worker[v]
           p == worker[w]
<1>1. /\ q \in WorkerType /\ Locks(v, q, lock, pending, dir) /\ Asks(q, engine) /\ Finds(q, file)
      /\ Asks(p, engine) /\ v # None
  BY Records, NoneAssumption DEF IInv
<1>2. \A s \in Sessions, c \in Scopes :
        file'[s][c] = file[s][c] \/ Installs(p, s, c) \/ Cleans(p, s, c)
  BY DEF Filed
<1>3. /\ p.pc # "idle" /\ p.op \in IndexOps /\ q.pc # "idle" /\ q.op \in IndexOps
      => p.session # q.session
  BY DEF IInv, Exclusive
<1> HIDE DEF q, p
<1>4. Locks(v, q, lock', pending', dir')
  <2>2. CASE lock \in {w, None}
    <3>1. q.pc \notin Locked /\ lock' # v BY <1>1, <2>2 DEF Locks
    <3> QED BY <3>1 DEF Locks, Locked
  <2>3. CASE lock \notin {w, None}
    <3>1. lock' = lock /\ pending' = pending BY <2>3
    <3>2. q.pc \in {"copy", "replace", "touch"} => dir'[q.id] # None
      BY <1>1, <2>3 DEF Locks, Asks
    <3> QED BY <1>1, <3>1, <3>2 DEF Locks
  <2> QED BY <2>2, <2>3
<1>5. ASSUME q.pc \in {"touch", "publish", "fill", "swap", "open"}
      PROVE  Finds(q, file')
  <2> DEFINE s == q.session
             c == q.id.scope
  <2>1. /\ s \in Sessions /\ q.id \in Identity /\ c \in Scopes
        /\ q.id.input = InputOf[s] /\ q.id.engine = engine
        /\ c = "calls" => q.op \in IndexOps
    BY <1>1, <1>5 DEF Asks, Identity
  <2>2. CASE file'[s][c] = file[s][c] BY <1>1, <2>2 DEF Finds
  <2>3. CASE Installs(p, s, c)
    <3>1. p.id = q.id BY <1>1, <2>1, <2>3 DEF Installs, Asks, Identity
    <3> QED BY <2>1, <2>3, <3>1, NoneAssumption DEF Installs, Finds
  <2>4. CASE Cleans(p, s, c) BY <1>3, <1>5, <2>1, <2>4 DEF Cleans
  <2> QED BY <1>2, <2>1, <2>2, <2>3, <2>4
<1>6. Finds(q, file') BY <1>5 DEF Finds
<1> QED BY <1>4, <1>6 DEF q

\* A step that leaves w with a record r that keeps the invariant keeps all.
LEMMA WorkerMoves ==
    ASSUME IInv, NEW w \in Workers, NEW r, worker' = [worker EXCEPT ![w] = r],
           r \in WorkerType, engine' = engine, Typed',
           Locks(w, r, lock', pending', dir'), Asks(r, engine), Finds(r, file'),
           \/ r.pc = "idle"
           \/ worker[w].pc # "idle" /\ r.op = worker[w].op /\ r.session = worker[w].session
           \/ r.op \in IndexOps =>
                \A v \in Workers : ~(worker[v].session = r.session /\ worker[v].op \in IndexOps),
           lock' = lock \/ (lock \in {w, None} /\ lock' \in {w, None}),
           lock \in {w, None}
            \/ (pending' = pending /\ \A k \in Identity : dir'[k] = None => dir[k] = None),
           Filed(w), WholeIndexes'
    PROVE  IInv'
PROOF
<1>0. worker'[w] = r /\ \A v \in Workers \ {w} : worker'[v] = worker[v] BY DEF IInv, Typed
<1>1. \A v \in Workers \ {w} : /\ Locks(v, worker[v], lock', pending', dir')
                               /\ Asks(worker[v], engine) /\ Finds(worker[v], file')
  BY OthersKeep DEF IInv
<1>2. \A v \in Workers : /\ Locks(v, worker'[v], lock', pending', dir')
                         /\ Asks(worker'[v], engine') /\ Finds(worker'[v], file')
  BY <1>0, <1>1
<1>3. Exclusive' BY <1>0 DEF IInv, Exclusive
<1> QED BY <1>2, <1>3 DEF IInv

\* Entries go; those that stay are as they were.
LEMMA Removed ==
    ASSUME Typed, WholeIndexes, NEW D, dir' = Without(D), newer' = OrderWithout(D)
    PROVE  /\ dir' \in [Identity -> Entry \cup {None}] /\ newer' \in [Identity -> SUBSET Identity]
           /\ \A k \in Identity : dir'[k] # None => dir'[k].holds = k
PROOF BY DEF Typed, WholeIndexes, Held, Without, OrderWithout

\* One entry is written, or changed; it is the latest then.
LEMMA Written ==
    ASSUME Typed, WholeIndexes, NEW D, NEW k \in Identity, NEW e \in Entry, e.holds = k,
           dir' = [Without(D) EXCEPT ![k] = e], newer' = Latest(D, k)
    PROVE  /\ dir' \in [Identity -> Entry \cup {None}] /\ newer' \in [Identity -> SUBSET Identity]
           /\ \A j \in Identity : dir'[j] # None => dir'[j].holds = j
PROOF BY DEF Typed, WholeIndexes, Held, Without, Latest

\* Whether the session has the file.
LEMMA FindKeeps ==
    ASSUME IInv, NEW w \in Workers, Find(w)
    PROVE  IInv'
PROOF
<1> DEFINE q == worker[w]
           r == [q EXCEPT !.reused = file[q.session][q.id.scope] # None,
                         !.pc = IF file[q.session][q.id.scope] # None THEN "open" ELSE "restore"]
<1>1. /\ q \in WorkerType /\ Locks(w, q, lock, pending, dir) /\ Asks(q, engine)
      /\ Finds(q, file) /\ Typed /\ WholeIndexes /\ w # None
  BY Records, NoneAssumption DEF IInv
<1>2. /\ worker' = [worker EXCEPT ![w] = r] /\ q.pc = "find"
      /\ UNCHANGED <<engine, dir, newer, pending, lock, file>>
  BY DEF Find, At, Goto, End, Lock, Unlock, Target
<1>3. q = worker[w] OBVIOUS
<1> HIDE DEF q
<1>4. r \in WorkerType /\ Typed' BY <1>1, <1>2, ZenonT(60) DEF WorkerType, Places, Content, Typed
<1>5. Locks(w, r, lock', pending', dir') BY <1>1, <1>2 DEF WorkerType, Locks, Locked
<1>6. Asks(r, engine) BY <1>1, <1>2 DEF WorkerType, Asks
<1>7. Finds(r, file') BY <1>1, <1>2 DEF WorkerType, Finds
<1>8. Filed(w) BY <1>1, <1>2, <1>3 DEF Filed
<1>9. /\ WholeIndexes'
      /\ r.pc = "idle" \/ (q.pc # "idle" /\ r.op = q.op /\ r.session = q.session)
  BY <1>1, <1>2 DEF WholeIndexes, Held, WorkerType
<1>10. /\ lock' = lock \/ (lock \in {w, None} /\ lock' \in {w, None})
       /\ lock \in {w, None}
            \/ (pending' = pending /\ \A k \in Identity : dir'[k] = None => dir[k] = None)
  BY <1>1, <1>2 DEF Locks, Locked
<1> HIDE DEF r
<1> QED BY <1>2, <1>3, <1>4, <1>5, <1>6, <1>7, <1>8, <1>9, <1>10, WorkerMoves DEF IInv

\* Another worker was faster.
LEMMA AlreadyThereKeeps ==
    ASSUME IInv, NEW w \in Workers, AlreadyThere(w)
    PROVE  IInv'
PROOF
<1> DEFINE q == worker[w]
           r == [q EXCEPT !.reused = TRUE, !.pc = "open"]
<1>1. /\ q \in WorkerType /\ Locks(w, q, lock, pending, dir) /\ Asks(q, engine)
      /\ Finds(q, file) /\ Typed /\ WholeIndexes /\ w # None
  BY Records, NoneAssumption DEF IInv
<1>2. /\ worker' = [worker EXCEPT ![w] = r]
      /\ q.pc = "check" /\ file[q.session][q.id.scope] # None
      /\ UNCHANGED <<engine, dir, newer, pending, file>> /\ lock' = None
  BY DEF AlreadyThere, At, Goto, End, Lock, Unlock, Target
<1>3. q = worker[w] OBVIOUS
<1> HIDE DEF q
<1>4. r \in WorkerType /\ Typed' BY <1>1, <1>2 DEF WorkerType, Places, Content, Typed
<1>5. Locks(w, r, lock', pending', dir') BY <1>1, <1>2 DEF WorkerType, Locks, Locked
<1>6. Asks(r, engine) BY <1>1, <1>2 DEF WorkerType, Asks
<1>7. Finds(r, file') BY <1>1, <1>2 DEF WorkerType, Finds
<1>8. Filed(w) BY <1>1, <1>2, <1>3 DEF Filed
<1>9. /\ WholeIndexes'
      /\ r.pc = "idle" \/ (q.pc # "idle" /\ r.op = q.op /\ r.session = q.session)
  BY <1>1, <1>2 DEF WholeIndexes, Held, WorkerType
<1>10. /\ lock' = lock \/ (lock \in {w, None} /\ lock' \in {w, None})
       /\ lock \in {w, None}
            \/ (pending' = pending /\ \A k \in Identity : dir'[k] = None => dir[k] = None)
  BY <1>1, <1>2 DEF Locks, Locked
<1> HIDE DEF r
<1> QED BY <1>2, <1>3, <1>4, <1>5, <1>6, <1>7, <1>8, <1>9, <1>10, WorkerMoves DEF IInv

\* The entry that matches stays until the lock is given back.
LEMMA BeginCopyKeeps ==
    ASSUME IInv, NEW w \in Workers, BeginCopy(w)
    PROVE  IInv'
PROOF
<1> DEFINE q == worker[w]
           r == [q EXCEPT !.pc = "copy"]
<1>1. /\ q \in WorkerType /\ Locks(w, q, lock, pending, dir) /\ Asks(q, engine)
      /\ Finds(q, file) /\ Typed /\ WholeIndexes /\ w # None
  BY Records, NoneAssumption DEF IInv
<1>2. /\ worker' = [worker EXCEPT ![w] = r] /\ q.pc = "check" /\ dir[q.id] # None
      /\ UNCHANGED <<engine, dir, newer, pending, lock, file>>
  BY DEF BeginCopy, At, Goto, End, Lock, Unlock, Target, Matches
<1>3. q = worker[w] OBVIOUS
<1> HIDE DEF q
<1>4. r \in WorkerType /\ Typed' BY <1>1, <1>2 DEF WorkerType, Places, Content, Typed
<1>5. Locks(w, r, lock', pending', dir') BY <1>1, <1>2 DEF WorkerType, Locks, Locked
<1>6. Asks(r, engine) BY <1>1, <1>2 DEF WorkerType, Asks
<1>7. Finds(r, file') BY <1>1, <1>2 DEF WorkerType, Finds
<1>8. Filed(w) BY <1>1, <1>2, <1>3 DEF Filed
<1>9. /\ WholeIndexes'
      /\ r.pc = "idle" \/ (q.pc # "idle" /\ r.op = q.op /\ r.session = q.session)
  BY <1>1, <1>2 DEF WholeIndexes, Held, WorkerType
<1>10. /\ lock' = lock \/ (lock \in {w, None} /\ lock' \in {w, None})
       /\ lock \in {w, None}
            \/ (pending' = pending /\ \A k \in Identity : dir'[k] = None => dir[k] = None)
  BY <1>1, <1>2 DEF Locks, Locked
<1> HIDE DEF r
<1> QED BY <1>2, <1>3, <1>4, <1>5, <1>6, <1>7, <1>8, <1>9, <1>10, WorkerMoves DEF IInv

\* What is copied from an undamaged entry is what its key says.
LEMMA CopiedKeeps ==
    ASSUME IInv, NEW w \in Workers, Copied(w)
    PROVE  IInv'
PROOF
<1> DEFINE q == worker[w]
           r == [q EXCEPT !.copy = dir[q.id].holds, !.pc = "replace"]
<1>1. /\ q \in WorkerType /\ Locks(w, q, lock, pending, dir) /\ Asks(q, engine)
      /\ Finds(q, file) /\ Typed /\ WholeIndexes /\ w # None
  BY Records, NoneAssumption DEF IInv
<1>2. /\ worker' = [worker EXCEPT ![w] = r] /\ q.pc = "copy"
      /\ UNCHANGED <<engine, dir, newer, pending, lock, file>>
  BY DEF Copied, At, Goto, End, Lock, Unlock, Target
<1>3. q = worker[w] OBVIOUS
<1> HIDE DEF q
<1>11. q.id \in Identity /\ dir[q.id].holds = q.id
  BY <1>1, <1>2 DEF Locks, Asks, WholeIndexes, Held
<1>4. r \in WorkerType /\ Typed' BY <1>1, <1>2, <1>11 DEF WorkerType, Places, Content, Typed
<1>5. Locks(w, r, lock', pending', dir') BY <1>1, <1>2, <1>11 DEF WorkerType, Locks, Locked
<1>6. Asks(r, engine) BY <1>1, <1>2, <1>11 DEF WorkerType, Asks
<1>7. Finds(r, file') BY <1>1, <1>2, <1>11 DEF WorkerType, Finds
<1>8. Filed(w) BY <1>1, <1>2, <1>3, <1>11 DEF Filed
<1>9. /\ WholeIndexes'
      /\ r.pc = "idle" \/ (q.pc # "idle" /\ r.op = q.op /\ r.session = q.session)
  BY <1>1, <1>2, <1>11 DEF WholeIndexes, Held, WorkerType
<1>10. /\ lock' = lock \/ (lock \in {w, None} /\ lock' \in {w, None})
       /\ lock \in {w, None}
            \/ (pending' = pending /\ \A k \in Identity : dir'[k] = None => dir[k] = None)
  BY <1>1, <1>2, <1>11 DEF Locks, Locked
<1> HIDE DEF r
<1> QED BY <1>2, <1>3, <1>4, <1>5, <1>6, <1>7, <1>8, <1>9, <1>10, WorkerMoves DEF IInv

\* An index too large for the directory stays in its session.
LEMMA PublishNothingKeeps ==
    ASSUME IInv, NEW w \in Workers, PublishNothing(w)
    PROVE  IInv'
PROOF
<1> DEFINE q == worker[w]
           r == [q EXCEPT !.pc = "open"]
<1>1. /\ q \in WorkerType /\ Locks(w, q, lock, pending, dir) /\ Asks(q, engine)
      /\ Finds(q, file) /\ Typed /\ WholeIndexes /\ w # None
  BY Records, NoneAssumption DEF IInv
<1>2. /\ worker' = [worker EXCEPT ![w] = r] /\ q.pc = "publish"
      /\ UNCHANGED <<engine, dir, newer, pending, lock, file>>
  BY DEF PublishNothing, At, Goto, End, Lock, Unlock, Target
<1>3. q = worker[w] OBVIOUS
<1> HIDE DEF q
<1>4. r \in WorkerType /\ Typed'
  BY <1>1, <1>2, NoneAssumption DEF WorkerType, Places, Content, Typed, Asks
<1>5. Locks(w, r, lock', pending', dir')
  BY <1>1, <1>2, NoneAssumption DEF WorkerType, Locks, Locked, Asks
<1>6. Asks(r, engine) BY <1>1, <1>2, NoneAssumption DEF WorkerType, Asks, Asks
<1>7. Finds(r, file') BY <1>1, <1>2, NoneAssumption DEF WorkerType, Finds, Asks
<1>8. Filed(w) BY <1>1, <1>2, <1>3, NoneAssumption DEF Filed, Asks
<1>9. /\ WholeIndexes'
      /\ r.pc = "idle" \/ (q.pc # "idle" /\ r.op = q.op /\ r.session = q.session)
  BY <1>1, <1>2, NoneAssumption DEF WholeIndexes, Held, WorkerType, Asks
<1>10. /\ lock' = lock \/ (lock \in {w, None} /\ lock' \in {w, None})
       /\ lock \in {w, None}
            \/ (pending' = pending /\ \A k \in Identity : dir'[k] = None => dir[k] = None)
  BY <1>1, <1>2, NoneAssumption DEF Locks, Locked, Asks
<1> HIDE DEF r
<1> QED BY <1>2, <1>3, <1>4, <1>5, <1>6, <1>7, <1>8, <1>9, <1>10, WorkerMoves DEF IInv

\* A file that was found must have the identity; one that was built has it.
LEMMA OpenKeeps ==
    ASSUME IInv, NEW w \in Workers, Open(w)
    PROVE  IInv'
PROOF
<1> DEFINE q == worker[w]
           r == [q EXCEPT !.reads = file[q.session][q.id.scope], !.pc = "read"]
<1>1. /\ q \in WorkerType /\ Locks(w, q, lock, pending, dir) /\ Asks(q, engine)
      /\ Finds(q, file) /\ Typed /\ WholeIndexes /\ w # None
  BY Records, NoneAssumption DEF IInv
<1>2. /\ worker' = [worker EXCEPT ![w] = r]
      /\ q.pc = "open" /\ (q.reused => file[q.session][q.id.scope] = q.id)
      /\ UNCHANGED <<engine, dir, newer, pending, lock, file>>
  BY DEF Open, At, Goto, End, Lock, Unlock, Target
<1>3. q = worker[w] OBVIOUS
<1> HIDE DEF q
<1>11. file[q.session][q.id.scope] \in Content BY <1>1, <1>2 DEF Typed, Asks, Identity
<1>4. r \in WorkerType /\ Typed'
  BY <1>1, <1>2, <1>11 DEF WorkerType, Places, Content, Typed, Finds
<1>5. Locks(w, r, lock', pending', dir')
  BY <1>1, <1>2, <1>11 DEF WorkerType, Locks, Locked, Finds
<1>6. Asks(r, engine) BY <1>1, <1>2, <1>11 DEF WorkerType, Asks, Finds
<1>7. Finds(r, file') BY <1>1, <1>2, <1>11 DEF WorkerType, Finds, Finds
<1>8. Filed(w) BY <1>1, <1>2, <1>3, <1>11 DEF Filed, Finds
<1>9. /\ WholeIndexes'
      /\ r.pc = "idle" \/ (q.pc # "idle" /\ r.op = q.op /\ r.session = q.session)
  BY <1>1, <1>2, <1>11 DEF WholeIndexes, Held, WorkerType, Finds
<1>10. /\ lock' = lock \/ (lock \in {w, None} /\ lock' \in {w, None})
       /\ lock \in {w, None}
            \/ (pending' = pending /\ \A k \in Identity : dir'[k] = None => dir[k] = None)
  BY <1>1, <1>2, <1>11 DEF Locks, Locked, Finds
<1> HIDE DEF r
<1> QED BY <1>2, <1>3, <1>4, <1>5, <1>6, <1>7, <1>8, <1>9, <1>10, WorkerMoves DEF IInv

\* A query ends with an error.
LEMMA OpenFailsKeeps ==
    ASSUME IInv, NEW w \in Workers, OpenFails(w)
    PROVE  IInv'
PROOF
<1> DEFINE q == worker[w]
           r == Idle
<1>1. /\ q \in WorkerType /\ Locks(w, q, lock, pending, dir) /\ Asks(q, engine)
      /\ Finds(q, file) /\ Typed /\ WholeIndexes /\ w # None
  BY Records, NoneAssumption DEF IInv
<1>2. /\ worker' = [worker EXCEPT ![w] = r] /\ q.pc = "open"
      /\ UNCHANGED <<engine, dir, newer, pending, lock, file>>
  BY DEF OpenFails, At, Goto, End, Lock, Unlock, Target
<1>3. q = worker[w] OBVIOUS
<1> HIDE DEF q
<1>4. r \in WorkerType /\ Typed' BY <1>1, <1>2 DEF WorkerType, Places, Content, Typed, Idle
<1>5. Locks(w, r, lock', pending', dir') BY <1>1, <1>2 DEF WorkerType, Locks, Locked, Idle
<1>6. Asks(r, engine) BY <1>1, <1>2 DEF WorkerType, Asks, Idle
<1>7. Finds(r, file') BY <1>1, <1>2 DEF WorkerType, Finds, Idle
<1>8. Filed(w) BY <1>1, <1>2, <1>3 DEF Filed, Idle
<1>9. /\ WholeIndexes'
      /\ r.pc = "idle" \/ (q.pc # "idle" /\ r.op = q.op /\ r.session = q.session)
  BY <1>1, <1>2 DEF WholeIndexes, Held, WorkerType, Idle
<1>10. /\ lock' = lock \/ (lock \in {w, None} /\ lock' \in {w, None})
       /\ lock \in {w, None}
            \/ (pending' = pending /\ \A k \in Identity : dir'[k] = None => dir[k] = None)
  BY <1>1, <1>2 DEF Locks, Locked, Idle
<1> HIDE DEF r
<1> QED BY <1>2, <1>3, <1>4, <1>5, <1>6, <1>7, <1>8, <1>9, <1>10, WorkerMoves DEF IInv

\* A query ends with its answer.
LEMMA AnswerKeeps ==
    ASSUME IInv, NEW w \in Workers, Answer(w)
    PROVE  IInv'
PROOF
<1> DEFINE q == worker[w]
           r == Idle
<1>1. /\ q \in WorkerType /\ Locks(w, q, lock, pending, dir) /\ Asks(q, engine)
      /\ Finds(q, file) /\ Typed /\ WholeIndexes /\ w # None
  BY Records, NoneAssumption DEF IInv
<1>2. /\ worker' = [worker EXCEPT ![w] = r] /\ q.pc = "read"
      /\ UNCHANGED <<engine, dir, newer, pending, lock, file>>
  BY DEF Answer, At, Goto, End, Lock, Unlock, Target
<1>3. q = worker[w] OBVIOUS
<1> HIDE DEF q
<1>4. r \in WorkerType /\ Typed' BY <1>1, <1>2 DEF WorkerType, Places, Content, Typed, Idle
<1>5. Locks(w, r, lock', pending', dir') BY <1>1, <1>2 DEF WorkerType, Locks, Locked, Idle
<1>6. Asks(r, engine) BY <1>1, <1>2 DEF WorkerType, Asks, Idle
<1>7. Finds(r, file') BY <1>1, <1>2 DEF WorkerType, Finds, Idle
<1>8. Filed(w) BY <1>1, <1>2, <1>3 DEF Filed, Idle
<1>9. /\ WholeIndexes'
      /\ r.pc = "idle" \/ (q.pc # "idle" /\ r.op = q.op /\ r.session = q.session)
  BY <1>1, <1>2 DEF WholeIndexes, Held, WorkerType, Idle
<1>10. /\ lock' = lock \/ (lock \in {w, None} /\ lock' \in {w, None})
       /\ lock \in {w, None}
            \/ (pending' = pending /\ \A k \in Identity : dir'[k] = None => dir[k] = None)
  BY <1>1, <1>2 DEF Locks, Locked, Idle
<1> HIDE DEF r
<1> QED BY <1>2, <1>3, <1>4, <1>5, <1>6, <1>7, <1>8, <1>9, <1>10, WorkerMoves DEF IInv

\* Entries that are swept disappear for nobody: nobody else holds the lock.
LEMMA LockRestoreKeeps ==
    ASSUME IInv, NEW w \in Workers, At(w, "restore"), Lock(w), pending' = None, NEW D,
           dir' = Without(D) /\ newer' = OrderWithout(D), Goto(w, "check"),
           UNCHANGED <<engine, file>>
    PROVE  IInv'
PROOF
<1> DEFINE q == worker[w]
           r == [q EXCEPT !.pc = "check"]
<1>1. /\ q \in WorkerType /\ Locks(w, q, lock, pending, dir) /\ Asks(q, engine)
      /\ Finds(q, file) /\ Typed /\ WholeIndexes /\ w # None
  BY Records, NoneAssumption DEF IInv
<1>2. /\ worker' = [worker EXCEPT ![w] = r] /\ q.pc = "restore"
      /\ UNCHANGED <<engine, file>> /\ lock = None /\ lock' = w /\ pending' = None
  BY DEF LockRestore, At, Goto, End, Lock, Unlock, Target
<1>3. q = worker[w] OBVIOUS
<1> HIDE DEF q
<1>11. /\ dir' \in [Identity -> Entry \cup {None}] /\ newer' \in [Identity -> SUBSET Identity]
       /\ \A k \in Identity : dir'[k] # None => dir'[k].holds = k
  BY <1>1, Removed
<1>4. r \in WorkerType /\ Typed' BY <1>1, <1>2, <1>11 DEF WorkerType, Places, Content, Typed
<1>5. Locks(w, r, lock', pending', dir') BY <1>1, <1>2, <1>11 DEF WorkerType, Locks, Locked
<1>6. Asks(r, engine) BY <1>1, <1>2, <1>11 DEF WorkerType, Asks
<1>7. Finds(r, file') BY <1>1, <1>2, <1>11 DEF WorkerType, Finds
<1>8. Filed(w) BY <1>1, <1>2, <1>3, <1>11 DEF Filed
<1>9. /\ WholeIndexes'
      /\ r.pc = "idle" \/ (q.pc # "idle" /\ r.op = q.op /\ r.session = q.session)
  BY <1>1, <1>2, <1>11 DEF WholeIndexes, Held, WorkerType
<1>10. /\ lock' = lock \/ (lock \in {w, None} /\ lock' \in {w, None})
       /\ lock \in {w, None}
            \/ (pending' = pending /\ \A k \in Identity : dir'[k] = None => dir[k] = None)
  BY <1>1, <1>2, <1>11 DEF Locks, Locked
<1> HIDE DEF r
<1> QED BY <1>2, <1>3, <1>4, <1>5, <1>6, <1>7, <1>8, <1>9, <1>10, WorkerMoves DEF IInv

\* An entry that does not match, or whose bytes do not, is removed.
LEMMA NotRestoredKeeps ==
    ASSUME IInv, NEW w \in Workers, worker[w].pc \in {"check", "copy"}, Unlock, GiveUp(w), NEW D,
           dir' = Without(D) /\ newer' = OrderWithout(D), UNCHANGED <<engine, pending, file>>
    PROVE  IInv'
PROOF
<1> DEFINE q == worker[w]
           r == IF q.op \in IndexOps THEN [q EXCEPT !.pc = "clean"] ELSE Idle
<1>1. /\ q \in WorkerType /\ Locks(w, q, lock, pending, dir) /\ Asks(q, engine)
      /\ Finds(q, file) /\ Typed /\ WholeIndexes /\ w # None
  BY Records, NoneAssumption DEF IInv
<1>2. /\ worker' = [worker EXCEPT ![w] = r] /\ q.pc \in {"check", "copy"}
      /\ UNCHANGED <<engine, pending, file>> /\ lock' = None
  BY DEF NotRestored, At, Goto, End, Lock, Unlock, Target, GiveUp
<1>3. q = worker[w] OBVIOUS
<1> HIDE DEF q
<1>11. /\ dir' \in [Identity -> Entry \cup {None}] /\ newer' \in [Identity -> SUBSET Identity]
       /\ \A k \in Identity : dir'[k] # None => dir'[k].holds = k
  BY <1>1, Removed
<1>4. r \in WorkerType /\ Typed'
  BY <1>1, <1>2, <1>11 DEF WorkerType, Places, Content, Typed, Idle
<1>5. Locks(w, r, lock', pending', dir')
  BY <1>1, <1>2, <1>11 DEF WorkerType, Locks, Locked, Idle
<1>6. Asks(r, engine) BY <1>1, <1>2, <1>11 DEF WorkerType, Asks, Idle
<1>7. Finds(r, file') BY <1>1, <1>2, <1>11 DEF WorkerType, Finds, Idle
<1>8. Filed(w) BY <1>1, <1>2, <1>3, <1>11 DEF Filed, Idle
<1>9. /\ WholeIndexes'
      /\ r.pc = "idle" \/ (q.pc # "idle" /\ r.op = q.op /\ r.session = q.session)
  BY <1>1, <1>2, <1>11 DEF WholeIndexes, Held, WorkerType, Idle
<1>10. /\ lock' = lock \/ (lock \in {w, None} /\ lock' \in {w, None})
       /\ lock \in {w, None}
            \/ (pending' = pending /\ \A k \in Identity : dir'[k] = None => dir[k] = None)
  BY <1>1, <1>2, <1>11 DEF Locks, Locked, Idle
<1> HIDE DEF r
<1> QED BY <1>2, <1>3, <1>4, <1>5, <1>6, <1>7, <1>8, <1>9, <1>10, WorkerMoves DEF IInv

\* Room is made, and "pending" written.
LEMMA LockPublishKeeps ==
    ASSUME IInv, NEW w \in Workers, At(w, "publish"), Lock(w), pending' = worker[w].id, NEW D,
           dir' = Without(D) /\ newer' = OrderWithout(D), Goto(w, "fill"),
           UNCHANGED <<engine, file>>
    PROVE  IInv'
PROOF
<1> DEFINE q == worker[w]
           r == [q EXCEPT !.pc = "fill"]
<1>1. /\ q \in WorkerType /\ Locks(w, q, lock, pending, dir) /\ Asks(q, engine)
      /\ Finds(q, file) /\ Typed /\ WholeIndexes /\ w # None
  BY Records, NoneAssumption DEF IInv
<1>2. /\ worker' = [worker EXCEPT ![w] = r] /\ q.pc = "publish"
      /\ UNCHANGED <<engine, file>> /\ lock = None /\ lock' = w /\ pending' = q.id
  BY DEF LockPublish, At, Goto, End, Lock, Unlock, Target
<1>3. q = worker[w] OBVIOUS
<1> HIDE DEF q
<1>11. /\ dir' \in [Identity -> Entry \cup {None}] /\ newer' \in [Identity -> SUBSET Identity]
       /\ \A k \in Identity : dir'[k] # None => dir'[k].holds = k
  BY <1>1, Removed
<1>4. r \in WorkerType /\ Typed'
  BY <1>1, <1>2, <1>11 DEF WorkerType, Places, Content, Typed, Asks
<1>5. Locks(w, r, lock', pending', dir')
  BY <1>1, <1>2, <1>11 DEF WorkerType, Locks, Locked, Asks
<1>6. Asks(r, engine) BY <1>1, <1>2, <1>11 DEF WorkerType, Asks, Asks
<1>7. Finds(r, file') BY <1>1, <1>2, <1>11 DEF WorkerType, Finds, Asks
<1>8. Filed(w) BY <1>1, <1>2, <1>3, <1>11 DEF Filed, Asks
<1>9. /\ WholeIndexes'
      /\ r.pc = "idle" \/ (q.pc # "idle" /\ r.op = q.op /\ r.session = q.session)
  BY <1>1, <1>2, <1>11 DEF WholeIndexes, Held, WorkerType, Asks
<1>10. /\ lock' = lock \/ (lock \in {w, None} /\ lock' \in {w, None})
       /\ lock \in {w, None}
            \/ (pending' = pending /\ \A k \in Identity : dir'[k] = None => dir[k] = None)
  BY <1>1, <1>2, <1>11 DEF Locks, Locked, Asks
<1> HIDE DEF r
<1> QED BY <1>2, <1>3, <1>4, <1>5, <1>6, <1>7, <1>8, <1>9, <1>10, WorkerMoves DEF IInv

\* os.replace puts a restored copy into the session.
LEMMA RestoredKeeps ==
    ASSUME IInv, NEW w \in Workers, Restored(w)
    PROVE  IInv'
PROOF
<1> DEFINE q == worker[w]
           r == [q EXCEPT !.copy = None, !.pc = "touch"]
<1>1. /\ q \in WorkerType /\ Locks(w, q, lock, pending, dir) /\ Asks(q, engine)
      /\ Finds(q, file) /\ Typed /\ WholeIndexes /\ w # None
  BY Records, NoneAssumption DEF IInv
<1>2. /\ worker' = [worker EXCEPT ![w] = r]
      /\ q.pc = "replace" /\ file' = [file EXCEPT ![q.session][q.id.scope] = q.copy]
      /\ UNCHANGED <<engine, dir, newer, pending, lock>>
  BY DEF Restored, At, Goto, End, Lock, Unlock, Target, Install
<1>3. q = worker[w] OBVIOUS
<1> HIDE DEF q
<1>11. /\ q.session \in Sessions /\ q.id \in Identity /\ q.id.scope \in Scopes /\ q.copy = q.id
       /\ q.id.input = InputOf[q.session] /\ q.id.engine = engine /\ q.id # None
       /\ q.id \in Content
  BY <1>1, <1>2, NoneAssumption DEF Asks, Identity, Content
<1>12. /\ file' \in [Sessions -> [Scopes -> Content]]
       /\ file'[q.session][q.id.scope] = q.id
       /\ \A s \in Sessions, c \in Scopes :
            file'[s][c] = file[s][c] \/ (s = q.session /\ c = q.id.scope /\ file'[s][c] = q.id)
  BY <1>1, <1>2, <1>11 DEF Typed
<1>4. r \in WorkerType /\ Typed'
  BY <1>1, <1>2, <1>11, <1>12 DEF WorkerType, Places, Content, Typed, Installs, Identity
<1>5. Locks(w, r, lock', pending', dir')
  BY <1>1, <1>2, <1>11, <1>12 DEF WorkerType, Locks, Locked, Installs, Identity
<1>6. Asks(r, engine) BY <1>1, <1>2, <1>11, <1>12 DEF WorkerType, Asks, Installs, Identity
<1>7. Finds(r, file') BY <1>1, <1>2, <1>11, <1>12 DEF WorkerType, Finds, Installs, Identity
<1>8. Filed(w) BY <1>1, <1>2, <1>3, <1>11, <1>12 DEF Filed, Installs, Identity
<1>9. /\ WholeIndexes'
      /\ r.pc = "idle" \/ (q.pc # "idle" /\ r.op = q.op /\ r.session = q.session)
  BY <1>1, <1>2, <1>11, <1>12 DEF WholeIndexes, Held, WorkerType, Installs, Identity
<1>10. /\ lock' = lock \/ (lock \in {w, None} /\ lock' \in {w, None})
       /\ lock \in {w, None}
            \/ (pending' = pending /\ \A k \in Identity : dir'[k] = None => dir[k] = None)
  BY <1>1, <1>2, <1>11, <1>12 DEF Locks, Locked, Installs, Identity
<1> HIDE DEF r
<1> QED BY <1>2, <1>3, <1>4, <1>5, <1>6, <1>7, <1>8, <1>9, <1>10, WorkerMoves DEF IInv

\* os.replace puts a built index there.
LEMMA BuiltKeeps ==
    ASSUME IInv, NEW w \in Workers, Built(w)
    PROVE  IInv'
PROOF
<1> DEFINE q == worker[w]
           r == [q EXCEPT !.copy = None, !.pc = "publish"]
<1>1. /\ q \in WorkerType /\ Locks(w, q, lock, pending, dir) /\ Asks(q, engine)
      /\ Finds(q, file) /\ Typed /\ WholeIndexes /\ w # None
  BY Records, NoneAssumption DEF IInv
<1>2. /\ worker' = [worker EXCEPT ![w] = r]
      /\ q.pc = "built" /\ file' = [file EXCEPT ![q.session][q.id.scope] = q.copy]
      /\ UNCHANGED <<engine, dir, newer, pending, lock>>
  BY DEF Built, At, Goto, End, Lock, Unlock, Target, Install
<1>3. q = worker[w] OBVIOUS
<1> HIDE DEF q
<1>11. /\ q.session \in Sessions /\ q.id \in Identity /\ q.id.scope \in Scopes /\ q.copy = q.id
       /\ q.id.input = InputOf[q.session] /\ q.id.engine = engine /\ q.id # None
       /\ q.id \in Content
  BY <1>1, <1>2, NoneAssumption DEF Asks, Identity, Content
<1>12. /\ file' \in [Sessions -> [Scopes -> Content]]
       /\ file'[q.session][q.id.scope] = q.id
       /\ \A s \in Sessions, c \in Scopes :
            file'[s][c] = file[s][c] \/ (s = q.session /\ c = q.id.scope /\ file'[s][c] = q.id)
  BY <1>1, <1>2, <1>11 DEF Typed
<1>4. r \in WorkerType /\ Typed'
  BY <1>1, <1>2, <1>11, <1>12 DEF WorkerType, Places, Content, Typed, Installs, Identity
<1>5. Locks(w, r, lock', pending', dir')
  BY <1>1, <1>2, <1>11, <1>12 DEF WorkerType, Locks, Locked, Installs, Identity
<1>6. Asks(r, engine) BY <1>1, <1>2, <1>11, <1>12 DEF WorkerType, Asks, Installs, Identity
<1>7. Finds(r, file') BY <1>1, <1>2, <1>11, <1>12 DEF WorkerType, Finds, Installs, Identity
<1>8. Filed(w) BY <1>1, <1>2, <1>3, <1>11, <1>12 DEF Filed, Installs, Identity
<1>9. /\ WholeIndexes'
      /\ r.pc = "idle" \/ (q.pc # "idle" /\ r.op = q.op /\ r.session = q.session)
  BY <1>1, <1>2, <1>11, <1>12 DEF WholeIndexes, Held, WorkerType, Installs, Identity
<1>10. /\ lock' = lock \/ (lock \in {w, None} /\ lock' \in {w, None})
       /\ lock \in {w, None}
            \/ (pending' = pending /\ \A k \in Identity : dir'[k] = None => dir[k] = None)
  BY <1>1, <1>2, <1>11, <1>12 DEF Locks, Locked, Installs, Identity
<1> HIDE DEF r
<1> QED BY <1>2, <1>3, <1>4, <1>5, <1>6, <1>7, <1>8, <1>9, <1>10, WorkerMoves DEF IInv

\* A complete index is about to replace calls.sqlite.
LEMMA CleanKeeps ==
    ASSUME IInv, NEW w \in Workers, Clean(w)
    PROVE  IInv'
PROOF
<1> DEFINE q == worker[w]
           r == [q EXCEPT !.pc = "build"]
<1>1. /\ q \in WorkerType /\ Locks(w, q, lock, pending, dir) /\ Asks(q, engine)
      /\ Finds(q, file) /\ Typed /\ WholeIndexes /\ w # None
  BY Records, NoneAssumption DEF IInv
<1>2. /\ worker' = [worker EXCEPT ![w] = r] /\ q.pc = "clean"
      /\ UNCHANGED <<engine, dir, newer, pending, lock>>
      /\ file' = IF q.id.scope = "all" THEN [file EXCEPT ![q.session]["calls"] = None] ELSE file
  BY DEF Clean, At, Goto, End, Lock, Unlock, Target
<1>3. q = worker[w] OBVIOUS
<1> HIDE DEF q
<1>11. q.session \in Sessions /\ q.op \in IndexOps BY <1>1, <1>2 DEF Asks
<1>12. /\ file' \in [Sessions -> [Scopes -> Content]]
       /\ \A s \in Sessions, c \in Scopes :
            file'[s][c] = file[s][c] \/ (s = q.session /\ c = "calls" /\ file'[s][c] = None)
  BY <1>1, <1>2, <1>11 DEF Typed, Scopes, Content
<1>4. r \in WorkerType /\ Typed'
  BY <1>1, <1>2, <1>11, <1>12 DEF WorkerType, Places, Content, Typed, Cleans
<1>5. Locks(w, r, lock', pending', dir')
  BY <1>1, <1>2, <1>11, <1>12 DEF WorkerType, Locks, Locked, Cleans
<1>6. Asks(r, engine) BY <1>1, <1>2, <1>11, <1>12 DEF WorkerType, Asks, Cleans
<1>7. Finds(r, file') BY <1>1, <1>2, <1>11, <1>12 DEF WorkerType, Finds, Cleans
<1>8. Filed(w) BY <1>1, <1>2, <1>3, <1>11, <1>12 DEF Filed, Cleans
<1>9. /\ WholeIndexes'
      /\ r.pc = "idle" \/ (q.pc # "idle" /\ r.op = q.op /\ r.session = q.session)
  BY <1>1, <1>2, <1>11, <1>12 DEF WholeIndexes, Held, WorkerType, Cleans
<1>10. /\ lock' = lock \/ (lock \in {w, None} /\ lock' \in {w, None})
       /\ lock \in {w, None}
            \/ (pending' = pending /\ \A k \in Identity : dir'[k] = None => dir[k] = None)
  BY <1>1, <1>2, <1>11, <1>12 DEF Locks, Locked, Cleans
<1> HIDE DEF r
<1> QED BY <1>2, <1>3, <1>4, <1>5, <1>6, <1>7, <1>8, <1>9, <1>10, WorkerMoves DEF IInv

\* The index is built in the workspace.
LEMMA BuildKeeps ==
    ASSUME IInv, NEW w \in Workers, At(w, "build"),
           worker' = [worker EXCEPT ![w].copy = worker[w].id, ![w].pc = "built"],
           UNCHANGED <<engine, dir, newer, pending, lock, file>>
    PROVE  IInv'
PROOF
<1> DEFINE q == worker[w]
           r == [q EXCEPT !.copy = q.id, !.pc = "built"]
<1>1. /\ q \in WorkerType /\ Locks(w, q, lock, pending, dir) /\ Asks(q, engine)
      /\ Finds(q, file) /\ Typed /\ WholeIndexes /\ w # None
  BY Records, NoneAssumption DEF IInv
<1>2. /\ worker' = [worker EXCEPT ![w] = r] /\ q.pc = "build"
      /\ UNCHANGED <<engine, dir, newer, pending, lock, file>>
  BY DEF At, Goto, End, Lock, Unlock, Target
<1>3. q = worker[w] OBVIOUS
<1> HIDE DEF q
<1>11. q.id \in Content BY <1>1, <1>2 DEF Asks, Content
<1>4. r \in WorkerType /\ Typed'
  <2>1. r \in WorkerType BY <1>1, <1>11 DEF WorkerType, Places
  <2> HIDE DEF r
  <2> QED BY <1>1, <1>2, <2>1 DEF Typed
<1>5. Locks(w, r, lock', pending', dir')
  BY <1>1, <1>2, <1>11 DEF WorkerType, Locks, Locked, Asks
<1>6. Asks(r, engine) BY <1>1, <1>2, <1>11 DEF WorkerType, Asks, Asks
<1>7. Finds(r, file') BY <1>1, <1>2, <1>11 DEF WorkerType, Finds, Asks
<1>8. Filed(w) BY <1>1, <1>2, <1>3, <1>11 DEF Filed, Asks
<1>9. /\ WholeIndexes'
      /\ r.pc = "idle" \/ (q.pc # "idle" /\ r.op = q.op /\ r.session = q.session)
  BY <1>1, <1>2, <1>11 DEF WholeIndexes, Held, WorkerType, Asks
<1>10. /\ lock' = lock \/ (lock \in {w, None} /\ lock' \in {w, None})
       /\ lock \in {w, None}
            \/ (pending' = pending /\ \A k \in Identity : dir'[k] = None => dir[k] = None)
  BY <1>1, <1>2, <1>11 DEF Locks, Locked, Asks
<1> HIDE DEF r
<1> QED BY <1>2, <1>3, <1>4, <1>5, <1>6, <1>7, <1>8, <1>9, <1>10, WorkerMoves DEF IInv

\* A process without the lock ends.
LEMMA EndedKeeps ==
    ASSUME IInv, NEW w \in Workers, worker[w].pc \notin Locked, End(w),
           UNCHANGED <<engine, dir, newer, pending, lock, file>>
    PROVE  IInv'
PROOF
<1> DEFINE q == worker[w]
           r == Idle
<1>1. /\ q \in WorkerType /\ Locks(w, q, lock, pending, dir) /\ Asks(q, engine)
      /\ Finds(q, file) /\ Typed /\ WholeIndexes /\ w # None
  BY Records, NoneAssumption DEF IInv
<1>2. /\ worker' = [worker EXCEPT ![w] = r] /\ q.pc \notin Locked
      /\ UNCHANGED <<engine, dir, newer, pending, lock, file>>
  BY DEF At, Goto, End, Lock, Unlock, Target
<1>3. q = worker[w] OBVIOUS
<1> HIDE DEF q
<1>4. r \in WorkerType /\ Typed' BY <1>1, <1>2 DEF WorkerType, Places, Content, Typed, Idle
<1>5. Locks(w, r, lock', pending', dir') BY <1>1, <1>2 DEF WorkerType, Locks, Locked, Idle
<1>6. Asks(r, engine) BY <1>1, <1>2 DEF WorkerType, Asks, Idle
<1>7. Finds(r, file') BY <1>1, <1>2 DEF WorkerType, Finds, Idle
<1>8. Filed(w) BY <1>1, <1>2, <1>3 DEF Filed, Idle
<1>9. /\ WholeIndexes'
      /\ r.pc = "idle" \/ (q.pc # "idle" /\ r.op = q.op /\ r.session = q.session)
  BY <1>1, <1>2 DEF WholeIndexes, Held, WorkerType, Idle
<1>10. /\ lock' = lock \/ (lock \in {w, None} /\ lock' \in {w, None})
       /\ lock \in {w, None}
            \/ (pending' = pending /\ \A k \in Identity : dir'[k] = None => dir[k] = None)
  BY <1>1, <1>2 DEF Locks, Locked, Idle
<1> HIDE DEF r
<1> QED BY <1>2, <1>3, <1>4, <1>5, <1>6, <1>7, <1>8, <1>9, <1>10, WorkerMoves DEF IInv

\* What is copied to the directory is the file that was built.
LEMMA FilledKeeps ==
    ASSUME IInv, NEW w \in Workers, At(w, "fill"),
           worker' = [worker EXCEPT ![w].copy = Target(w), ![w].pc = "swap"],
           UNCHANGED <<engine, dir, newer, pending, lock, file>>
    PROVE  IInv'
PROOF
<1> DEFINE q == worker[w]
           r == [q EXCEPT !.copy = file[q.session][q.id.scope], !.pc = "swap"]
<1>1. /\ q \in WorkerType /\ Locks(w, q, lock, pending, dir) /\ Asks(q, engine)
      /\ Finds(q, file) /\ Typed /\ WholeIndexes /\ w # None
  BY Records, NoneAssumption DEF IInv
<1>2. /\ worker' = [worker EXCEPT ![w] = r] /\ q.pc = "fill"
      /\ UNCHANGED <<engine, dir, newer, pending, lock, file>>
  BY DEF At, Goto, End, Lock, Unlock, Target
<1>3. q = worker[w] OBVIOUS
<1> HIDE DEF q
<1>11. file[q.session][q.id.scope] = q.id /\ q.id \in Content
  BY <1>1, <1>2 DEF Asks, Finds, Content
<1>4. r \in WorkerType /\ Typed'
  <2>1. r \in WorkerType BY <1>1, <1>11 DEF WorkerType, Places
  <2> HIDE DEF r
  <2> QED BY <1>1, <1>2, <2>1 DEF Typed
<1>5. Locks(w, r, lock', pending', dir') BY <1>1, <1>2, <1>11 DEF WorkerType, Locks, Locked
<1>6. Asks(r, engine) BY <1>1, <1>2, <1>11 DEF WorkerType, Asks
<1>7. Finds(r, file') BY <1>1, <1>2, <1>11 DEF WorkerType, Finds
<1>8. Filed(w) BY <1>1, <1>2, <1>3, <1>11 DEF Filed
<1>9. /\ WholeIndexes'
      /\ r.pc = "idle" \/ (q.pc # "idle" /\ r.op = q.op /\ r.session = q.session)
  BY <1>1, <1>2, <1>11 DEF WholeIndexes, Held, WorkerType
<1>10. /\ lock' = lock \/ (lock \in {w, None} /\ lock' \in {w, None})
       /\ lock \in {w, None}
            \/ (pending' = pending /\ \A k \in Identity : dir'[k] = None => dir[k] = None)
  BY <1>1, <1>2, <1>11 DEF Locks, Locked
<1> HIDE DEF r
<1> QED BY <1>2, <1>3, <1>4, <1>5, <1>6, <1>7, <1>8, <1>9, <1>10, WorkerMoves DEF IInv

\* The copy to the directory fails.
LEMMA FillFailsKeeps ==
    ASSUME IInv, NEW w \in Workers, At(w, "fill"), End(w), pending' = None, Unlock,
           UNCHANGED <<engine, dir, newer, file>>
    PROVE  IInv'
PROOF
<1> DEFINE q == worker[w]
           r == Idle
<1>1. /\ q \in WorkerType /\ Locks(w, q, lock, pending, dir) /\ Asks(q, engine)
      /\ Finds(q, file) /\ Typed /\ WholeIndexes /\ w # None
  BY Records, NoneAssumption DEF IInv
<1>2. /\ worker' = [worker EXCEPT ![w] = r] /\ q.pc = "fill"
      /\ UNCHANGED <<engine, dir, newer, file>> /\ pending' = None /\ lock' = None
  BY DEF At, Goto, End, Lock, Unlock, Target
<1>3. q = worker[w] OBVIOUS
<1> HIDE DEF q
<1>4. r \in WorkerType /\ Typed' BY <1>1, <1>2 DEF WorkerType, Places, Content, Typed, Idle
<1>5. Locks(w, r, lock', pending', dir') BY <1>1, <1>2 DEF WorkerType, Locks, Locked, Idle
<1>6. Asks(r, engine) BY <1>1, <1>2 DEF WorkerType, Asks, Idle
<1>7. Finds(r, file') BY <1>1, <1>2 DEF WorkerType, Finds, Idle
<1>8. Filed(w) BY <1>1, <1>2, <1>3 DEF Filed, Idle
<1>9. /\ WholeIndexes'
      /\ r.pc = "idle" \/ (q.pc # "idle" /\ r.op = q.op /\ r.session = q.session)
  BY <1>1, <1>2 DEF WholeIndexes, Held, WorkerType, Idle
<1>10. /\ lock' = lock \/ (lock \in {w, None} /\ lock' \in {w, None})
       /\ lock \in {w, None}
            \/ (pending' = pending /\ \A k \in Identity : dir'[k] = None => dir[k] = None)
  BY <1>1, <1>2 DEF Locks, Locked, Idle
<1> HIDE DEF r
<1> QED BY <1>2, <1>3, <1>4, <1>5, <1>6, <1>7, <1>8, <1>9, <1>10, WorkerMoves DEF IInv

\* A restored entry becomes the latest.
LEMMA TouchKeeps ==
    ASSUME IInv, NEW w \in Workers, Touch(w)
    PROVE  IInv'
PROOF
<1> DEFINE q == worker[w]
           r == [q EXCEPT !.reused = TRUE, !.pc = "open"]
<1>1. /\ q \in WorkerType /\ Locks(w, q, lock, pending, dir) /\ Asks(q, engine)
      /\ Finds(q, file) /\ Typed /\ WholeIndexes /\ w # None
  BY Records, NoneAssumption DEF IInv
<1>2. /\ worker' = [worker EXCEPT ![w] = r] /\ q.pc = "touch"
      /\ dir' = [dir EXCEPT ![q.id].aged = FALSE] /\ newer' = Latest({}, q.id)
      /\ UNCHANGED <<engine, pending, file>> /\ lock' = None
  BY DEF Touch, At, Goto, End, Lock, Unlock, Target
<1>3. q = worker[w] OBVIOUS
<1> HIDE DEF q
<1>14. q.id \in Identity /\ dir[q.id] \in Entry /\ dir[q.id].holds = q.id /\ q.id # None
  BY <1>1, <1>2, NoneAssumption DEF Locks, Asks, Typed, WholeIndexes, Held
<1>15. Without({}) = dir BY <1>1 DEF Typed, Without
<1>11. /\ [dir[q.id] EXCEPT !.aged = FALSE] \in Entry /\ q.id \in Identity /\ q.id # None
       /\ [dir[q.id] EXCEPT !.aged = FALSE].holds = q.id /\ Without({}) = dir
  BY <1>14, <1>15 DEF Entry
<1>12. dir' = [Without({}) EXCEPT ![q.id] = [dir[q.id] EXCEPT !.aged = FALSE]]
  BY <1>2, <1>11
<1>13. /\ dir' \in [Identity -> Entry \cup {None}] /\ newer' \in [Identity -> SUBSET Identity]
       /\ \A k \in Identity : dir'[k] # None => dir'[k].holds = k
  BY <1>1, <1>2, <1>11, <1>12, Written DEF Entry
<1>4. r \in WorkerType /\ Typed'
  BY <1>1, <1>2, <1>11, <1>13 DEF WorkerType, Places, Content, Typed
<1>5. Locks(w, r, lock', pending', dir')
  BY <1>1, <1>2, <1>11, <1>13 DEF WorkerType, Locks, Locked
<1>6. Asks(r, engine) BY <1>1, <1>2, <1>11, <1>13 DEF WorkerType, Asks
<1>7. Finds(r, file') BY <1>1, <1>2, <1>11, <1>13 DEF WorkerType, Finds
<1>8. Filed(w) BY <1>1, <1>2, <1>3, <1>11, <1>13 DEF Filed
<1>9. /\ WholeIndexes'
      /\ r.pc = "idle" \/ (q.pc # "idle" /\ r.op = q.op /\ r.session = q.session)
  BY <1>1, <1>2, <1>11, <1>13 DEF WholeIndexes, Held, WorkerType
<1>10. /\ lock' = lock \/ (lock \in {w, None} /\ lock' \in {w, None})
       /\ lock \in {w, None}
            \/ (pending' = pending /\ \A k \in Identity : dir'[k] = None => dir[k] = None)
  BY <1>1, <1>2, <1>11, <1>13 DEF Locks, Locked
<1> HIDE DEF r
<1> QED BY <1>2, <1>3, <1>4, <1>5, <1>6, <1>7, <1>8, <1>9, <1>10, WorkerMoves DEF IInv

\* os.replace publishes what its key says.
LEMMA SwapKeeps ==
    ASSUME IInv, NEW w \in Workers, Swap(w)
    PROVE  IInv'
PROOF
<1> DEFINE q == worker[w]
           r == [q EXCEPT !.copy = None, !.pc = "open"]
<1>1. /\ q \in WorkerType /\ Locks(w, q, lock, pending, dir) /\ Asks(q, engine)
      /\ Finds(q, file) /\ Typed /\ WholeIndexes /\ w # None
  BY Records, NoneAssumption DEF IInv
<1>2. /\ worker' = [worker EXCEPT ![w] = r] /\ q.pc = "swap"
      /\ dir' = [dir EXCEPT ![q.id] = [holds |-> q.copy, damage |-> "no", aged |-> FALSE]]
      /\ newer' = Latest({}, q.id)
      /\ UNCHANGED <<engine, file>> /\ pending' = None /\ lock' = None
  BY DEF Swap, At, Goto, End, Lock, Unlock, Target
<1>3. q = worker[w] OBVIOUS
<1> HIDE DEF q
<1>11. /\ q.id \in Identity /\ q.copy = q.id /\ Without({}) = dir /\ q.id # None
       /\ [holds |-> q.copy, damage |-> "no", aged |-> FALSE] \in Entry
  BY <1>1, <1>2, NoneAssumption DEF Asks, Typed, Without, Entry, Damage
<1>12. dir' = [Without({}) EXCEPT ![q.id] = [holds |-> q.copy, damage |-> "no", aged |-> FALSE]]
  BY <1>2, <1>11
<1>13. /\ dir' \in [Identity -> Entry \cup {None}] /\ newer' \in [Identity -> SUBSET Identity]
       /\ \A k \in Identity : dir'[k] # None => dir'[k].holds = k
  BY <1>1, <1>2, <1>11, <1>12, Written
<1>4. r \in WorkerType /\ Typed'
  BY <1>1, <1>2, <1>11, <1>13 DEF WorkerType, Places, Content, Typed
<1>5. Locks(w, r, lock', pending', dir')
  BY <1>1, <1>2, <1>11, <1>13 DEF WorkerType, Locks, Locked
<1>6. Asks(r, engine) BY <1>1, <1>2, <1>11, <1>13 DEF WorkerType, Asks
<1>7. Finds(r, file') BY <1>1, <1>2, <1>11, <1>13 DEF WorkerType, Finds
<1>8. Filed(w) BY <1>1, <1>2, <1>3, <1>11, <1>13 DEF Filed
<1>9. /\ WholeIndexes'
      /\ r.pc = "idle" \/ (q.pc # "idle" /\ r.op = q.op /\ r.session = q.session)
  BY <1>1, <1>2, <1>11, <1>13 DEF WholeIndexes, Held, WorkerType
<1>10. /\ lock' = lock \/ (lock \in {w, None} /\ lock' \in {w, None})
       /\ lock \in {w, None}
            \/ (pending' = pending /\ \A k \in Identity : dir'[k] = None => dir[k] = None)
  BY <1>1, <1>2, <1>11, <1>13 DEF Locks, Locked
<1> HIDE DEF r
<1> QED BY <1>2, <1>3, <1>4, <1>5, <1>6, <1>7, <1>8, <1>9, <1>10, WorkerMoves DEF IInv

\* A killed worker's lock is released by the kernel.
LEMMA DieKeeps ==
    ASSUME IInv, NEW w \in Workers, Die(w)
    PROVE  IInv'
PROOF
<1> DEFINE q == worker[w]
           r == Idle
<1>1. /\ q \in WorkerType /\ Locks(w, q, lock, pending, dir) /\ Asks(q, engine)
      /\ Finds(q, file) /\ Typed /\ WholeIndexes /\ w # None
  BY Records, NoneAssumption DEF IInv
<1>2. /\ worker' = [worker EXCEPT ![w] = r]
      /\ q.pc # "idle" /\ lock' = IF lock = w THEN None ELSE lock
      /\ UNCHANGED <<engine, dir, newer, pending, file>>
  BY DEF Die, At, Goto, End, Lock, Unlock, Target
<1>3. q = worker[w] OBVIOUS
<1> HIDE DEF q
<1>4. r \in WorkerType /\ Typed' BY <1>1, <1>2 DEF WorkerType, Places, Content, Typed, Idle
<1>5. Locks(w, r, lock', pending', dir') BY <1>1, <1>2 DEF WorkerType, Locks, Locked, Idle
<1>6. Asks(r, engine) BY <1>1, <1>2 DEF WorkerType, Asks, Idle
<1>7. Finds(r, file') BY <1>1, <1>2 DEF WorkerType, Finds, Idle
<1>8. Filed(w) BY <1>1, <1>2, <1>3 DEF Filed, Idle
<1>9. /\ WholeIndexes'
      /\ r.pc = "idle" \/ (q.pc # "idle" /\ r.op = q.op /\ r.session = q.session)
  BY <1>1, <1>2 DEF WholeIndexes, Held, WorkerType, Idle
<1>10. /\ lock' = lock \/ (lock \in {w, None} /\ lock' \in {w, None})
       /\ lock \in {w, None}
            \/ (pending' = pending /\ \A k \in Identity : dir'[k] = None => dir[k] = None)
  BY <1>1, <1>2 DEF Locks, Locked, Idle
<1> HIDE DEF r
<1> QED BY <1>2, <1>3, <1>4, <1>5, <1>6, <1>7, <1>8, <1>9, <1>10, WorkerMoves DEF IInv

\* A worker is killed while it removes entries.
LEMMA DieSweepingKeeps ==
    ASSUME IInv, NEW w \in Workers, NEW D, NEW k,
           DieSweeping(w, D, k)
    PROVE  IInv'
PROOF
<1> DEFINE q == worker[w]
           r == Idle
<1>1. /\ q \in WorkerType /\ Locks(w, q, lock, pending, dir) /\ Asks(q, engine)
      /\ Finds(q, file) /\ Typed /\ WholeIndexes /\ w # None
  BY Records, NoneAssumption DEF IInv
<1>2. /\ worker' = [worker EXCEPT ![w] = r]
      /\ q.pc \in {"restore", "publish"} /\ lock = None /\ k \in Held /\ k \notin D
      /\ dir' = [Without(D) EXCEPT ![k].damage = "manifest", ![k].aged = FALSE]
      /\ newer' = Latest(D, k) /\ pending' \in {pending, None}
      /\ UNCHANGED <<engine, lock, file>>
  BY DEF DieSweeping, At, Goto, End, Lock, Unlock, Target, Doomed
<1>3. q = worker[w] OBVIOUS
<1> HIDE DEF q
<1>11. /\ k \in Identity /\ dir[k] \in Entry /\ dir[k].holds = k /\ Without(D)[k] = dir[k]
       /\ Without(D) \in [Identity -> Entry \cup {None}]
       /\ [dir[k] EXCEPT !.damage = "manifest", !.aged = FALSE] \in Entry
       /\ [dir[k] EXCEPT !.damage = "manifest", !.aged = FALSE].holds = k
  BY <1>1, <1>2 DEF Typed, WholeIndexes, Held, Without, Entry, Damage
<1>12. dir' = [Without(D) EXCEPT ![k] = [dir[k] EXCEPT !.damage = "manifest", !.aged = FALSE]]
  BY <1>2, <1>11
<1>13. /\ dir' \in [Identity -> Entry \cup {None}] /\ newer' \in [Identity -> SUBSET Identity]
       /\ \A j \in Identity : dir'[j] # None => dir'[j].holds = j
  BY <1>1, <1>2, <1>11, <1>12, Written
<1>4. r \in WorkerType /\ Typed'
  BY <1>1, <1>2, <1>11, <1>13 DEF WorkerType, Places, Content, Typed, Idle
<1>5. Locks(w, r, lock', pending', dir')
  BY <1>1, <1>2, <1>11, <1>13 DEF WorkerType, Locks, Locked, Idle
<1>6. Asks(r, engine) BY <1>1, <1>2, <1>11, <1>13 DEF WorkerType, Asks, Idle
<1>7. Finds(r, file') BY <1>1, <1>2, <1>11, <1>13 DEF WorkerType, Finds, Idle
<1>8. Filed(w) BY <1>1, <1>2, <1>3, <1>11, <1>13 DEF Filed, Idle
<1>9. /\ WholeIndexes'
      /\ r.pc = "idle" \/ (q.pc # "idle" /\ r.op = q.op /\ r.session = q.session)
  BY <1>1, <1>2, <1>11, <1>13 DEF WholeIndexes, Held, WorkerType, Idle
<1>10. /\ lock' = lock \/ (lock \in {w, None} /\ lock' \in {w, None})
       /\ lock \in {w, None}
            \/ (pending' = pending /\ \A j \in Identity : dir'[j] = None => dir[j] = None)
  BY <1>1, <1>2, <1>11, <1>13 DEF Locks, Locked, Idle
<1> HIDE DEF r
<1> QED BY <1>2, <1>3, <1>4, <1>5, <1>6, <1>7, <1>8, <1>9, <1>10, WorkerMoves DEF IInv

\* A query begins; index_lock keeps builders of one session apart.
LEMMA StartKeeps ==
    ASSUME IInv, NEW w \in Workers, NEW s \in Sessions, NEW op \in Ops, Start(w, s, op)
    PROVE  IInv'
PROOF
<1> DEFINE scope == IF op = "graph" /\ file[s]["all"] = None THEN "calls" ELSE "all"
           i == [input |-> InputOf[s], engine |-> engine, scope |-> scope]
           r == [Idle EXCEPT !.pc = "find", !.session = s, !.op = op, !.id = i]
<1>1. /\ Typed /\ WholeIndexes /\ Locks(w, worker[w], lock, pending, dir)
  BY DEF IInv
<1>2. /\ worker' = [worker EXCEPT ![w] = r] /\ worker[w].pc = "idle"
      /\ UNCHANGED <<engine, dir, newer, pending, lock, file>>
  BY DEF Start, Query, At
<1>3. /\ i \in Identity /\ i.input = InputOf[s] /\ i.engine = engine
      /\ (i.scope = "calls" => op = "graph")
  BY <1>1, IndexAssumption DEF Identity, Scopes, Typed
<1> HIDE DEF i
<1>4. r \in WorkerType /\ Typed'
  BY <1>1, <1>2, <1>3 DEF WorkerType, Places, Content, Typed, Idle
<1>5. /\ r.pc = "find" /\ r.op = op /\ r.session = s /\ r.id = i BY DEF Idle
<1> HIDE DEF r
<1>6. Locks(w, r, lock', pending', dir') BY <1>1, <1>2, <1>5 DEF Locks, Locked
<1>7. Asks(r, engine) BY <1>3, <1>5 DEF Asks, IndexOps
<1>8. Finds(r, file') BY <1>5 DEF Finds
<1>9. Filed(w) /\ WholeIndexes' BY <1>1, <1>2 DEF Filed, WholeIndexes, Held
<1>10. r.op \in IndexOps =>
         \A v \in Workers : ~(worker[v].session = r.session /\ worker[v].op \in IndexOps)
  BY <1>5 DEF Start
<1> QED BY <1>2, <1>4, <1>6, <1>7, <1>8, <1>9, <1>10, WorkerMoves

\* Damage, age and upgrades: no worker moves.
LEMMA DirectoryChanges ==
    ASSUME IInv, UNCHANGED <<newer, pending, lock, file, worker>>,
           engine' = engine \/ (engine' \in 0..MaxEngine /\ engine' >= engine
                                    /\ \A w \in Workers : At(w, "idle")),
           dir' \in [Identity -> Entry \cup {None}],
           \A j \in Identity : dir'[j] = None <=> dir[j] = None,
           \A j \in Identity : dir'[j] # None => dir'[j].holds = dir[j].holds
    PROVE  IInv'
PROOF
<1>1. Typed' BY DEF IInv, Typed
<1>2. ASSUME NEW w \in Workers
      PROVE  /\ Locks(w, worker[w], lock, pending, dir')
             /\ Asks(worker[w], engine') /\ Finds(worker[w], file')
  <2>1. /\ Locks(w, worker[w], lock, pending, dir) /\ Asks(worker[w], engine)
        /\ Finds(worker[w], file)
    BY <1>2 DEF IInv
  <2>2. Locks(w, worker[w], lock, pending, dir') BY <2>1 DEF Locks, Asks
  <2>3. Asks(worker[w], engine') BY <1>2, <2>1 DEF Asks, At
  <2> QED BY <2>1, <2>2, <2>3
<1>3. Exclusive' BY DEF IInv, Exclusive
<1>4. WholeIndexes' BY IndexAssumption DEF IInv, Typed, WholeIndexes, Held
<1> QED BY <1>1, <1>2, <1>3, <1>4 DEF IInv

\* The invariant holds at the start, whatever an earlier server left.
LEMMA InitKeeps ==
    ASSUME Init PROVE IInv
PROOF
<1>1. Idle \in WorkerType BY DEF Idle, WorkerType, Places, Content
<1>2. Typed
  <2>1. dir \in [Identity -> Entry \cup {None}] BY IndexAssumption DEF Init, Entry, Damage
  <2>2. newer \in [Identity -> SUBSET Identity] BY IndexAssumption DEF Init
  <2>3. file \in [Sessions -> [Scopes -> Content]] BY DEF Init, Content
  <2> QED BY <1>1, <2>1, <2>2, <2>3, IndexAssumption DEF Init, Typed
<1>3. \A w \in Workers : worker[w] = Idle /\ w # None BY NoneAssumption DEF Init
<1>4. \A w \in Workers : /\ Locks(w, worker[w], lock, pending, dir)
                         /\ Asks(worker[w], engine) /\ Finds(worker[w], file)
  BY <1>3 DEF Init, Locks, Locked, Asks, Finds, Idle
<1>5. Exclusive BY <1>3 DEF Exclusive, Idle
<1>6. WholeIndexes
  <2>1. \A s \in Sessions, c \in Scopes : file[s][c] = None BY DEF Init
  <2>2. \A k \in Held : dir[k].holds = k BY NoneAssumption DEF Init, Held
  <2> QED BY <2>1, <2>2 DEF WholeIndexes
<1> QED BY <1>2, <1>4, <1>5, <1>6 DEF IInv

\* Every step keeps it.
LEMMA StepKeeps ==
    ASSUME LiveUpgrade = FALSE, IInv, [Next]_vars
    PROVE  IInv'
PROOF
<1>1. ASSUME NEW w \in Workers, Step(w) PROVE IInv'
  <2>1. CASE Find(w) BY <1>1, <2>1, FindKeeps
  <2>2. CASE AlreadyThere(w) BY <1>1, <2>2, AlreadyThereKeeps
  <2>3. CASE BeginCopy(w) BY <1>1, <2>3, BeginCopyKeeps
  <2>4. CASE Copied(w) BY <1>1, <2>4, CopiedKeeps
  <2>5. CASE PublishNothing(w) BY <1>1, <2>5, PublishNothingKeeps
  <2>6. CASE Open(w) BY <1>1, <2>6, OpenKeeps
  <2>7. CASE OpenFails(w) BY <1>1, <2>7, OpenFailsKeeps
  <2>8. CASE Answer(w) BY <1>1, <2>8, AnswerKeeps
  <2>9. CASE Restored(w) BY <1>1, <2>9, RestoredKeeps
  <2>10. CASE Built(w) BY <1>1, <2>10, BuiltKeeps
  <2>11. CASE Clean(w) BY <1>1, <2>11, CleanKeeps
  <2>12. CASE Touch(w) BY <1>1, <2>12, TouchKeeps
  <2>13. CASE Swap(w) BY <1>1, <2>13, SwapKeeps
  <2>14. CASE LockRestore(w) BY <1>1, <2>14, LockRestoreKeeps DEF LockRestore
  <2>15. CASE NotRestored(w) BY <1>1, <2>15, NotRestoredKeeps DEF NotRestored, At
  <2>16. CASE ChecksumFails(w) BY <1>1, <2>16, NotRestoredKeeps DEF ChecksumFails, At
  <2>17. CASE Build(w)
    <3>1. worker[w].pc \notin Locked BY <2>17 DEF Build, At, Locked
    <3> QED BY <1>1, <2>17, <3>1, BuildKeeps, EndedKeeps DEF Build
  <2>18. CASE LockPublish(w) BY <1>1, <2>18, LockPublishKeeps DEF LockPublish
  <2>19. CASE Fill(w) BY <1>1, <2>19, FilledKeeps, FillFailsKeeps DEF Fill
  <2> QED
    BY <1>1, <2>1, <2>2, <2>3, <2>4, <2>5, <2>6, <2>7, <2>8, <2>9, <2>10, <2>11, <2>12,
       <2>13, <2>14, <2>15, <2>16, <2>17, <2>18, <2>19 DEF Step
<1>2. ASSUME NEW w \in Workers, NEW s \in Sessions, NEW op \in Ops, Start(w, s, op) PROVE IInv'
  BY <1>2, StartKeeps
<1>3. ASSUME NEW w \in Workers, Die(w) PROVE IInv' BY <1>3, DieKeeps
<1>4. ASSUME NEW w \in Workers, NEW D, NEW k, DieSweeping(w, D, k) PROVE IInv'
  BY <1>4, DieSweepingKeeps
<1>5. ASSUME NEW k \in Identity, NEW d \in Damage, Damaged(k, d) PROVE IInv'
  <2>1. dir[k] \in Entry /\ dir \in [Identity -> Entry \cup {None}] /\ None \notin Entry
    BY <1>5, NoneAssumption DEF Damaged, Held, IInv, Typed
  <2>2. /\ [dir[k] EXCEPT !.damage = d] \in Entry
        /\ [dir[k] EXCEPT !.damage = d].holds = dir[k].holds
    BY <1>5, <2>1 DEF Entry
  <2>3. dir' = [dir EXCEPT ![k] = [dir[k] EXCEPT !.damage = d]] BY <1>5, <2>1 DEF Damaged
  <2>4. dir' \in [Identity -> Entry \cup {None}] BY <2>1, <2>2, <2>3
  <2>5. \A j \in Identity : dir'[j] = None <=> dir[j] = None BY <2>1, <2>2, <2>3
  <2>6. \A j \in Identity : dir'[j] # None => dir'[j].holds = dir[j].holds
    BY <2>1, <2>2, <2>3
  <2> QED BY <1>5, <2>4, <2>5, <2>6, DirectoryChanges DEF Damaged
<1>6. ASSUME NEW k \in Identity, Age(k) PROVE IInv'
  <2>1. dir[k] \in Entry /\ dir \in [Identity -> Entry \cup {None}] /\ None \notin Entry
    BY <1>6, NoneAssumption DEF Age, Held, IInv, Typed
  <2>2. /\ [dir[k] EXCEPT !.aged = TRUE] \in Entry
        /\ [dir[k] EXCEPT !.aged = TRUE].holds = dir[k].holds
    BY <1>6, <2>1 DEF Entry
  <2>3. dir' = [dir EXCEPT ![k] = [dir[k] EXCEPT !.aged = TRUE]] BY <1>6, <2>1 DEF Age
  <2>4. dir' \in [Identity -> Entry \cup {None}] BY <2>1, <2>2, <2>3
  <2>5. \A j \in Identity : dir'[j] = None <=> dir[j] = None BY <2>1, <2>2, <2>3
  <2>6. \A j \in Identity : dir'[j] # None => dir'[j].holds = dir[j].holds
    BY <2>1, <2>2, <2>3
  <2> QED BY <1>6, <2>4, <2>5, <2>6, DirectoryChanges DEF Age
<1>7. ASSUME Upgrade PROVE IInv'
  <2>1. engine' \in 0..MaxEngine /\ engine' >= engine
    BY <1>7, IndexAssumption DEF Upgrade, IInv, Typed
  <2> QED BY <1>7, <2>1, DirectoryChanges DEF Upgrade, IInv, Typed
<1>8. CASE UNCHANGED vars BY <1>8, DirectoryChanges DEF vars, IInv, Typed
<1> QED BY <1>1, <1>2, <1>3, <1>4, <1>5, <1>6, <1>7, <1>8 DEF Next

\* So it holds in every state.
LEMMA IndexInductive ==
    ASSUME LiveUpgrade = FALSE PROVE Spec => []IInv
PROOF
<1>1. Init => IInv BY InitKeeps
<1>2. IInv /\ [Next]_vars => IInv' BY StepKeeps
<1> QED BY <1>1, <1>2, PTL DEF Spec

\* Every variable has its type, and cache.lock is held exactly by the worker
\* in a critical section (DurableIndexes._locked).
THEOREM IndexTypeOK ==
    ASSUME LiveUpgrade = FALSE PROVE Spec => []TypeOK
PROOF
<1>1. IInv => TypeOK BY DEF IInv, Typed, TypeOK, WorkerType, Locks
<1> QED BY <1>1, IndexInductive, PTL

\* Whatever is killed or damaged, an index file of a session is complete and
\* of the session's input and scope, and an undamaged entry of the directory is
\* what its key says (DurableIndexes.restore and publish, xref_index.query_index).
THEOREM IndexWholeIndexes ==
    ASSUME LiveUpgrade = FALSE PROVE Spec => []WholeIndexes
PROOF
<1>1. IInv => WholeIndexes BY DEF IInv
<1> QED BY <1>1, IndexInductive, PTL

\* The file a query found, restored or built is there when it opens it, and it
\* reads what was built by its own engine, beside all other workers.
THEOREM IndexOwnIndex ==
    ASSUME LiveUpgrade = FALSE PROVE Spec => []OwnIndex
PROOF
<1>1. IInv => OwnIndex BY DEF IInv, Finds, Asks, OwnIndex, Target, At
<1> QED BY <1>1, IndexInductive, PTL

-----------------------------------------------------------------------------

\* The directory can have finitely many entries.
LEMMA IdentitiesFinite == IsFiniteSet(Identity)
PROOF
<1> DEFINE T == (Inputs \X (0..MaxEngine)) \X Scopes
           f == [t \in T |-> [input |-> t[1][1], engine |-> t[1][2], scope |-> t[2]]]
<1>1. IsFiniteSet(Inputs) /\ IsFiniteSet(0..MaxEngine)
  BY IndexAssumption, FS_Interval
<1>2. IsFiniteSet(Scopes)
  <2>1. IsFiniteSet({"calls"}) BY FS_Singleton
  <2>2. IsFiniteSet({"calls"} \cup {"all"}) BY <2>1, FS_AddElement
  <2>3. Scopes = {"calls"} \cup {"all"} BY DEF Scopes
  <2> QED BY <2>2, <2>3
<1>3. IsFiniteSet(Inputs \X (0..MaxEngine)) BY <1>1, FS_Product
<1>4. IsFiniteSet(T) BY <1>2, <1>3, FS_Product
<1>5. f \in [T -> Identity] BY DEF Identity
<1>6. ASSUME NEW i \in Identity PROVE \E t \in T : f[t] = i
  <2>1. <<<<i.input, i.engine>>, i.scope>> \in T BY DEF Identity
  <2>2. f[<<<<i.input, i.engine>>, i.scope>>] = i BY <2>1 DEF Identity
  <2> QED BY <2>1, <2>2
<1>7. f \in Surjection(T, Identity) BY <1>5, <1>6 DEF Surjection
<1> QED BY <1>4, <1>7, FS_Surjection

\* Its bytes are a natural number,
LEMMA WeightType ==
    ASSUME NEW D PROVE Weight(D) \in Nat
PROOF
<1> DEFINE f == [k \in Identity |-> IF k \in Held \ D THEN Bytes[k] + ManifestLimit ELSE 0]
<1>1. f \in [Identity -> Nat] BY IndexAssumption
<1> QED BY <1>1, IdentitiesFinite, CellsFinite DEF Weight

\* none when it is empty.
LEMMA NothingWeighs == Weight(Held) = 0
PROOF
<1> DEFINE f == [k \in Identity |-> IF k \in Held \ Held THEN Bytes[k] + ManifestLimit ELSE 0]
<1>1. f \in [Identity -> Nat] /\ \A k \in Identity : f[k] = 0 BY IndexAssumption
<1> QED BY <1>1, TotalZero DEF Weight

\* Removing entries leaves the weight of the others.
LEMMA WeightAfter ==
    ASSUME NEW D, Held' = Held \ D PROVE Weight({})' = Weight(D)
PROOF
<1>1. Held' \ {} = Held \ D OBVIOUS
<1> QED BY <1>1 DEF Weight

\* Removing the oldest until the rest fits makes room.
LEMMA RoomMade ==
    ASSUME IInv, NEW D \in SUBSET Held, dir' = Without(D),
           NEW bytes \in Nat, NEW places \in {0, 1}, bytes <= Budget,
           Fits(D, bytes, places)
    PROVE  /\ Weight({})' + bytes <= Budget
           /\ Cardinality(Held') + places <= MaxEntries
PROOF
<1>1. Held' = Held \ D BY NoneAssumption DEF Held, Without, IInv, Typed
<1>2. Weight({})' = Weight(D) BY <1>1, WeightAfter
<1>3. CASE D = Held
  <2>1. Weight({})' = 0 BY <1>2, <1>3, NothingWeighs
  <2>2. Cardinality(Held') = 0 BY <1>1, <1>3, FS_EmptySet
  <2> QED BY <2>1, <2>2, IndexAssumption
<1>4. CASE D # Held BY <1>1, <1>2, <1>4 DEF Fits
<1> QED BY <1>3, <1>4

\* A step that leaves entries and lock alone, or gives the lock back.
LEMMA RoomKept ==
    ASSUME IInv, DurableBudget,
           lock' = None \/ (lock # None /\ pending' = pending /\ Held' = Held)
    PROVE  DurableBudget'
PROOF
<1>1. Held' = Held => Weight({})' = Weight({}) BY WeightAfter
<1> QED BY <1>1 DEF DurableBudget

\* Only two steps take the lock, and both make room first.
LEMMA BudgetStep ==
    ASSUME IInv, DurableBudget, [Next]_vars
    PROVE  DurableBudget'
PROOF
<1>1. ASSUME NEW w \in Workers, LockRestore(w) PROVE DurableBudget'
  <2>1. PICK D \in SUBSET Held : Swept(D) /\ dir' = Without(D) BY <1>1 DEF LockRestore
  <2>2. Fits(D, 0, 0) BY <2>1 DEF Swept, Evicted
  <2>3. Weight({})' + 0 <= Budget /\ Cardinality(Held') + 0 <= MaxEntries
    BY <2>1, <2>2, RoomMade, IndexAssumption
  <2> QED BY <1>1, <2>3 DEF LockRestore, DurableBudget
<1>2. ASSUME NEW w \in Workers, LockPublish(w) PROVE DurableBudget'
  <2> DEFINE i == worker[w].id
             size == Bytes[i] + ManifestLimit
  <2>1. PICK S \in SUBSET Held, D \in SUBSET Held : Making(w, S, D) /\ dir' = Without(D)
    BY <1>2 DEF LockPublish
  <2>2. i \in Identity /\ i # None
    BY <1>2, NoneAssumption DEF LockPublish, At, IInv, Asks
  <2>3. size \in Nat /\ size <= Budget
    BY <1>2, <2>2, IndexAssumption DEF LockPublish, TooLarge
  <2>4. Fits(D, size, 1) BY <2>1 DEF Making, Evicted
  <2>5. Weight({})' + size <= Budget /\ Cardinality(Held') + 1 <= MaxEntries
    BY <2>1, <2>3, <2>4, RoomMade
  <2>6. pending' = i BY <1>2 DEF LockPublish
  <2> QED BY <2>2, <2>5, <2>6 DEF DurableBudget
<1>3. ASSUME NEW w \in Workers, Step(w), ~LockRestore(w), ~LockPublish(w)
      PROVE  lock' = None \/ (UNCHANGED <<lock, pending, dir>>)
  BY <1>3 DEF Step, Find, NotRestored, AlreadyThere, BeginCopy, Copied, ChecksumFails,
     Restored,
     Touch, Clean, Build, Built, PublishNothing, Fill, Swap, Open, OpenFails, Answer, Unlock
<1>4. ASSUME UNCHANGED <<lock, pending, dir>> PROVE DurableBudget'
  BY <1>4, WeightAfter DEF DurableBudget, Held, Weight
<1>5. ASSUME NEW w \in Workers, NEW s \in Sessions, NEW op \in Ops, Start(w, s, op)
      PROVE  DurableBudget'
  BY <1>4, <1>5 DEF Start
<1>6. ASSUME NEW w \in Workers, Die(w) PROVE DurableBudget'
  BY <1>4, <1>6, RoomKept DEF Die
<1>7. ASSUME NEW w \in Workers, NEW D, NEW k, DieSweeping(w, D, k) PROVE DurableBudget'
  BY <1>7, RoomKept DEF DieSweeping
<1>8. ASSUME NEW k \in Identity, NEW d \in Damage, Damaged(k, d) PROVE DurableBudget'
  <2>1. dir[k] \in Entry /\ None \notin Entry
    BY <1>8, NoneAssumption DEF Damaged, Held, IInv, Typed
  <2>2. [dir[k] EXCEPT !.damage = d] \in Entry BY <1>8, <2>1 DEF Entry
  <2>3. dir' = [dir EXCEPT ![k] = [dir[k] EXCEPT !.damage = d]] BY <1>8, <2>1 DEF Damaged
  <2>4. Held' = Held BY <2>1, <2>2, <2>3 DEF Held, IInv, Typed
  <2> QED BY <1>8, <2>4, RoomKept DEF Damaged, DurableBudget
<1>9. ASSUME NEW k \in Identity, Age(k) PROVE DurableBudget'
  <2>1. dir[k] \in Entry /\ None \notin Entry
    BY <1>9, NoneAssumption DEF Age, Held, IInv, Typed
  <2>2. [dir[k] EXCEPT !.aged = TRUE] \in Entry BY <1>9, <2>1 DEF Entry
  <2>3. dir' = [dir EXCEPT ![k] = [dir[k] EXCEPT !.aged = TRUE]] BY <1>9, <2>1 DEF Age
  <2>4. Held' = Held BY <2>1, <2>2, <2>3 DEF Held, IInv, Typed
  <2> QED BY <1>9, <2>4, RoomKept DEF Age, DurableBudget
<1>10. ASSUME Upgrade \/ UNCHANGED vars PROVE DurableBudget'
  BY <1>4, <1>10 DEF Upgrade, vars
<1>11. ASSUME NEW w \in Workers, Step(w) PROVE DurableBudget'
  BY <1>1, <1>2, <1>3, <1>4, <1>11, RoomKept
<1> QED BY <1>5, <1>6, <1>7, <1>8, <1>9, <1>10, <1>11 DEF Next

\* Whoever holds cache.lock finds the directory within its bytes and its number
\* of entries, what is being written included (DurableIndexes._entries, publish).
THEOREM IndexDurableBudget ==
    ASSUME LiveUpgrade = FALSE PROVE Spec => []DurableBudget
PROOF
<1>1. Init => DurableBudget BY DEF Init, DurableBudget
<1>2. IInv /\ DurableBudget /\ [Next]_vars => DurableBudget' BY BudgetStep
<1> QED BY <1>1, <1>2, IndexInductive, PTL DEF Spec
=============================================================================
