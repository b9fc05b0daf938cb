----------------------------- MODULE IndexCache -----------------------------
(***************************************************************************)
(* The SQLite indexes of the sessions and the durable directory of copies  *)
(* that all server processes share (xref_index.query_index,                *)
(* native_index.build, durable_index.DurableIndexes).                      *)
(*                                                                         *)
(* Each query runs in a worker process of its own that may be killed at    *)
(* any moment; the kernel then releases its file lock.  Operations on the  *)
(* directory hold that lock, operations on a session's files do not: there *)
(* os.replace makes a file appear as a whole.  The content of an index is  *)
(* the identity it was built for; an entry of the directory can be damaged *)
(* from outside, in its manifest or in its bytes.                          *)
(*                                                                         *)
(* DROIDASC_MCP_XREF_CACHE_DIR is set.  A file's size follows from its     *)
(* identity, and each manifest counts with its limit.                      *)
(***************************************************************************)
EXTENDS Integers, FiniteSets, Totals

CONSTANTS
    Workers,       \* worker processes, each serves one query at a time
    Sessions,      \* open sessions
    Inputs,        \* input hashes (input_id)
    InputOf,       \* session -> its input
    Bytes,         \* identity -> size of its index
    IndexLimit,    \* settings.max_xref_index_bytes
    Budget,        \* settings.max_xref_cache_bytes
    ManifestLimit, \* _MANIFEST_LIMIT
    MaxEntries,    \* _MAX_ENTRIES
    Leftover,      \* identities that an earlier server left in the directory
    MaxEngine,     \* bound: how often the engine is upgraded
    LiveUpgrade,   \* whether it is upgraded while queries run
    Junk,          \* the content of a damaged copy
    None

Scopes == {"calls", "all"}
Identity == [input : Inputs, engine : 0..MaxEngine, scope : Scopes]

ASSUME IndexAssumption ==
    /\ IsFiniteSet(Inputs) /\ InputOf \in [Sessions -> Inputs] /\ Bytes \in [Identity -> Nat]
    /\ {IndexLimit, Budget, ManifestLimit, MaxEngine} \subseteq Nat /\ MaxEntries \in Nat \ {0}
    /\ Leftover \subseteq Identity /\ LiveUpgrade \in BOOLEAN

Damage == {"no", "manifest", "bytes"}
Entry == [holds : Identity, damage : Damage, aged : BOOLEAN]

ASSUME NoneAssumption == None \notin Workers \cup Identity \cup Entry \cup Sessions \cup {Junk}

VARIABLES
    engine,   \* the version of the installed package
    dir,      \* the directory: identity (the key) -> its entry
    newer,    \* identity -> the entries with a later mtime
    pending,  \* "pending": None, or what its index.sqlite will hold
    lock,     \* who holds cache.lock
    file,     \* session -> scope -> identity its index was built for, or None
    worker    \* worker -> its query and how far it is

vars == <<engine, dir, newer, pending, lock, file, worker>>

\* build_xref_index and find_type_refs, get_call_graph, exact references
Ops == {"build", "graph", "native"}
Idle == [pc |-> "idle", session |-> None, op |-> None, id |-> None, reused |-> FALSE,
         copy |-> None, reads |-> None]

Init ==
    /\ engine = 0
    /\ dir = [k \in Identity |-> IF k \in Leftover
                THEN [holds |-> k, damage |-> "no", aged |-> FALSE] ELSE None]
    /\ newer \in [Identity -> SUBSET Leftover]
    /\ \A k \in Identity : k \notin newer[k] /\ (k \notin Leftover => newer[k] = {})
    /\ \A j, k \in Leftover : j # k => (j \in newer[k] <=> k \notin newer[j])
    /\ \A i, j, k \in Leftover : j \in newer[i] /\ k \in newer[j] => k \in newer[i]
    /\ pending = None /\ lock = None
    /\ file = [s \in Sessions |-> [c \in Scopes |-> None]]
    /\ worker = [w \in Workers |-> Idle]

At(w, place) == worker[w].pc = place
Goto(w, place) == worker' = [worker EXCEPT ![w].pc = place]
Target(w) == file[worker[w].session][worker[w].id.scope]

\* A worker that cannot answer from an index scans, or reports an error; in
\* either case its process ends.
End(w) == worker' = [worker EXCEPT ![w] = Idle]

-----------------------------------------------------------------------------

Held == {k \in Identity : dir[k] # None}
Weight(D) == Total([k \in Identity |->
                IF k \in Held \ D THEN Bytes[k] + ManifestLimit ELSE 0])

\* The directory when the entries of D are removed, and its order by mtime;
\* Latest also gives k the latest time.
Without(D) == [k \in Identity |-> IF k \in D THEN None ELSE dir[k]]
OrderWithout(D) == [k \in Identity |-> IF k \in D THEN {} ELSE newer[k] \ D]
Latest(D, k) ==
    [j \in Identity |-> IF j \in (Held \ D) \ {k} THEN (newer[j] \ D) \cup {k} ELSE {}]

Aged == {k \in Held : dir[k].aged}

\* Removing the oldest entries after those of R, until `fits' holds: the sets
\* removed, R included.
Removals(R) == {D \in SUBSET Held : R \subseteq D /\ \A k \in D \ R, j \in Held \ D : j \in newer[k]}
Fits(D, bytes, places) ==
    \/ D = Held
    \/ /\ Weight(D) + bytes <= Budget
       /\ Cardinality(Held \ D) + places <= MaxEntries
Evicted(D, R, bytes, places) ==
    /\ D \in Removals(R) /\ Fits(D, bytes, places)
    /\ \A C \in Removals(R) : Fits(C, bytes, places) => D \subseteq C

\* _entries: what every holder of the lock removes first; "pending" of a dead
\* writer goes too.
Swept(D) == Evicted(D, Aged, 0, 0)

Lock(w) == lock = None /\ lock' = w
Unlock == lock' = None

-----------------------------------------------------------------------------

IndexOps == {"build", "graph"}

\* A query begins: calls_only, target and identity.
Query(w, s, op) ==
    LET scope == IF op = "graph" /\ file[s]["all"] = None THEN "calls" ELSE "all"
    IN  worker' = [worker EXCEPT ![w] = [Idle EXCEPT !.pc = "find", !.session = s, !.op = op,
            !.id = [input |-> InputOf[s], engine |-> engine, scope |-> scope]]]

\* Mutant: operations that build an index run side by side.
StartUnlocked(w, s, op) ==
    /\ At(w, "idle") /\ Query(w, s, op)
    /\ UNCHANGED <<engine, dir, newer, pending, lock, file>>

\* Operations that build an index hold the session's index_lock; reads of
\* references run beside them under their own stripes.
Start(w, s, op) ==
    /\ At(w, "idle") /\ Query(w, s, op)
    /\ op \in IndexOps => \A v \in Workers : ~(worker[v].session = s /\ worker[v].op \in IndexOps)
    /\ UNCHANGED <<engine, dir, newer, pending, lock, file>>

\* target.is_file()
Find(w) ==
    /\ At(w, "find")
    /\ worker' = [worker EXCEPT ![w].reused = Target(w) # None,
                                ![w].pc = IF Target(w) # None THEN "open" ELSE "restore"]
    /\ UNCHANGED <<engine, dir, newer, pending, lock, file>>

LockRestore(w) ==
    /\ At(w, "restore") /\ Lock(w)
    /\ \E D \in SUBSET Held : Swept(D) /\ dir' = Without(D) /\ newer' = OrderWithout(D)
    /\ pending' = None
    /\ Goto(w, "check")
    /\ UNCHANGED <<engine, file>>

\* restore returned False: only an operation that needs the index builds it.
GiveUp(w) == IF worker[w].op \in IndexOps THEN Goto(w, "clean") ELSE End(w)

\* There is no entry, or its manifest does not fit: such an entry is removed.
NotRestored(w) ==
    /\ At(w, "check")
    /\ dir[worker[w].id] # None => dir[worker[w].id].damage = "manifest"
    /\ dir' = Without({worker[w].id}) /\ newer' = OrderWithout({worker[w].id})
    /\ Unlock /\ GiveUp(w)
    /\ UNCHANGED <<engine, pending, file>>

Matches(w) == dir[worker[w].id] # None /\ dir[worker[w].id].damage # "manifest"

\* Another worker was faster: its file stays.
AlreadyThere(w) ==
    /\ At(w, "check") /\ Matches(w) /\ Target(w) # None
    /\ Unlock
    /\ worker' = [worker EXCEPT ![w].reused = TRUE, ![w].pc = "open"]
    /\ UNCHANGED <<engine, dir, newer, pending, file>>

BeginCopy(w) ==
    /\ At(w, "check") /\ Matches(w) /\ Target(w) = None
    /\ Goto(w, "copy")
    /\ UNCHANGED <<engine, dir, newer, pending, lock, file>>

\* Mutant: the checksum of the copy is not compared.
CopiedUnchecked(w) ==
    /\ At(w, "copy")
    /\ worker' = [worker EXCEPT ![w].pc = "replace",
            ![w].copy = IF dir[worker[w].id].damage = "no" THEN dir[worker[w].id].holds ELSE Junk]
    /\ UNCHANGED <<engine, dir, newer, pending, lock, file>>

\* The copy in the private workspace is complete and its digest is known.
Copied(w) ==
    /\ At(w, "copy") /\ dir[worker[w].id].damage = "no"
    /\ worker' = [worker EXCEPT ![w].copy = dir[worker[w].id].holds, ![w].pc = "replace"]
    /\ UNCHANGED <<engine, dir, newer, pending, lock, file>>

\* Damaged entries are rebuildable, never evidence.
ChecksumFails(w) ==
    /\ At(w, "copy") /\ dir[worker[w].id].damage # "no"
    /\ dir' = Without({worker[w].id}) /\ newer' = OrderWithout({worker[w].id})
    /\ Unlock /\ GiveUp(w)
    /\ UNCHANGED <<engine, pending, file>>

Install(w, next) ==
    /\ file' = [file EXCEPT ![worker[w].session][worker[w].id.scope] = worker[w].copy]
    /\ worker' = [worker EXCEPT ![w].copy = None, ![w].pc = next]

\* os.replace(temporary, target)
Restored(w) ==
    /\ At(w, "replace") /\ Install(w, "touch")
    /\ UNCHANGED <<engine, dir, newer, pending, lock>>

\* os.utime(entry, None)
Touch(w) ==
    /\ At(w, "touch") /\ Unlock
    /\ dir' = [dir EXCEPT ![worker[w].id].aged = FALSE]
    /\ newer' = Latest({}, worker[w].id)
    /\ worker' = [worker EXCEPT ![w].reused = TRUE, ![w].pc = "open"]
    /\ UNCHANGED <<engine, pending, file>>

-----------------------------------------------------------------------------

\* A complete index makes the calls-only one superfluous.
Clean(w) ==
    /\ At(w, "clean")
    /\ file' = IF worker[w].id.scope = "all"
               THEN [file EXCEPT ![worker[w].session]["calls"] = None] ELSE file
    /\ Goto(w, "build")
    /\ UNCHANGED <<engine, dir, newer, pending, lock>>

\* The index is written in the workspace; records may be malformed and the
\* result too large, then nothing is published.
Build(w) ==
    /\ At(w, "build")
    /\ \/ /\ Bytes[worker[w].id] <= IndexLimit
          /\ worker' = [worker EXCEPT ![w].copy = worker[w].id, ![w].pc = "built"]
       \/ End(w)
    /\ UNCHANGED <<engine, dir, newer, pending, lock, file>>

Built(w) ==
    /\ At(w, "built") /\ Install(w, "publish")
    /\ UNCHANGED <<engine, dir, newer, pending, lock>>

TooLarge(w) == Bytes[worker[w].id] + ManifestLimit > Budget

PublishNothing(w) ==
    /\ At(w, "publish") /\ TooLarge(w)
    /\ Goto(w, "open")
    /\ UNCHANGED <<engine, dir, newer, pending, lock, file>>

\* Mutant: room is made without the entry about to be written.
LockPublishFull(w) ==
    /\ At(w, "publish") /\ ~TooLarge(w) /\ Lock(w)
    /\ \E D \in SUBSET Held :
        /\ Swept(D)
        /\ dir' = Without(D \cup {worker[w].id}) /\ newer' = OrderWithout(D \cup {worker[w].id})
    /\ pending' = worker[w].id
    /\ Goto(w, "fill")
    /\ UNCHANGED <<engine, file>>

\* After the sweep of S: the old copy goes, then the oldest until the new one fits.
Making(w, S, D) ==
    Evicted(D, S \cup ({worker[w].id} \cap Held), Bytes[worker[w].id] + ManifestLimit, 1)

\* Sweep, drop the old copy, evict until the new one fits, mkdir pending.
LockPublish(w) ==
    /\ At(w, "publish") /\ ~TooLarge(w) /\ Lock(w)
    /\ \E S \in SUBSET Held, D \in SUBSET Held :
        /\ Swept(S)
        /\ Making(w, S, D)
        /\ dir' = Without(D) /\ newer' = OrderWithout(D)
    /\ pending' = worker[w].id
    /\ Goto(w, "fill")
    /\ UNCHANGED <<engine, file>>

\* Copy and manifest are on disk; copying can also fail.
Fill(w) ==
    /\ At(w, "fill")
    /\ \/ /\ worker' = [worker EXCEPT ![w].copy = Target(w), ![w].pc = "swap"]
          /\ UNCHANGED <<pending, lock>>
       \/ End(w) /\ pending' = None /\ Unlock
    /\ UNCHANGED <<engine, dir, newer, file>>

\* os.replace(pending, destination)
Swap(w) ==
    /\ At(w, "swap") /\ Unlock
    /\ dir' = [dir EXCEPT ![worker[w].id] =
                [holds |-> worker[w].copy, damage |-> "no", aged |-> FALSE]]
    /\ newer' = Latest({}, worker[w].id)
    /\ pending' = None
    /\ worker' = [worker EXCEPT ![w].copy = None, ![w].pc = "open"]
    /\ UNCHANGED <<engine, file>>

-----------------------------------------------------------------------------

\* Mutant: a file that was found is read without asking for its identity.
OpenAny(w) ==
    /\ At(w, "open") /\ Target(w) # None
    /\ worker' = [worker EXCEPT ![w].reads = Target(w), ![w].pc = "read"]
    /\ UNCHANGED <<engine, dir, newer, pending, lock, file>>

\* A file that was found or restored must have the identity asked for.
Open(w) ==
    /\ At(w, "open") /\ Target(w) # None
    /\ worker[w].reused => Target(w) = worker[w].id
    /\ worker' = [worker EXCEPT ![w].reads = Target(w), ![w].pc = "read"]
    /\ UNCHANGED <<engine, dir, newer, pending, lock, file>>

\* index_identity_changed, or there is nothing to open.
OpenFails(w) ==
    /\ At(w, "open")
    /\ Target(w) = None \/ (worker[w].reused /\ Target(w) # worker[w].id)
    /\ End(w)
    /\ UNCHANGED <<engine, dir, newer, pending, lock, file>>

Answer(w) ==
    /\ At(w, "read") /\ End(w)
    /\ UNCHANGED <<engine, dir, newer, pending, lock, file>>

-----------------------------------------------------------------------------

\* Mutant: the lock stays with a process that is gone.
DieHolding(w) ==
    /\ ~At(w, "idle") /\ End(w)
    /\ UNCHANGED <<engine, dir, newer, pending, lock, file>>

\* A worker is killed.  What it has written stays: in the directory at most
\* "pending", which the next holder of the lock removes.
Die(w) ==
    /\ ~At(w, "idle") /\ End(w)
    /\ lock' = IF lock = w THEN None ELSE lock
    /\ UNCHANGED <<engine, dir, newer, pending, file>>

\* What the critical section that w is about to enter removes.
Doomed(w) == {k \in Held : \E S \in SUBSET Held : Swept(S) /\
    \/ k \in S
    \/ /\ At(w, "publish") /\ ~TooLarge(w)
       /\ \E D \in SUBSET Held : Making(w, S, D) /\ k \in D}

\* It is killed while it removes entries: some are gone, in whatever order, and
\* one has lost a file and got a new mtime by that.
DieSweeping(w, D, k) ==
    /\ worker[w].pc \in {"restore", "publish"} /\ lock = None
    /\ D \cup {k} \subseteq Doomed(w) /\ k \notin D
    /\ dir' = [Without(D) EXCEPT ![k].damage = "manifest", ![k].aged = FALSE]
    /\ newer' = Latest(D, k)
    /\ pending' \in {pending, None}
    /\ End(w)
    /\ UNCHANGED <<engine, lock, file>>

\* Bytes of the directory change on disk.
Damaged(k, d) ==
    /\ k \in Held /\ dir[k].damage = "no" /\ d # "no"
    /\ dir' = [dir EXCEPT ![k].damage = d]
    /\ UNCHANGED <<engine, newer, pending, lock, file, worker>>

\* The TTL passes; entries age in any order.
Age(k) ==
    /\ k \in Held \ Aged
    /\ dir' = [dir EXCEPT ![k].aged = TRUE]
    /\ UNCHANGED <<engine, newer, pending, lock, file, worker>>

Upgrade ==
    /\ engine < MaxEngine
    /\ LiveUpgrade \/ \A w \in Workers : At(w, "idle")
    /\ engine' = engine + 1
    /\ UNCHANGED <<dir, newer, pending, lock, file, worker>>

Step(w) ==
    \/ Find(w)
    \/ LockRestore(w) \/ NotRestored(w) \/ AlreadyThere(w) \/ BeginCopy(w)
    \/ Copied(w) \/ ChecksumFails(w) \/ Restored(w) \/ Touch(w)
    \/ Clean(w) \/ Build(w) \/ Built(w)
    \/ PublishNothing(w) \/ LockPublish(w) \/ Fill(w) \/ Swap(w)
    \/ Open(w) \/ OpenFails(w) \/ Answer(w)

Next ==
    \/ \E w \in Workers :
        \/ \E s \in Sessions, op \in Ops : Start(w, s, op)
        \/ Step(w)
        \/ Die(w)
        \/ \E D \in SUBSET Held, k \in Held : DieSweeping(w, D, k)
    \/ \E k \in Identity, d \in Damage : Damaged(k, d)
    \/ \E k \in Identity : Age(k)
    \/ Upgrade

Spec == Init /\ [][Next]_vars

-----------------------------------------------------------------------------

Places == {"idle", "find", "restore", "check", "copy", "replace", "touch", "clean",
           "build", "built", "publish", "fill", "swap", "open", "read"}
Locked == {"check", "copy", "replace", "touch", "fill", "swap"}
Content == Identity \cup {Junk, None}

\* Every variable has its type; the lock is held exactly by the worker in a
\* critical section, and "pending" is its own while it fills it.
TypeOK ==
    /\ engine \in 0..MaxEngine
    /\ dir \in [Identity -> Entry \cup {None}]
    /\ newer \in [Identity -> SUBSET Identity]
    /\ pending \in Identity \cup {None}
    /\ lock \in Workers \cup {None}
    /\ file \in [Sessions -> [Scopes -> Content]]
    /\ worker \in [Workers ->
        [pc : Places, session : Sessions \cup {None}, op : Ops \cup {None},
         id : Identity \cup {None}, reused : BOOLEAN, copy : Content, reads : Content]]
    /\ \A w \in Workers : worker[w].pc \in Locked <=> lock = w
    /\ \A w \in Workers : worker[w].pc \in {"fill", "swap"} => pending = worker[w].id

\* Whatever is killed or damaged, an index file of a session is complete and
\* was built from the session's input for its scope, and an entry of the
\* directory whose checksum is right holds what its key says.
WholeIndexes ==
    /\ \A s \in Sessions, c \in Scopes : file[s][c] # None =>
        file[s][c] \in [input : {InputOf[s]}, engine : 0..engine, scope : {c}]
    /\ \A k \in Held : dir[k].holds = k

\* The file a worker has decided to read is still there when it opens it, and
\* what it reads was built by the engine that its answer names.
OwnIndex ==
    \A w \in Workers :
        /\ At(w, "open") => Target(w) # None
        /\ At(w, "read") => worker[w].reads = worker[w].id

\* Whoever holds the lock finds the directory within its bytes and its number
\* of entries, the one being written and what a dead writer left included.
DurableBudget ==
    LET written == IF pending = None THEN 0 ELSE Bytes[pending] + ManifestLimit
        places == IF pending = None THEN 0 ELSE 1
    IN  lock # None => /\ Weight({}) + written <= Budget
                       /\ Cardinality(Held) + places <= MaxEntries

\* "Keep combined indexes within the single reserved index budget."
CombinedBudget ==
    \A s \in Sessions : Total([c \in Scopes |-> IF file[s][c] \in Identity THEN Bytes[file[s][c]] ELSE 0])
                            <= IndexLimit
=============================================================================
