---------------------------- MODULE SnapshotCache ----------------------------
(***************************************************************************)
(* The snapshots of CLI output that DroidAscRunner shares between calls    *)
(* (runner.py, _get_snapshot).  A call that misses the cache leads: it     *)
(* runs a worker and publishes the snapshot through a Future; an identical *)
(* call that arrives meanwhile follows it.  The file may change at any     *)
(* moment, and a worker reads it while it changes.                         *)
(*                                                                         *)
(* A snapshot is what it was made from: the query and the versions of the  *)
(* file that the worker met.  A critical section of the cache lock is one  *)
(* action.  A Future that nobody refers to any more is free again.         *)
(***************************************************************************)
EXTENDS Integers, FiniteSets, Functions, Totals

CONSTANTS
    Callers,      \* worker threads that serve tool calls
    Queries,      \* command lines
    Futures,      \* identities of Future objects
    None,         \* no future, no key, no entry, no snapshot
    MaxVersion,   \* bound: how often the file changes
    MaxParallel,  \* settings.max_parallel
    MaxEntries,   \* 8 in the code
    MaxBytes      \* settings.max_output_bytes

ASSUME BoundsAssumption ==
    /\ {MaxVersion, MaxParallel, MaxEntries, MaxBytes} \subseteq Nat
    /\ MaxParallel > 0 /\ MaxEntries > 0

VARIABLES
    file,      \* the version of the APK: its device, inode, size and times
    cache,     \* DroidAscRunner._cache, None for an absent key
    newer,     \* key -> the cached keys after it in the order of _cache
    inflight,  \* DroidAscRunner._inflight, None for an absent key
    future,    \* the state of each Future
    pc,        \* caller -> where its call stands
    want,      \* caller -> the key of its call
    wait,      \* caller -> the Future it leads or follows
    seen,      \* caller -> versions that the file has had during its worker
    result     \* caller -> its snapshot; None on return is an exception

vars == <<file, cache, newer, inflight, future, pc, want, wait, seen, result>>

Versions == 0..MaxVersion
Key == [query : Queries, version : Versions]
Snapshot == [query : Queries, reads : (SUBSET Versions) \ {{}}, size : 1..MaxBytes]
Entry == [snapshot : Snapshot, aged : BOOLEAN]
Future == [state : {"pending", "failed", "cancelled"}, value : {None}]
              \cup [state : {"done"}, value : Snapshot]

ASSUME NoneAssumption == None \notin Futures \cup Key \cup Entry \cup Snapshot

Pending == [state |-> "pending", value |-> None]

Init ==
    /\ file = 0
    /\ cache = [k \in Key |-> None] /\ newer = [k \in Key |-> {}]
    /\ inflight = [k \in Key |-> None]
    /\ future = [f \in Futures |-> Pending]
    /\ pc = [t \in Callers |-> "idle"]
    /\ want = [t \in Callers |-> None]
    /\ wait = [t \in Callers |-> None]
    /\ seen = [t \in Callers |-> {}]
    /\ result = [t \in Callers |-> None]

Goto(t, place) == pc' = [pc EXCEPT ![t] = place]

-----------------------------------------------------------------------------

\* apk.stat() when a call begins, or begins again: the key is the query and
\* the version of the file.
Stat(t, q) ==
    /\ \/ pc[t] = "idle"
       \/ pc[t] = "again" /\ q = want[t].query
    /\ want' = [want EXCEPT ![t] = [query |-> q, version |-> file]]
    /\ Goto(t, "lookup")
    /\ UNCHANGED <<file, cache, newer, inflight, future, wait, seen, result>>

Held == {k \in Key : cache[k] # None}

\* The cache and the order of its keys when those of D are deleted.
Without(D) == [k \in Key |-> IF k \in D THEN None ELSE cache[k]]
OrderWithout(D) == [k \in Key |-> IF k \in D THEN {} ELSE newer[k] \ D]
\* The same, with k moved or added to the end.
OrderThen(D, k) ==
    [j \in Key |-> IF j \in (Held \ D) \ {k} THEN (newer[j] \ D) \cup {k} ELSE {}]

\* The entries older than 60 seconds; each lookup deletes them first.
Old == {k \in Held : cache[k].aged}

Hit(t) ==
    /\ pc[t] = "lookup" /\ want[t] \in Held \ Old
    /\ cache' = Without(Old) /\ newer' = OrderThen(Old, want[t])
    /\ result' = [result EXCEPT ![t] = cache[want[t]].snapshot]
    /\ Goto(t, "return")
    /\ UNCHANGED <<file, inflight, future, want, wait, seen>>

Miss(t) ==
    /\ pc[t] = "lookup" /\ want[t] \notin Held \ Old
    /\ cache' = Without(Old) /\ newer' = OrderWithout(Old)

Join(t) ==
    /\ Miss(t)
    /\ inflight[want[t]] # None
    /\ wait' = [wait EXCEPT ![t] = inflight[want[t]]]
    /\ Goto(t, "follow")
    /\ UNCHANGED <<file, inflight, future, want, seen, result>>

Unused == Futures \ (Range(wait) \cup Range(inflight))

Lead(t, f) ==
    /\ Miss(t)
    /\ inflight[want[t]] = None /\ f \in Unused
    /\ future' = [future EXCEPT ![f] = Pending]
    /\ inflight' = [inflight EXCEPT ![want[t]] = f]
    /\ wait' = [wait EXCEPT ![t] = f]
    /\ Goto(t, "slot")
    /\ UNCHANGED <<file, want, seen, result>>

-----------------------------------------------------------------------------

\* The leader takes one of the slots that all workers share.
Running == {t \in Callers : pc[t] \in {"run", "check"}}

TakeSlot(t) ==
    /\ pc[t] = "slot" /\ Cardinality(Running) < MaxParallel
    /\ seen' = [seen EXCEPT ![t] = {file}]
    /\ Goto(t, "run")
    /\ UNCHANGED <<file, cache, newer, inflight, future, want, wait, result>>

\* _execute: what the worker printed comes from versions it met, and nobody
\* knows yet how large the snapshot of it will be.
WorkerEnds(t, reads, n) ==
    /\ pc[t] = "run" /\ reads \in (SUBSET seen[t]) \ {{}}
    /\ result' = [result EXCEPT ![t] = [query |-> want[t].query, reads |-> reads, size |-> n]]
    /\ Goto(t, "check")
    /\ UNCHANGED <<file, cache, newer, inflight, future, want, wait, seen>>

\* Mutant: the file is not looked at again after the worker.
SameFileAssumed(t) ==
    /\ pc[t] = "check"
    /\ seen' = [seen EXCEPT ![t] = {}]
    /\ Goto(t, "insert")
    /\ UNCHANGED <<file, cache, newer, inflight, future, want, wait, result>>

\* The second apk.stat() and Snapshot.build; the slot is free again.
SameFile(t) ==
    /\ pc[t] = "check" /\ file = want[t].version
    /\ seen' = [seen EXCEPT ![t] = {}]
    /\ Goto(t, "insert")
    /\ UNCHANGED <<file, cache, newer, inflight, future, want, wait, result>>

\* sum(entry.size_bytes for ...) without the entries of D.
SizesWithout(D) == [k \in Key |-> IF k \in Held \ D THEN cache[k].snapshot.size ELSE 0]
Bytes == Total(SizesWithout({}))

\* The sets that popping the first entry again and again deletes.
Oldest == {D \in SUBSET Held : \A k \in D, j \in Held \ D : j \in newer[k]}

Fits(D, n) == D = Held \/ Total(SizesWithout(D)) + n <= MaxBytes

\* The fewest that make n more bytes fit.
Enough(B, n) == B \in Oldest /\ Fits(B, n) /\ \A C \in Oldest : Fits(C, n) => B \subseteq C

\* Mutant: one entry too many is kept.
EvictedLate(D, n) ==
    \E B \in SUBSET Held : Enough(B, n) /\
        IF Cardinality(Held \ B) > MaxEntries
        THEN D \in Oldest /\ B \subseteq D /\ Cardinality(D \ B) = 1
        ELSE D = B

\* As many as it takes until n more bytes fit, and one more if the cache is
\* still full.
Evicted(D, n) ==
    \E B \in SUBSET Held : Enough(B, n) /\
        IF Cardinality(Held \ B) >= MaxEntries
        THEN D \in Oldest /\ B \subseteq D /\ Cardinality(D \ B) = 1
        ELSE D = B

\* The key is new to the cache (SoleExecution), so it goes to the end.
Insert(t, D) ==
    /\ pc[t] = "insert" /\ Evicted(D, result[t].size)
    /\ cache' = [Without(D) EXCEPT ![want[t]] = [snapshot |-> result[t], aged |-> FALSE]]
    /\ newer' = OrderThen(D, want[t])
    /\ Goto(t, "publish")
    /\ UNCHANGED <<file, inflight, future, want, wait, seen, result>>

\* Mutant: the Future is resolved before the snapshot is handed over.
PublishNothing(t) ==
    /\ pc[t] = "publish"
    /\ future' = [future EXCEPT ![wait[t]].state = "done"]
    /\ Goto(t, "pop")
    /\ UNCHANGED <<file, cache, newer, inflight, want, wait, seen, result>>

\* pending.set_result
Publish(t) ==
    /\ pc[t] = "publish"
    /\ future' = [future EXCEPT ![wait[t]] = [state |-> "done", value |-> result[t]]]
    /\ Goto(t, "pop")
    /\ UNCHANGED <<file, cache, newer, inflight, want, wait, seen, result>>

\* Up to the critical section of the insertion the leader may fail or be
\* cancelled; a file that changed always fails it.
Fallible == {"slot", "run", "check", "insert"}

\* Mutant: only a successful leader removes its registration.
ResolveOnly(t, state) ==
    /\ pc[t] \in Fallible
    /\ future' = [future EXCEPT ![wait[t]].state = state]
    /\ seen' = [seen EXCEPT ![t] = {}]
    /\ result' = [result EXCEPT ![t] = None]
    /\ wait' = [wait EXCEPT ![t] = None]
    /\ Goto(t, "return")
    /\ UNCHANGED <<file, cache, newer, inflight, want>>

Resolve(t, state) ==
    /\ pc[t] \in Fallible
    /\ future' = [future EXCEPT ![wait[t]].state = state]
    /\ seen' = [seen EXCEPT ![t] = {}]
    /\ result' = [result EXCEPT ![t] = None]
    /\ Goto(t, "pop")
    /\ UNCHANGED <<file, cache, newer, inflight, want, wait>>

Fail(t) == Resolve(t, "failed")

\* Mutant: only exceptions of class Exception reach the followers.
CancelSilently(t) == Resolve(t, "pending")

Cancel(t) == Resolve(t, "cancelled")

\* Mutant: whatever is registered under the key is removed.
UnregisterAny(t) == inflight' = [inflight EXCEPT ![want[t]] = None]

\* The key is removed only if it still stands for this Future.
Unregister(t) ==
    inflight' = IF inflight[want[t]] = wait[t] THEN [inflight EXCEPT ![want[t]] = None]
                                               ELSE inflight

\* The leader's finally.
Pop(t) ==
    /\ pc[t] = "pop"
    /\ Unregister(t)
    /\ wait' = [wait EXCEPT ![t] = None]
    /\ Goto(t, "return")
    /\ UNCHANGED <<file, cache, newer, future, want, seen, result>>

-----------------------------------------------------------------------------

\* pending.result() returns the leader's snapshot or raises its exception.
Follow(t) ==
    /\ pc[t] = "follow" /\ future[wait[t]].state \in {"done", "failed"}
    /\ result' = [result EXCEPT ![t] = future[wait[t]].value]
    /\ wait' = [wait EXCEPT ![t] = None]
    /\ Goto(t, "return")
    /\ UNCHANGED <<file, cache, newer, inflight, future, want, seen>>

\* The leader was cancelled: the follower starts over.
Retry(t) ==
    /\ pc[t] = "follow" /\ future[wait[t]].state = "cancelled"
    /\ Unregister(t)
    /\ wait' = [wait EXCEPT ![t] = None]
    /\ Goto(t, "again")
    /\ UNCHANGED <<file, cache, newer, future, want, seen, result>>

\* A call that does not lead is cancelled or times out.
GiveUp(t) ==
    /\ pc[t] \in {"lookup", "follow"}
    /\ wait' = [wait EXCEPT ![t] = None]
    /\ Goto(t, "return")
    /\ UNCHANGED <<file, cache, newer, inflight, future, want, seen, result>>

Return(t) ==
    /\ pc[t] = "return"
    /\ want' = [want EXCEPT ![t] = None]
    /\ result' = [result EXCEPT ![t] = None]
    /\ Goto(t, "idle")
    /\ UNCHANGED <<file, cache, newer, inflight, future, wait, seen>>

-----------------------------------------------------------------------------

\* The user's file is rewritten; running workers may meet the new version.
FileChanges ==
    /\ file < MaxVersion
    /\ file' = file + 1
    /\ seen' = [t \in Callers |-> IF pc[t] = "run" THEN seen[t] \cup {file + 1} ELSE seen[t]]
    /\ UNCHANGED <<cache, newer, inflight, future, pc, want, wait, result>>

\* Sixty seconds pass since a snapshot was built; entries age in any order.
Age(k) ==
    /\ k \in Held \ Old
    /\ cache' = [cache EXCEPT ![k].aged = TRUE]
    /\ UNCHANGED <<file, newer, inflight, future, pc, want, wait, seen, result>>

Advance(t) ==
    \/ \E q \in Queries : pc[t] = "again" /\ Stat(t, q)
    \/ Hit(t) \/ Join(t)
    \/ \E f \in Futures : Lead(t, f)
    \/ TakeSlot(t) \/ SameFile(t) \/ Publish(t) \/ Fail(t) \/ Pop(t)
    \/ \E reads \in SUBSET Versions, n \in 1..MaxBytes : WorkerEnds(t, reads, n)
    \/ \E D \in SUBSET Held : Insert(t, D)
    \/ Follow(t) \/ Retry(t) \/ Return(t)

Next ==
    \/ \E t \in Callers :
        \/ Advance(t)
        \/ \E q \in Queries : pc[t] = "idle" /\ Stat(t, q)
        \/ Cancel(t)
        \/ GiveUp(t)
    \/ \E k \in Key : Age(k)
    \/ FileChanges

Spec == Init /\ [][Next]_vars

\* A call that has begun goes on.  A leader ends because its worker, or the
\* wait for a slot, has a deadline; that a follower reaches its own deadline,
\* or that anybody is cancelled, is not assumed.
Fairness == \A t \in Callers : WF_vars(Advance(t))
FairSpec == Spec /\ Fairness

-----------------------------------------------------------------------------

Leading(t) == pc[t] \in Fallible \cup {"publish", "pop"}
Places == Fallible \cup {"idle", "lookup", "publish", "pop", "follow", "again", "return"}

\* Every variable has its type, a call refers to a Future exactly while it
\* leads or follows, and a worker runs or has run exactly where it should.
TypeOK ==
    /\ file \in Versions
    /\ cache \in [Key -> Entry \cup {None}]
    /\ newer \in [Key -> SUBSET Key]
    /\ inflight \in [Key -> Futures \cup {None}]
    /\ future \in [Futures -> Future]
    /\ pc \in [Callers -> Places]
    /\ want \in [Callers -> Key \cup {None}]
    /\ wait \in [Callers -> Futures \cup {None}]
    /\ seen \in [Callers -> SUBSET Versions]
    /\ result \in [Callers -> Snapshot \cup {None}]
    /\ \A t \in Callers :
        /\ want[t] = None <=> pc[t] = "idle"
        /\ wait[t] = None <=> ~Leading(t) /\ pc[t] # "follow"
        /\ pc[t] \in {"check", "insert", "publish"} => result[t] # None

\* Identical queries share one computation: of the calls that hold or wait for
\* a worker, no two have the same key, and none recomputes what is cached.
SoleExecution ==
    \A t \in Callers : pc[t] \in Fallible =>
        /\ \A u \in Callers \ {t} : pc[u] \in Fallible => want[u] # want[t]
        /\ want[t] \notin Held

\* A call returns a snapshot of its own query, made from exactly the version
\* of the file that the call itself saw, whoever made the snapshot.
AnswersMatch ==
    \A t \in Callers : pc[t] = "return" /\ result[t] # None =>
        /\ result[t].query = want[t].query
        /\ result[t].reads = {want[t].version}

\* The cache stays within its number of entries and the budget of its bytes.
CacheBounded == Cardinality(Held) <= MaxEntries /\ Bytes <= MaxBytes

\* A registered computation has a leader that will remove it, and a call that
\* waits for an open Future waits for a leader that will resolve it.
Answerable ==
    /\ \A k \in Key : inflight[k] # None =>
        \E t \in Callers : Leading(t) /\ want[t] = k /\ wait[t] = inflight[k]
    /\ \A t \in Callers : pc[t] = "follow" /\ future[wait[t]].state = "pending" =>
        \E u \in Callers : /\ pc[u] \in Fallible \cup {"publish"}
                           /\ wait[u] = wait[t] /\ want[u] = want[t]

\* Once no leader is cancelled any more, each call returns, without its own
\* deadline as a follower: a cancelled leader never leaves it waiting.
CallsEnd ==
    <>[][\A t \in Callers : ~Cancel(t)]_vars =>
        \A t \in Callers : pc[t] = "lookup" ~> pc[t] = "idle"

=============================================================================
