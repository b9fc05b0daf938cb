--------------------------- MODULE SnapshotProofs ---------------------------
(***************************************************************************)
(* Proofs about the shared snapshots, for any callers, queries, versions   *)
(* and budgets.  Sharing says who leads which Future: from it follow that  *)
(* equal queries run once and that nobody waits for an abandoned Future.   *)
(* Truth says what each snapshot on its way was made from.                 *)
(***************************************************************************)
EXTENDS SnapshotCache, DataProofs

Resolving == Fallible \cup {"publish"}

\* Calls that refer to one Future have one key, and one of them at most leads.
LeaderAlone ==
    \A t, u \in Callers : wait[t] # None /\ wait[t] = wait[u] =>
        /\ want[t] = want[u]
        /\ Leading(t) /\ Leading(u) => t = u

\* A leader that has not resolved its Future yet is registered, and the Future
\* is open exactly that long.
LeaderRegistered ==
    \A t \in Callers :
        /\ pc[t] \in Resolving =>
            inflight[want[t]] = wait[t] /\ future[wait[t]].state = "pending"
        /\ pc[t] = "pop" => future[wait[t]].state # "pending"

\* A registered Future is registered under the key of those who refer to it.
OneKey ==
    \A k \in Key, t \in Callers : inflight[k] # None /\ inflight[k] = wait[t] => want[t] = k

Sharing == TypeOK /\ LeaderAlone /\ LeaderRegistered /\ OneKey /\ Answerable

\* What is being computed is not in the cache.
NotCached == \A t \in Callers : pc[t] \in Fallible => want[t] \notin Held

Made(s, k) == s.query = k.query /\ s.reads = {k.version}

\* The cache, a resolved Future and a leader hold snapshots of their key; what
\* a worker has read lies between the version of the key and the present one.
CacheTrue == \A k \in Held : Made(cache[k].snapshot, k)

FutureTrue ==
    \A t \in Callers : wait[t] # None /\ future[wait[t]].state = "done" =>
        Made(future[wait[t]].value, want[t])

WorkTrue ==
    \A t \in Callers :
        /\ want[t] # None => want[t].version <= file
        /\ pc[t] = "run" => seen[t] \subseteq want[t].version..file
        /\ pc[t] = "check" => /\ result[t].query = want[t].query
                              /\ result[t].reads \subseteq want[t].version..file
        /\ pc[t] \in {"insert", "publish", "pop", "return"} /\ result[t] # None =>
            Made(result[t], want[t])
        /\ pc[t] \in {"idle", "lookup", "slot", "run", "follow", "again"} => result[t] = None

Truth == CacheTrue /\ FutureTrue /\ WorkTrue

-----------------------------------------------------------------------------

USE DEF Goto

LEMMA CacheType ==
    ASSUME TypeOK, NEW D
    PROVE  /\ Without(D) \in [Key -> Entry \cup {None}]
           /\ OrderWithout(D) \in [Key -> SUBSET Key]
           /\ \A k \in Key : OrderThen(D, k) \in [Key -> SUBSET Key]
BY DEF TypeOK, Without, OrderWithout, OrderThen

LEMMA TypeInit == Init => TypeOK
BY BoundsAssumption, NoneAssumption
DEF Init, TypeOK, Pending, Future, Versions, Leading, Places, Fallible

LEMMA LookupType ==
    ASSUME TypeOK, NEW t \in Callers,
           \/ \E q \in Queries : Stat(t, q)
           \/ Hit(t) \/ Join(t) \/ GiveUp(t)
           \/ \E f \in Futures : Lead(t, f)
    PROVE  TypeOK'
<1>1. CASE \E q \in Queries : Stat(t, q)
    BY <1>1, NoneAssumption DEF TypeOK, Stat, Key, Leading, Places, Fallible
<1>2. CASE Hit(t)
  <2>1. want[t] \in Key /\ cache[want[t]] \in Entry
      BY <1>2, NoneAssumption DEF TypeOK, Hit, Held
  <2>2. cache[want[t]].snapshot \in Snapshot
      BY <2>1 DEF Entry
  <2> QED BY <1>2, <2>1, <2>2, CacheType DEF TypeOK, Hit, Leading, Places, Fallible
<1>3. CASE Join(t)
  <2>1. want[t] \in Key /\ inflight[want[t]] \in Futures
      BY <1>3 DEF TypeOK, Join, Miss
  <2> QED BY <1>3, <2>1, CacheType, NoneAssumption
      DEF TypeOK, Join, Miss, Leading, Places, Fallible
<1>4. CASE GiveUp(t)
    BY <1>4 DEF TypeOK, GiveUp, Leading, Places, Fallible
<1>5. ASSUME NEW f \in Futures, Lead(t, f)
      PROVE  TypeOK'
  <2>1. want[t] \in Key /\ Pending \in Future
      BY <1>5 DEF TypeOK, Lead, Miss, Pending, Future
  <2> QED BY <1>5, <2>1, CacheType, NoneAssumption
      DEF TypeOK, Lead, Miss, Leading, Places, Fallible
<1> QED BY <1>1, <1>2, <1>3, <1>4, <1>5

LEMMA LeaderType ==
    ASSUME TypeOK, LeaderRegistered, NEW t \in Callers,
           \/ TakeSlot(t) \/ SameFile(t) \/ Publish(t) \/ Fail(t) \/ Cancel(t) \/ Pop(t)
           \/ \E reads \in SUBSET Versions, n \in 1..MaxBytes : WorkerEnds(t, reads, n)
           \/ \E D \in SUBSET Held : Insert(t, D)
    PROVE  TypeOK'
<1>1. CASE TakeSlot(t)
    BY <1>1 DEF TypeOK, TakeSlot, Leading, Places, Fallible
<1>2. CASE SameFile(t)
    BY <1>2 DEF TypeOK, SameFile, Leading, Places, Fallible
<1>3. CASE Publish(t)
  <2>1. result[t] \in Snapshot /\ wait[t] \in Futures
      BY <1>3 DEF TypeOK, Publish, Leading, Fallible
  <2>2. [state |-> "done", value |-> result[t]] \in Future
      BY <2>1 DEF Future
  <2> QED BY <1>3, <2>1, <2>2 DEF TypeOK, Publish, Leading, Places, Fallible
<1>4. ASSUME NEW s \in {"failed", "cancelled"}, Resolve(t, s)
      PROVE  TypeOK'
  <2>1. wait[t] \in Futures
      BY <1>4 DEF TypeOK, Resolve, Leading, Fallible
  <2>2. future[wait[t]].state = "pending"
      BY <1>4 DEF LeaderRegistered, Resolving, Resolve
  <2>3. [future[wait[t]] EXCEPT !.state = s] \in Future
      BY <2>1, <2>2 DEF TypeOK, Future
  <2> QED BY <1>4, <2>1, <2>3 DEF TypeOK, Resolve, Leading, Places, Fallible
<1>5. CASE Pop(t)
    BY <1>5 DEF TypeOK, Pop, Unregister, Leading, Places, Fallible
<1>6. ASSUME NEW reads \in SUBSET Versions, NEW n \in 1..MaxBytes, WorkerEnds(t, reads, n)
      PROVE  TypeOK'
  <2>1. want[t] \in Key
      BY <1>6 DEF TypeOK, WorkerEnds
  <2>2. [query |-> want[t].query, reads |-> reads, size |-> n] \in Snapshot
      BY <1>6, <2>1 DEF Snapshot, Key, WorkerEnds
  <2> QED BY <1>6, <2>2, NoneAssumption DEF TypeOK, WorkerEnds, Leading, Places, Fallible
<1>7. ASSUME NEW D \in SUBSET Held, Insert(t, D)
      PROVE  TypeOK'
  <2>1. want[t] \in Key /\ result[t] \in Snapshot
      BY <1>7 DEF TypeOK, Insert
  <2>2. [snapshot |-> result[t], aged |-> FALSE] \in Entry
      BY <2>1 DEF Entry
  <2> QED BY <1>7, <2>1, <2>2, CacheType DEF TypeOK, Insert, Leading, Places, Fallible
<1> QED BY <1>1, <1>2, <1>3, <1>4, <1>5, <1>6, <1>7 DEF Fail, Cancel

LEMMA OtherType ==
    ASSUME TypeOK,
           \/ \E t \in Callers : Follow(t) \/ Retry(t) \/ Return(t)
           \/ \E k \in Key : Age(k)
           \/ FileChanges
           \/ UNCHANGED vars
    PROVE  TypeOK'
<1>1. ASSUME NEW t \in Callers, Follow(t)
      PROVE  TypeOK'
  <2>1. wait[t] \in Futures
      BY <1>1 DEF TypeOK, Follow
  <2>2. future[wait[t]].value \in Snapshot \cup {None}
      BY <2>1 DEF TypeOK, Future
  <2> QED BY <1>1, <2>2 DEF TypeOK, Follow, Leading, Places, Fallible
<1>2. ASSUME NEW t \in Callers, Retry(t)
      PROVE  TypeOK'
    BY <1>2 DEF TypeOK, Retry, Unregister, Leading, Places, Fallible
<1>3. ASSUME NEW t \in Callers, Return(t)
      PROVE  TypeOK'
    BY <1>3 DEF TypeOK, Return, Leading, Places, Fallible
<1>4. ASSUME NEW k \in Key, Age(k)
      PROVE  TypeOK'
  <2>1. cache[k] \in Entry
      BY <1>4 DEF TypeOK, Age, Held
  <2>2. [cache[k] EXCEPT !.aged = TRUE] \in Entry
      BY <2>1 DEF Entry
  <2> QED BY <1>4, <2>2 DEF TypeOK, Age, Leading
<1>5. CASE FileChanges
    BY <1>5, BoundsAssumption DEF TypeOK, FileChanges, Versions, Leading
<1>6. CASE UNCHANGED vars
    BY <1>6 DEF TypeOK, vars, Leading
<1> QED BY <1>1, <1>2, <1>3, <1>4, <1>5, <1>6

-----------------------------------------------------------------------------

LEMMA SharingInit == Init => Sharing
<1> SUFFICES ASSUME Init
             PROVE  Sharing
    OBVIOUS
<1>1. LeaderAlone /\ LeaderRegistered /\ OneKey /\ Answerable
    BY DEF Init, LeaderAlone, LeaderRegistered, OneKey, Answerable, Resolving, Fallible
<1> QED BY <1>1, TypeInit DEF Sharing

\* Steps that leave the registered Futures and who leads them alone.
LEMMA SharingKept ==
    ASSUME Sharing, TypeOK', UNCHANGED <<inflight, future>>, NEW t \in Callers,
           \A u \in Callers \ {t} : pc'[u] = pc[u] /\ want'[u] = want[u] /\ wait'[u] = wait[u],
           \/ wait'[t] = None /\ ~Leading(t)
           \/ want'[t] = want[t] /\ wait'[t] = wait[t] /\ Leading(t) /\ Leading(t)'
                /\ (pc[t] \in Resolving <=> pc'[t] \in Resolving)
           \/ pc'[t] = "follow" /\ pc[t] = "lookup" /\ want'[t] = want[t]
                /\ wait'[t] = inflight[want[t]] /\ inflight[want[t]] # None
    PROVE  Sharing'
<1>0. /\ wait'[t] = None => ~Leading(t)' /\ pc'[t] # "follow"
      /\ Leading(t) <=> pc[t] \in Resolving \cup {"pop"}
      /\ Leading(t)' <=> pc'[t] \in Resolving \cup {"pop"}
    BY DEF TypeOK, Leading, Resolving
<1>1. LeaderAlone'
    BY <1>0 DEF Sharing, LeaderAlone, OneKey, Leading, TypeOK, Fallible
<1>2. LeaderRegistered'
    BY <1>0 DEF Sharing, LeaderRegistered, Leading, Resolving, Fallible
<1>3. OneKey'
  <2>1. \A j, k \in Key : inflight[j] # None /\ inflight[j] = inflight[k] => j = k
      BY DEF Sharing, OneKey, Answerable
  <2> QED BY <2>1 DEF Sharing, OneKey, TypeOK
<1>4. Answerable'
    BY <1>0, SMTT(30) DEF Sharing, Answerable, LeaderRegistered, Leading, Resolving, TypeOK, Fallible
<1> QED BY <1>1, <1>2, <1>3, <1>4 DEF Sharing

\* The steps of a call that only move it along.
LEMMA MovesShare ==
    ASSUME Sharing, NEW t \in Callers,
           \/ \E q \in Queries : (pc[t] = "idle" \/ pc[t] = "again") /\ Stat(t, q)
           \/ Hit(t) \/ Join(t) \/ GiveUp(t) \/ TakeSlot(t) \/ SameFile(t)
           \/ \E reads \in SUBSET Versions, n \in 1..MaxBytes : WorkerEnds(t, reads, n)
           \/ \E D \in SUBSET Held : Insert(t, D)
           \/ Follow(t) \/ Return(t)
    PROVE  Sharing'
<1>0. /\ pc \in [Callers -> Places] /\ want \in [Callers -> Key \cup {None}]
      /\ wait \in [Callers -> Futures \cup {None}]
      /\ wait[t] = None <=> ~Leading(t) /\ pc[t] # "follow"
    BY DEF Sharing, TypeOK
<1>1. TypeOK'
    BY LookupType, LeaderType, OtherType DEF Sharing
<1>2. CASE \E q \in Queries : (pc[t] = "idle" \/ pc[t] = "again") /\ Stat(t, q)
    BY <1>0, <1>1, <1>2, SharingKept DEF Stat, Leading, Fallible
<1>3. CASE Hit(t) \/ GiveUp(t) \/ Follow(t) \/ Return(t)
    BY <1>0, <1>1, <1>3, SharingKept DEF Hit, GiveUp, Follow, Return, Leading, Fallible
<1>4. CASE Join(t)
    BY <1>0, <1>1, <1>4, SharingKept DEF Join, Miss
<1>5. CASE TakeSlot(t) \/ SameFile(t)
    BY <1>0, <1>1, <1>5, SharingKept DEF TakeSlot, SameFile, Leading, Fallible, Resolving
<1>6. ASSUME NEW reads \in SUBSET Versions, NEW n \in 1..MaxBytes, WorkerEnds(t, reads, n)
      PROVE  Sharing'
    BY <1>0, <1>1, <1>6, SharingKept DEF WorkerEnds, Leading, Fallible, Resolving
<1>7. ASSUME NEW D \in SUBSET Held, Insert(t, D)
      PROVE  Sharing'
    BY <1>0, <1>1, <1>7, SharingKept DEF Insert, Leading, Fallible, Resolving
<1> QED BY <1>2, <1>3, <1>4, <1>5, <1>6, <1>7

LEMMA LeadShares ==
    ASSUME Sharing, NEW t \in Callers, NEW f \in Futures, Lead(t, f)
    PROVE  Sharing'
<1>1. TypeOK'
    BY LookupType DEF Sharing
<1>2. /\ want[t] \in Key /\ f # None
      /\ pc[t] = "lookup" /\ pc' = [pc EXCEPT ![t] = "slot"] /\ wait' = [wait EXCEPT ![t] = f]
      /\ inflight' = [inflight EXCEPT ![want[t]] = f] /\ inflight[want[t]] = None
      /\ future' = [future EXCEPT ![f] = Pending] /\ UNCHANGED want
    BY NoneAssumption DEF Lead, Miss, Sharing, TypeOK
<1>3. (\A u \in Callers : wait[u] # f) /\ (\A k \in Key : inflight[k] # f)
    BY DEF Lead, Unused, Range, Sharing, TypeOK
<1>4. /\ pc \in [Callers -> Places] /\ wait \in [Callers -> Futures \cup {None}]
      /\ inflight \in [Key -> Futures \cup {None}] /\ future \in [Futures -> Future]
      /\ want \in [Callers -> Key \cup {None}]
      /\ \A u \in Callers : wait[u] = None <=> ~Leading(u) /\ pc[u] # "follow"
      /\ \A u \in Callers : want[u] = None <=> pc[u] = "idle"
    BY DEF Sharing, TypeOK
<1>5. LeaderAlone'
    BY <1>2, <1>3, <1>4 DEF Sharing, LeaderAlone, Leading
<1>6. LeaderRegistered'
    BY <1>2, <1>3, <1>4 DEF Sharing, LeaderRegistered, Leading, Resolving, Fallible, Pending
<1>7. OneKey'
    BY <1>2, <1>3, <1>4 DEF Sharing, OneKey
<1>8. Answerable'
    BY <1>2, <1>3, <1>4 DEF Sharing, Answerable, Leading, Fallible
<1> QED BY <1>1, <1>5, <1>6, <1>7, <1>8 DEF Sharing

\* The leader resolves its Future in one way or another.
LEMMA ResolvedShares ==
    ASSUME Sharing, TypeOK', NEW t \in Callers, pc[t] \in Resolving,
           pc' = [pc EXCEPT ![t] = "pop"], UNCHANGED <<inflight, want, wait>>,
           \A f \in Futures \ {wait[t]} : future'[f] = future[f],
           future'[wait[t]].state # "pending"
    PROVE  Sharing'
<1>1. /\ pc \in [Callers -> Places] /\ wait[t] \in Futures
      /\ wait \in [Callers -> Futures \cup {None}]
      /\ \A u \in Callers : wait[u] = None <=> ~Leading(u) /\ pc[u] # "follow"
    BY DEF Sharing, TypeOK, Leading, Resolving, Fallible
<1>2. \A u \in Callers \ {t} : Leading(u) => wait[u] # wait[t]
    BY <1>1 DEF Sharing, LeaderAlone, Leading, Resolving, Fallible
<1>3. LeaderAlone'
    BY <1>1 DEF Sharing, LeaderAlone, Leading, Resolving, Fallible
<1>4. LeaderRegistered'
    BY <1>1, <1>2 DEF Sharing, LeaderRegistered, Leading, Resolving, Fallible
<1>5. OneKey'
    BY DEF Sharing, OneKey
<1>6. Answerable'
    BY <1>1 DEF Sharing, Answerable, Leading, Resolving, Fallible
<1> QED BY <1>3, <1>4, <1>5, <1>6 DEF Sharing

LEMMA ResolveShares ==
    ASSUME Sharing, NEW t \in Callers, Publish(t) \/ Fail(t) \/ Cancel(t)
    PROVE  Sharing'
<1>1. TypeOK'
    BY LeaderType DEF Sharing
<1>2. wait[t] \in Futures /\ future \in [Futures -> Future] /\ pc[t] \in Resolving
    BY DEF Sharing, TypeOK, Leading, Resolving, Fallible, Publish, Fail, Cancel, Resolve
<1>3. CASE Publish(t)
    BY <1>1, <1>2, <1>3, ResolvedShares DEF Publish
<1>4. CASE Fail(t) \/ Cancel(t)
  <2>1. PICK s \in {"failed", "cancelled"} : Resolve(t, s)
      BY <1>4 DEF Fail, Cancel
  <2>2. future[wait[t]] \in Future
      BY <1>2
  <2>3. future' = [future EXCEPT ![wait[t]] = [future[wait[t]] EXCEPT !.state = s]]
      BY <2>1 DEF Resolve
  <2>4. future'[wait[t]].state = s
      BY <1>2, <2>2, <2>3 DEF Future
  <2> QED BY <1>1, <1>2, <2>1, <2>3, <2>4, ResolvedShares DEF Resolve
<1> QED BY <1>3, <1>4

\* A call leaves its Future and removes the registration if it is still there:
\* the leader in the end, or a follower of a cancelled leader.
LEMMA UnregisterShares ==
    ASSUME Sharing, NEW t \in Callers, Pop(t) \/ Retry(t)
    PROVE  Sharing'
<1>1. TypeOK'
    BY LeaderType, OtherType DEF Sharing
<1>2. /\ wait[t] \in Futures /\ want[t] \in Key
      /\ pc[t] \in {"pop", "follow"} /\ future[wait[t]].state # "pending"
    BY DEF Sharing, TypeOK, LeaderRegistered, Leading, Pop, Retry
<1>3. /\ pc \in [Callers -> Places] /\ wait \in [Callers -> Futures \cup {None}]
      /\ inflight \in [Key -> Futures \cup {None}]
      /\ want \in [Callers -> Key \cup {None}]
      /\ \A u \in Callers : wait[u] = None <=> ~Leading(u) /\ pc[u] # "follow"
    BY DEF Sharing, TypeOK
<1>4. /\ \E place \in {"return", "again"} : pc' = [pc EXCEPT ![t] = place]
      /\ wait' = [wait EXCEPT ![t] = None] /\ UNCHANGED <<want, future>>
      /\ inflight' = IF inflight[want[t]] = wait[t]
                     THEN [inflight EXCEPT ![want[t]] = None] ELSE inflight
    BY DEF Pop, Retry, Unregister
<1>5. LeaderAlone'
    BY <1>3, <1>4 DEF Sharing, LeaderAlone, Leading, Fallible
<1>6. LeaderRegistered'
  <2>1. \A u \in Callers \ {t} : pc[u] \in Resolving => inflight[want[u]] # wait[t]
      BY <1>2, <1>3 DEF Sharing, LeaderRegistered
  <2>2. \A u \in Callers \ {t} : pc[u] \in Resolving => inflight'[want[u]] = wait[u]
      BY <1>2, <1>3, <1>4, <2>1 DEF Sharing, LeaderRegistered
  <2> QED BY <1>2, <1>3, <1>4, <2>2 DEF Sharing, LeaderRegistered, Resolving, Fallible
<1>7. OneKey'
    BY <1>2, <1>3, <1>4 DEF Sharing, OneKey
<1>8. Answerable'
  <2>1. \A k \in Key : inflight'[k] # None => inflight'[k] = inflight[k] /\ inflight[k] # wait[t]
      BY <1>2, <1>3, <1>4 DEF Sharing, OneKey
  <2>2. \A k \in Key : inflight'[k] # None =>
            \E u \in Callers \ {t} : Leading(u) /\ want[u] = k /\ wait[u] = inflight[k]
      BY <2>1 DEF Sharing, Answerable
  <2>3. \A u \in Callers : pc'[u] = "follow" /\ future[wait'[u]].state = "pending" =>
            \E v \in Callers \ {t} : /\ pc[v] \in Fallible \cup {"publish"}
                                     /\ wait[v] = wait'[u] /\ want[v] = want[u]
      BY <1>2, <1>3, <1>4 DEF Sharing, Answerable, Fallible
  <2> QED BY <1>3, <1>4, <2>1, <2>2, <2>3 DEF Answerable, Leading
<1> QED BY <1>1, <1>5, <1>6, <1>7, <1>8 DEF Sharing

LEMMA BackgroundShares ==
    ASSUME Sharing, FileChanges \/ (\E k \in Key : Age(k)) \/ UNCHANGED vars
    PROVE  Sharing'
<1>1. TypeOK' /\ UNCHANGED <<inflight, future, pc, want, wait>>
    BY OtherType DEF Sharing, FileChanges, Age, vars
<1> QED BY <1>1 DEF Sharing, LeaderAlone, LeaderRegistered, OneKey, Answerable, Leading

LEMMA SharingStep == Sharing /\ [Next]_vars => Sharing'
BY MovesShare, LeadShares, ResolveShares, UnregisterShares, BackgroundShares DEF Next, Advance

\* Sharing is inductive.
THEOREM SharingInvariant == Spec => []Sharing
BY SharingInit, SharingStep, PTL DEF Spec

\* Every variable keeps its type, whatever the callers do.
THEOREM SnapshotTypes == Spec => []TypeOK
BY SharingInvariant, PTL DEF Sharing

\* Nobody waits for a computation that nobody will finish.
THEOREM AlwaysAnswerable == Spec => []Answerable
BY SharingInvariant, PTL DEF Sharing

-----------------------------------------------------------------------------

Computing == Sharing /\ NotCached /\ Truth

\* No two calls that still compute have one key.
LEMMA SharingAlone ==
    ASSUME Sharing, NEW t \in Callers, NEW u \in Callers,
           pc[t] \in Fallible, pc[u] \in Fallible, want[t] = want[u]
    PROVE  t = u
<1>1. inflight[want[t]] = wait[t] /\ inflight[want[u]] = wait[u] /\ wait[t] # None
    BY DEF Sharing, LeaderRegistered, TypeOK, Resolving, Leading
<1> QED BY <1>1 DEF Sharing, LeaderAlone, Leading

\* A deletion leaves only true entries in the cache.
LEMMA WithoutTrue ==
    ASSUME CacheTrue, NEW D, cache' = Without(D)
    PROVE  CacheTrue' /\ Held' \subseteq Held /\ Held' = Held \ D
BY DEF CacheTrue, Without, Held, Made

\* Steps of one call that add nothing to the cache, touch no Future and do not
\* begin a computation.
LEMMA ComputingKept ==
    ASSUME Computing, Sharing', NEW t \in Callers, UNCHANGED <<file, future>>,
           \A u \in Callers \ {t} : /\ pc'[u] = pc[u] /\ want'[u] = want[u] /\ wait'[u] = wait[u]
                                    /\ seen'[u] = seen[u] /\ result'[u] = result[u],
           CacheTrue', Held' \subseteq Held,
           wait'[t] # None => wait'[t] = wait[t] /\ want'[t] = want[t],
           pc'[t] \in Fallible => pc[t] \in Fallible /\ want'[t] = want[t],
           /\ want'[t] # None => want'[t].version <= file
           /\ pc'[t] = "run" => seen'[t] \subseteq want'[t].version..file
           /\ pc'[t] = "check" => /\ result'[t].query = want'[t].query
                                  /\ result'[t].reads \subseteq want'[t].version..file
           /\ pc'[t] \in {"insert", "publish", "pop", "return"} /\ result'[t] # None =>
                Made(result'[t], want'[t])
           /\ pc'[t] \in {"idle", "lookup", "slot", "run", "follow", "again"} => result'[t] = None
    PROVE  Computing'
<1>1. NotCached'
    BY DEF Computing, NotCached
<1>2. FutureTrue'
    BY DEF Computing, Truth, FutureTrue
<1>3. WorkTrue'
    BY DEF Computing, Truth, WorkTrue, Made
<1> QED BY <1>1, <1>2, <1>3 DEF Computing, Truth

LEMMA ComputingInit == Init => Computing
<1> SUFFICES ASSUME Init
             PROVE  Computing
    OBVIOUS
<1>1. NotCached /\ CacheTrue /\ FutureTrue /\ WorkTrue
    BY DEF Init, NotCached, CacheTrue, FutureTrue, WorkTrue, Held, Fallible
<1> QED BY <1>1, SharingInit DEF Computing, Truth

LEMMA ComputingTyped ==
    ASSUME Computing, NEW t \in Callers
    PROVE  /\ pc \in [Callers -> Places] /\ want \in [Callers -> Key \cup {None}]
           /\ wait \in [Callers -> Futures \cup {None}] /\ file \in Int
           /\ seen \in [Callers -> SUBSET Versions]
           /\ result \in [Callers -> Snapshot \cup {None}]
           /\ want[t] = None <=> pc[t] = "idle"
           /\ want[t] # None => want[t].version \in Int /\ want[t].version <= file
                                /\ want[t] \in Key
           /\ pc[t] \in {"idle", "lookup", "slot", "run", "follow", "again"} => result[t] = None
           /\ wait[t] = None <=> ~Leading(t) /\ pc[t] # "follow"
BY BoundsAssumption DEF Computing, Truth, WorkTrue, Sharing, TypeOK, Versions, Key

LEMMA CallerComputes ==
    ASSUME Computing, NEW t \in Callers,
           \/ \E q \in Queries : (pc[t] = "idle" \/ pc[t] = "again") /\ Stat(t, q)
           \/ Hit(t) \/ GiveUp(t) \/ TakeSlot(t) \/ SameFile(t) \/ Pop(t)
           \/ \E reads \in SUBSET Versions, n \in 1..MaxBytes : WorkerEnds(t, reads, n)
           \/ Follow(t) \/ Retry(t) \/ Return(t)
    PROVE  Computing'
<1>0. Sharing'
    BY MovesShare, UnregisterShares DEF Computing
<1>a. /\ pc \in [Callers -> Places] /\ want \in [Callers -> Key \cup {None}]
      /\ wait \in [Callers -> Futures \cup {None}] /\ file \in Int
      /\ seen \in [Callers -> SUBSET Versions]
      /\ result \in [Callers -> Snapshot \cup {None}]
      /\ want[t] # None => want[t].version \in Int /\ want[t].version <= file /\ want[t] \in Key
      /\ pc[t] \in {"idle", "lookup", "slot", "run", "follow", "again"} => result[t] = None
      /\ want[t] = None <=> pc[t] = "idle"
      /\ wait[t] = None <=> ~Leading(t) /\ pc[t] # "follow"
    BY ComputingTyped
<1>b. UNCHANGED cache => CacheTrue' /\ Held' \subseteq Held
    BY DEF Computing, Truth, CacheTrue, Held, Made
<1>1. CASE \E q \in Queries : (pc[t] = "idle" \/ pc[t] = "again") /\ Stat(t, q)
    BY <1>0, <1>a, <1>b, <1>1, ComputingKept DEF Stat, Leading, Fallible
<1>2. CASE Hit(t)
  <2>1. CacheTrue' /\ Held' \subseteq Held
      BY <1>2, WithoutTrue DEF Hit, Computing, Truth
  <2>2. Made(cache[want[t]].snapshot, want[t]) /\ cache[want[t]].snapshot # None
    <3>1. want[t] \in Held /\ cache[want[t]] \in Entry
        BY <1>2 DEF Hit, Held, Computing, Sharing, TypeOK
    <3> QED BY <3>1, NoneAssumption DEF Computing, Truth, CacheTrue, Entry
  <2>3. wait[t] = None
      BY <1>2, <1>a DEF Hit, Leading, Fallible
  <2> QED BY <1>0, <1>a, <1>2, <2>1, <2>2, <2>3, ComputingKept DEF Hit, Fallible
<1>3. CASE GiveUp(t)
    BY <1>0, <1>a, <1>b, <1>3, ComputingKept DEF GiveUp, Fallible
<1>4. CASE Retry(t)
    BY <1>0, <1>a, <1>b, <1>4, ComputingKept DEF Retry, Fallible
<1>5. CASE Return(t)
    BY <1>0, <1>a, <1>b, <1>5, ComputingKept DEF Return, Leading, Fallible
<1>6. CASE TakeSlot(t)
    BY <1>0, <1>a, <1>b, <1>6, ComputingKept DEF TakeSlot, Fallible
<1>7. CASE SameFile(t)
  <2>1. Made(result[t], want[t])
    <3>1. /\ result[t].query = want[t].query /\ result[t].reads \subseteq {want[t].version}
          /\ result[t] \in Snapshot
        BY <1>7, <1>a, SMTT(30) DEF SameFile, Computing, Sharing, TypeOK, Truth, WorkTrue
    <3>2. result[t].reads \in (SUBSET Versions) \ {{}}
        BY <3>1 DEF Snapshot
    <3>3. \E x : x \in result[t].reads
        BY <3>2
    <3>4. result[t].reads = {want[t].version}
        BY <3>1, <3>3, Zenon
    <3> QED BY <3>1, <3>4 DEF Made
  <2> QED BY <1>0, <1>a, <1>b, <1>7, <2>1, ComputingKept DEF SameFile, Fallible
<1>8. CASE Pop(t)
  <2>1. result[t] # None => Made(result[t], want[t])
      BY <1>8 DEF Pop, Computing, Truth, WorkTrue
  <2> QED BY <1>0, <1>a, <1>b, <1>8, <2>1, ComputingKept DEF Pop, Fallible
<1>9. ASSUME NEW reads \in SUBSET Versions, NEW n \in 1..MaxBytes, WorkerEnds(t, reads, n)
      PROVE  Computing'
  <2>1. reads \subseteq want[t].version..file
      BY <1>9 DEF WorkerEnds, Computing, Truth, WorkTrue
  <2> QED BY <1>0, <1>a, <1>b, <1>9, <2>1, ComputingKept DEF WorkerEnds, Fallible
<1>10. CASE Follow(t)
  <2>1. future[wait[t]] \in Future /\ wait[t] # None
      BY <1>a, <1>10 DEF Follow, Computing, Sharing, TypeOK
  <2>2. future[wait[t]].value # None => Made(future[wait[t]].value, want[t])
      BY <1>10, <2>1 DEF Follow, Future, Computing, Truth, FutureTrue
  <2> QED BY <1>0, <1>a, <1>b, <1>10, <2>2, ComputingKept DEF Follow, Fallible
<1> QED BY <1>1, <1>2, <1>3, <1>4, <1>5, <1>6, <1>7, <1>8, <1>9, <1>10

LEMMA ResolveComputes ==
    ASSUME Computing, NEW t \in Callers, Publish(t) \/ Fail(t) \/ Cancel(t)
    PROVE  Computing'
<1>0. Sharing'
    BY ResolveShares DEF Computing
<1>1. /\ pc \in [Callers -> Places] /\ wait[t] \in Futures /\ want[t] # None
      /\ pc[t] \in Resolving /\ future \in [Futures -> Future]
      /\ result \in [Callers -> Snapshot \cup {None}] /\ seen \in [Callers -> SUBSET Versions]
    BY DEF Computing, Sharing, TypeOK, Leading, Resolving, Fallible, Publish, Fail, Cancel, Resolve
<1>2. /\ pc' = [pc EXCEPT ![t] = "pop"] /\ UNCHANGED <<file, cache, want, wait>>
      /\ result'[t] \in {None, result[t]} /\ (pc[t] \in Fallible => result'[t] = None)
      /\ \A u \in Callers \ {t} : result'[u] = result[u] /\ seen'[u] = seen[u]
    BY <1>1 DEF Publish, Fail, Cancel, Resolve, Fallible
<1>3. NotCached' /\ CacheTrue'
    BY <1>1, <1>2 DEF Computing, NotCached, Truth, CacheTrue, Held, Fallible, Made
<1>4. FutureTrue'
  <2>1. future'[wait[t]].state = "done" => Made(future'[wait[t]].value, want[t])
    <3>1. CASE Publish(t)
      <4>1. future'[wait[t]].value = result[t] /\ result[t] # None /\ pc[t] = "publish"
          BY <1>1, <3>1 DEF Publish, Computing, Sharing, TypeOK
      <4> QED BY <4>1 DEF Computing, Truth, WorkTrue
    <3>2. CASE Fail(t) \/ Cancel(t)
      <4>1. PICK s \in {"failed", "cancelled"} : Resolve(t, s)
          BY <3>2 DEF Fail, Cancel
      <4>2. future[wait[t]] \in Future
          BY <1>1
      <4>3. future' = [future EXCEPT ![wait[t]] = [future[wait[t]] EXCEPT !.state = s]]
          BY <4>1 DEF Resolve
      <4>4. future'[wait[t]].state = s
          BY <1>1, <4>2, <4>3 DEF Future
      <4> QED BY <4>4
    <3> QED BY <3>1, <3>2
  <2>2. \A f \in Futures \ {wait[t]} : future'[f] = future[f]
      BY <1>1 DEF Publish, Fail, Cancel, Resolve
  <2>3. \A u \in Callers : wait[u] # None /\ wait[u] = wait[t] => want[u] = want[t]
      BY DEF Computing, Sharing, LeaderAlone
  <2>4. \A u \in Callers : wait[u] # None => wait[u] \in Futures
      BY DEF Computing, Sharing, TypeOK
  <2> QED BY <1>2, <2>1, <2>2, <2>3, <2>4 DEF Computing, Truth, FutureTrue
<1>5. WorkTrue'
    BY <1>1, <1>2 DEF Computing, Truth, WorkTrue, Resolving, Made
<1> QED BY <1>0, <1>3, <1>4, <1>5 DEF Computing, Truth

LEMMA JoinComputes ==
    ASSUME Computing, NEW t \in Callers, Join(t)
    PROVE  Computing'
<1>0. Sharing' /\ pc \in [Callers -> Places] /\ wait \in [Callers -> Futures \cup {None}]
    BY MovesShare DEF Computing, Sharing, TypeOK
<1>1. CacheTrue' /\ Held' \subseteq Held
    BY WithoutTrue DEF Join, Miss, Computing, Truth
<1>2. NotCached'
    BY <1>0, <1>1 DEF Computing, NotCached, Join, Miss, Fallible
<1>3. FutureTrue'
  <2>1. PICK u \in Callers : want[u] = want[t] /\ wait[u] = inflight[want[t]]
      BY DEF Computing, Sharing, Answerable, TypeOK, Join, Miss
  <2> QED BY <1>0, <2>1 DEF Computing, Truth, FutureTrue, Join, Miss
<1>4. WorkTrue'
    BY <1>0 DEF Computing, Truth, WorkTrue, Join, Miss, Made
<1> QED BY <1>0, <1>1, <1>2, <1>3, <1>4 DEF Computing, Truth

LEMMA LeadComputes ==
    ASSUME Computing, NEW t \in Callers, NEW f \in Futures, Lead(t, f)
    PROVE  Computing'
<1>0. /\ Sharing' /\ pc \in [Callers -> Places] /\ wait \in [Callers -> Futures \cup {None}]
      /\ future \in [Futures -> Future]
    BY LeadShares DEF Computing, Sharing, TypeOK
<1>1. CacheTrue' /\ Held' = Held \ Old
    BY WithoutTrue DEF Lead, Miss, Computing, Truth
<1>2. NotCached'
    BY <1>0, <1>1 DEF Computing, NotCached, Lead, Miss
<1>3. FutureTrue'
  <2>1. future'[f].state = "pending" /\ \A g \in Futures \ {f} : future'[g] = future[g]
      BY <1>0 DEF Lead, Pending
  <2>2. \A u \in Callers \ {t} : wait'[u] = wait[u] /\ wait[u] # f /\ want'[u] = want[u]
      BY <1>0 DEF Lead, Unused, Range
  <2>3. wait'[t] = f
      BY <1>0 DEF Lead
  <2> QED BY <1>0, <2>1, <2>2, <2>3 DEF Computing, Truth, FutureTrue
<1>4. WorkTrue'
    BY <1>0 DEF Computing, Truth, WorkTrue, Lead, Miss, Made
<1> QED BY <1>0, <1>1, <1>2, <1>3, <1>4 DEF Computing, Truth

LEMMA InsertComputes ==
    ASSUME Computing, NEW t \in Callers, NEW D \in SUBSET Held, Insert(t, D)
    PROVE  Computing'
<1>0. /\ Sharing' /\ pc \in [Callers -> Places] /\ want[t] \in Key
      /\ want \in [Callers -> Key \cup {None}] /\ result[t] \in Snapshot /\ pc[t] = "insert"
      /\ cache \in [Key -> Entry \cup {None}]
    BY MovesShare DEF Computing, Sharing, TypeOK, Insert
<1>1. cache' = [Without(D) EXCEPT ![want[t]] = [snapshot |-> result[t], aged |-> FALSE]]
    BY DEF Insert
<1>2. Made(result[t], want[t])
    BY <1>0, NoneAssumption DEF Computing, Truth, WorkTrue
<1>3. CacheTrue'
    BY <1>0, <1>1, <1>2 DEF Computing, Truth, CacheTrue, Held, Without, Made
<1>4. NotCached'
  <2>1. Held' \subseteq Held \cup {want[t]}
      BY <1>0, <1>1 DEF Held, Without
  <2>2. \A u \in Callers : pc'[u] \in Fallible => pc[u] \in Fallible /\ u # t
      BY <1>0 DEF Insert, Fallible
  <2>3. \A u \in Callers : pc'[u] \in Fallible => want[u] # want[t]
      BY <1>0, <2>2, SharingAlone DEF Computing, Fallible
  <2> QED BY <2>1, <2>2, <2>3 DEF Computing, NotCached, Insert
<1>5. FutureTrue' /\ WorkTrue'
    BY <1>0, <1>2 DEF Computing, Truth, FutureTrue, WorkTrue, Insert, Made
<1> QED BY <1>0, <1>3, <1>4, <1>5 DEF Computing, Truth

LEMMA BackgroundComputes ==
    ASSUME Computing, FileChanges \/ (\E k \in Key : Age(k)) \/ UNCHANGED vars
    PROVE  Computing'
<1>0. Sharing'
    BY BackgroundShares DEF Computing
<1>1. CASE FileChanges
  <2>1. /\ file \in Int /\ file' = file + 1
        /\ \A t \in Callers : want[t] # None => want[t].version \in Int
      BY <1>1, BoundsAssumption DEF FileChanges, Computing, Sharing, TypeOK, Versions, Key
  <2>2. NotCached' /\ CacheTrue' /\ FutureTrue'
      BY <1>1 DEF FileChanges, Computing, Truth, NotCached, CacheTrue, FutureTrue, Held, Made
  <2>3. \A t \in Callers : want[t] = None <=> pc[t] = "idle"
      BY DEF Computing, Sharing, TypeOK
  <2>4. WorkTrue'
      BY <1>1, <2>1, <2>3 DEF FileChanges, Computing, Truth, WorkTrue, Made
  <2> QED BY <1>0, <2>2, <2>4 DEF Computing, Truth
<1>2. ASSUME NEW k \in Key, Age(k)
      PROVE  Computing'
  <2>1. cache[k] \in Entry /\ cache \in [Key -> Entry \cup {None}]
      BY <1>2 DEF Age, Held, Computing, Sharing, TypeOK
  <2>2. cache'[k].snapshot = cache[k].snapshot /\ \A j \in Key \ {k} : cache'[j] = cache[j]
      BY <1>2, <2>1 DEF Age, Entry
  <2>3. Held' \subseteq Held /\ CacheTrue'
      BY <1>2, <2>2 DEF Age, Held, CacheTrue, Computing, Truth, Made
  <2> QED BY <1>0, <1>2, <2>3 DEF Age, Computing, Truth, NotCached, FutureTrue, WorkTrue, Made
<1>3. CASE UNCHANGED vars
    BY <1>0, <1>3 DEF vars, Computing, Truth, NotCached, CacheTrue, FutureTrue, WorkTrue, Held, Made
<1> QED BY <1>1, <1>2, <1>3

LEMMA ComputingStep == Computing /\ [Next]_vars => Computing'
BY CallerComputes, ResolveComputes, JoinComputes, LeadComputes, InsertComputes,
   BackgroundComputes
DEF Next, Advance

\* Computing is inductive.
THEOREM ComputingInvariant == Spec => []Computing
BY ComputingInit, ComputingStep, PTL DEF Spec

\* Identical queries share one computation, and nothing cached is computed.
THEOREM ComputedOnce == Spec => []SoleExecution
<1>1. Computing => SoleExecution
    BY SharingAlone DEF Computing, NotCached, SoleExecution
<1> QED BY <1>1, ComputingInvariant, PTL

\* Each call gets the snapshot of its own query and of the file it saw.
THEOREM AnswersAreOwn == Spec => []AnswersMatch
<1>1. Computing => AnswersMatch
    BY DEF Computing, Truth, WorkTrue, Made, AnswersMatch
<1> QED BY <1>1, ComputingInvariant, PTL

-----------------------------------------------------------------------------

\* The cache keeps its two bounds, for any number of queries and versions.
Bounding == Computing /\ IsFiniteSet(Held) /\ CacheBounded

-----------------------------------------------------------------------------

\* The sizes of what is left when D is deleted.
LEMMA SizesType ==
    ASSUME Computing, NEW D
    PROVE  SizesWithout(D) \in [Key -> Nat]
<1>1. \A k \in Held : cache[k] \in Entry
    BY DEF Computing, Sharing, TypeOK, Held
<1>2. \A k \in Held : cache[k].snapshot.size \in Nat
    BY <1>1, BoundsAssumption DEF Entry, Snapshot
<1> QED BY <1>2 DEF SizesWithout

\* Sizes that are smaller have a smaller total, if finitely many are there.
LEMMA SizesShrink ==
    ASSUME NEW H \in SUBSET Key, IsFiniteSet(H),
           NEW f \in [Key -> Nat], NEW g \in [Key -> Nat],
           \A k \in Key \ H : f[k] = 0, \A k \in Key : g[k] <= f[k]
    PROVE  Total(f) \in Nat /\ Total(g) \in Nat /\ Total(g) <= Total(f)
<1> DEFINE f1 == [k \in H |-> f[k]]
           g1 == [k \in H |-> g[k]]
<1>1. \A k \in Key \ H : g[k] = 0
    OBVIOUS
<1>2. Total(f) = Total(f1) /\ f1 \in [H -> Nat]
    BY TotalSupport
<1>3. Total(g) = Total(g1) /\ g1 \in [H -> Nat]
    BY <1>1, TotalSupport
<1>4. \A k \in H : g1[k] <= f1[k]
    OBVIOUS
<1> HIDE DEF f1, g1
<1>5. Total(f1) \in Nat /\ Total(g1) \in Nat
    BY <1>2, <1>3, CellsFinite
<1>6. Total(g1) <= Total(f1)
    BY <1>2, <1>3, <1>4, TotalMonotone
<1> QED BY <1>2, <1>3, <1>5, <1>6

\* Steps that add no entry and leave the sizes of the others.
LEMMA ShrinkBounds ==
    ASSUME Bounding, Computing', Held' \subseteq Held,
           \A k \in Held' : cache'[k].snapshot.size = cache[k].snapshot.size
    PROVE  Bounding'
<1>1. IsFiniteSet(Held') /\ Cardinality(Held') <= Cardinality(Held) 
        /\ Cardinality(Held) \in Nat /\ Cardinality(Held') \in Nat
    BY FS_Subset, FS_CardinalityType DEF Bounding
<1> DEFINE f == SizesWithout({})
           g == SizesWithout({})'
<1>2. f \in [Key -> Nat]
    BY SizesType DEF Bounding
<1>3. g \in [Key -> Nat]
    <2>1. \A k \in Held' : cache'[k] \in Entry
        BY DEF Computing, Sharing, TypeOK, Held
    <2>2. \A k \in Held' : cache'[k].snapshot.size \in Nat
        BY <2>1, BoundsAssumption DEF Entry, Snapshot
    <2> QED BY <2>2 DEF SizesWithout
<1>4. \A k \in Key \ Held : f[k] = 0
    BY DEF SizesWithout
<1>5. \A k \in Key : g[k] <= f[k]
  <2> TAKE k \in Key
  <2>1. f[k] \in Nat
      BY <1>2
  <2>2. CASE k \in Held'
    <3>1. g[k] = cache'[k].snapshot.size /\ f[k] = cache[k].snapshot.size
        BY <2>2 DEF SizesWithout
    <3> QED BY <2>1, <2>2, <3>1
  <2>3. CASE k \notin Held'
    <3>1. g[k] = 0
        BY <2>3 DEF SizesWithout
    <3> QED BY <2>1, <3>1
  <2> QED BY <2>2, <2>3
<1>6. Held \in SUBSET Key
    BY DEF Held
<1> HIDE DEF f, g
<1>7. Total(f) \in Nat /\ Total(g) \in Nat /\ Total(g) <= Total(f)
    BY <1>2, <1>3, <1>4, <1>5, <1>6, SizesShrink DEF Bounding
<1>8. Bytes = Total(f) /\ Bytes' = Total(g)
    BY DEF Bytes, f, g
<1>9. MaxEntries \in Nat /\ MaxBytes \in Nat
    BY BoundsAssumption
<1> QED BY <1>1, <1>7, <1>8, <1>9 DEF Bounding, CacheBounded

\* What an insertion evicts leaves room for one entry of n bytes.
LEMMA EvictedFits ==
    ASSUME Bounding, NEW D \in SUBSET Held, NEW n \in 1..MaxBytes, Evicted(D, n)
    PROVE  /\ IsFiniteSet(Held \ D) /\ Cardinality(Held \ D) < MaxEntries
           /\ Total(SizesWithout(D)) \in Nat /\ Total(SizesWithout(D)) + n <= MaxBytes
<1>1. PICK B \in SUBSET Held :
        /\ Fits(B, n)
        /\ IF Cardinality(Held \ B) >= MaxEntries
           THEN B \subseteq D /\ Cardinality(D \ B) = 1
           ELSE D = B
    BY DEF Evicted, Enough
<1>2. /\ IsFiniteSet(Held) /\ Cardinality(Held) \in Nat /\ Cardinality(Held) <= MaxEntries
      /\ MaxEntries \in Nat \ {0} /\ MaxBytes \in Nat
    BY FS_CardinalityType, BoundsAssumption DEF Bounding, CacheBounded
<1>3. /\ IsFiniteSet(Held \ B) /\ Cardinality(Held \ B) \in Nat
      /\ Cardinality(Held \ B) <= Cardinality(Held)
  <2>1. Held \ B \in SUBSET Held
      OBVIOUS
  <2> QED BY <1>2, <2>1, FS_Subset, FS_CardinalityType
<1>4. IsFiniteSet(Held \ D) /\ Cardinality(Held \ D) < MaxEntries
  <2>1. CASE Cardinality(Held \ B) >= MaxEntries
    <3>1. Held \ D = (Held \ B) \ (D \ B) /\ (Held \ B) \cap (D \ B) = D \ B
        BY <1>1, <2>1
    <3>2. /\ IsFiniteSet((Held \ B) \ (D \ B))
          /\ Cardinality((Held \ B) \ (D \ B))
                = Cardinality(Held \ B) - Cardinality((Held \ B) \cap (D \ B))
        BY <1>3, FS_Difference
    <3> QED BY <1>1, <1>2, <1>3, <2>1, <3>1, <3>2
  <2>2. CASE ~ (Cardinality(Held \ B) >= MaxEntries)
      BY <1>1, <1>2, <1>3, <2>2
  <2> QED BY <2>1, <2>2
<1>5. B \subseteq D
    BY <1>1
<1> DEFINE f == SizesWithout(B)
           g == SizesWithout(D)
<1>6. f \in [Key -> Nat] /\ g \in [Key -> Nat]
    BY SizesType DEF Bounding
<1>7. (\A k \in Key \ Held : f[k] = 0) /\ Held \in SUBSET Key
    BY DEF SizesWithout, Held
<1>8. \A k \in Key : g[k] <= f[k]
  <2> TAKE k \in Key
  <2>1. f[k] \in Nat
      BY <1>6
  <2>2. g[k] = f[k] \/ g[k] = 0
      BY <1>5 DEF SizesWithout
  <2> QED BY <2>1, <2>2
<1>9. B = Held => \A k \in Key : f[k] = 0
    BY DEF SizesWithout
<1>10. Fits(B, n) => B = Held \/ Total(f) + n <= MaxBytes
    BY DEF Fits
<1> HIDE DEF f, g
<1>11. Total(f) \in Nat /\ Total(g) \in Nat /\ Total(g) <= Total(f)
    BY <1>2, <1>6, <1>7, <1>8, SizesShrink
<1>12. B = Held => Total(f) = 0
    BY <1>6, <1>9, TotalZero
<1>13. Total(g) + n <= MaxBytes
    BY <1>1, <1>2, <1>10, <1>11, <1>12
<1> QED BY <1>4, <1>11, <1>13 DEF g

\* An insertion keeps both bounds.
LEMMA InsertBounds ==
    ASSUME Bounding, NEW t \in Callers, NEW D \in SUBSET Held, Insert(t, D)
    PROVE  Bounding'
<1>0. Computing'
    BY InsertComputes DEF Bounding
<1> DEFINE k == want[t]
           n == result[t].size
<1>1. /\ k \in Key /\ k \notin Held /\ result[t] \in Snapshot
      /\ cache \in [Key -> Entry \cup {None}]
    BY DEF Bounding, Computing, NotCached, Sharing, TypeOK, Insert, Fallible
<1>2. n \in 1..MaxBytes /\ n \in Nat
    BY <1>1, BoundsAssumption DEF Snapshot
<1>3. /\ cache' = [Without(D) EXCEPT ![k] = [snapshot |-> result[t], aged |-> FALSE]]
      /\ Evicted(D, n)
    BY DEF Insert
<1>4. [snapshot |-> result[t], aged |-> FALSE] # None
  <2>1. [snapshot |-> result[t], aged |-> FALSE] \in Entry
      BY <1>1 DEF Entry
  <2> QED BY <2>1, NoneAssumption
<1>5. Held' = (Held \ D) \cup {k}
    BY <1>1, <1>3, <1>4 DEF Held, Without
<1>6. SizesWithout({})' = [SizesWithout(D) EXCEPT ![k] = n]
  <2>1. \A j \in Held \ D : cache'[j] = cache[j] /\ j # k
      BY <1>1, <1>3 DEF Held, Without
  <2>2. cache'[k].snapshot.size = n
      BY <1>1, <1>3 DEF Without
  <2>3. /\ SizesWithout({})' = [j \in Key |-> IF j \in Held' THEN cache'[j].snapshot.size ELSE 0]
        /\ SizesWithout(D) = [j \in Key |-> IF j \in Held \ D THEN cache[j].snapshot.size ELSE 0]
      BY DEF SizesWithout
  <2>4. \A j \in Key : (IF j \in Held' THEN cache'[j].snapshot.size ELSE 0)
            = IF j = k THEN n ELSE IF j \in Held \ D THEN cache[j].snapshot.size ELSE 0
      BY <1>5, <2>1, <2>2
  <2> QED BY <1>1, <2>3, <2>4
<1>7. /\ IsFiniteSet(Held \ D) /\ Cardinality(Held \ D) < MaxEntries
      /\ Total(SizesWithout(D)) \in Nat /\ Total(SizesWithout(D)) + n <= MaxBytes
    BY <1>2, <1>3, EvictedFits
<1>8. /\ IsFiniteSet(Held') /\ Cardinality(Held') = Cardinality(Held \ D) + 1
      /\ Cardinality(Held \ D) \in Nat
    BY <1>1, <1>5, <1>7, FS_AddElement, FS_CardinalityType
<1>9. Bytes' = Total(SizesWithout(D)) + n
  <2>1. SizesWithout(D) \in [Key -> Nat]
      BY SizesType DEF Bounding
  <2>2. SizesWithout(D)[k] = 0 /\ \A j \in Key \ Held : SizesWithout(D)[j] = 0
      BY <1>1 DEF SizesWithout
  <2>3. Held \in SUBSET Key /\ IsFiniteSet(Held)
      BY DEF Held, Bounding
  <2> HIDE DEF k, n
  <2>4. Total([SizesWithout(D) EXCEPT ![k] = n]) = Total(SizesWithout(D)) + n
      BY <1>1, <1>2, <2>1, <2>2, <2>3, TotalGain, ZenonT(60)
  <2> QED BY <1>6, <2>4 DEF Bytes
<1>10. MaxEntries \in Nat
    BY BoundsAssumption
<1>11. Cardinality(Held') <= MaxEntries /\ Bytes' <= MaxBytes
    BY <1>7, <1>8, <1>9, <1>10
<1> QED BY <1>0, <1>8, <1>11 DEF Bounding, CacheBounded

\* The cache is empty at the start.
LEMMA BoundingInit == Init => Bounding
<1> SUFFICES ASSUME Init
             PROVE  Bounding
    OBVIOUS
<1>1. Held = {}
    BY DEF Init, Held
<1>2. IsFiniteSet(Held) /\ Cardinality(Held) = 0
    BY <1>1, FS_EmptySet
<1>3. SizesWithout({}) \in [Key -> Nat] /\ \A k \in Key : SizesWithout({})[k] = 0
    BY <1>1 DEF SizesWithout
<1>4. Bytes = 0
    BY <1>3, TotalZero DEF Bytes
<1> QED BY <1>2, <1>4, ComputingInit, BoundsAssumption DEF Bounding, CacheBounded

\* Only insertions add entries; lookups delete and all other steps keep them.
LEMMA BoundingStep == Bounding /\ [Next]_vars => Bounding'
<1> SUFFICES ASSUME Bounding, [Next]_vars
             PROVE  Bounding'
    OBVIOUS
<1>0. Computing' /\ cache \in [Key -> Entry \cup {None}]
    BY ComputingStep DEF Bounding, Computing, Sharing, TypeOK
<1>1. ASSUME UNCHANGED cache
      PROVE  Bounding'
    BY <1>0, <1>1, ShrinkBounds DEF Held
<1>2. ASSUME NEW D, cache' = Without(D)
      PROVE  Bounding'
  <2>1. Held' \subseteq Held /\ \A k \in Held' : cache'[k] = cache[k]
      BY <1>0, <1>2 DEF Held, Without
  <2> QED BY <1>0, <2>1, ShrinkBounds
<1>3. ASSUME NEW k \in Key, Age(k)
      PROVE  Bounding'
  <2>1. cache[k] \in Entry
      BY <1>0, <1>3 DEF Age, Held
  <2>2. cache'[k].snapshot = cache[k].snapshot /\ \A j \in Key \ {k} : cache'[j] = cache[j]
      BY <1>0, <1>3, <2>1 DEF Age, Entry
  <2>3. Held' \subseteq Held
      BY <1>3, <2>2 DEF Age, Held
  <2> QED BY <1>0, <2>2, <2>3, ShrinkBounds DEF Held
<1>4. CASE \E t \in Callers : \E D \in SUBSET Held : Insert(t, D)
    BY <1>4, InsertBounds
<1>5. CASE \E t \in Callers : Hit(t) \/ Join(t) \/ \E f \in Futures : Lead(t, f)
    BY <1>2, <1>5 DEF Hit, Join, Lead, Miss
<1>6. \/ UNCHANGED cache
      \/ \E t \in Callers : Hit(t) \/ Join(t) \/ \E f \in Futures : Lead(t, f)
      \/ \E t \in Callers : \E D \in SUBSET Held : Insert(t, D)
      \/ \E k \in Key : Age(k)
    BY DEF Next, Advance, vars, Stat, TakeSlot, SameFile, Publish, Fail, Cancel, Resolve, Pop,
           WorkerEnds, Follow, Retry, Return, GiveUp, FileChanges
<1> QED BY <1>1, <1>3, <1>4, <1>5, <1>6

\* Bounding is inductive.
THEOREM BoundingInvariant == Spec => []Bounding
BY BoundingInit, BoundingStep, PTL DEF Spec

\* The cache keeps its number of entries and its bytes, whatever leaders insert
\* snapshots of whatever sizes and in whatever order.
THEOREM CacheStaysBounded == Spec => []CacheBounded
BY BoundingInvariant, PTL DEF Bounding
=============================================================================
