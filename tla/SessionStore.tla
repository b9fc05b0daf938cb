---------------------------- MODULE SessionStore ----------------------------
(***************************************************************************)
(* DexSessions (sessions.py): the host-side store of private, immutable    *)
(* DEX and artifact preparations.  Tool calls run in worker threads and    *)
(* meet in one store lock; a preparation is pinned (Entry.users) while a   *)
(* query runs on its files, and is removed by expiry, eviction, close,     *)
(* the last release of a closed session, or shutdown.                      *)
(*                                                                         *)
(* Every critical section of the store lock is one action, except the      *)
(* publication of a lazy preparation: Entry.prepared is also read without  *)
(* the lock, so its two writes are two actions that hold `mutex'.          *)
(*                                                                         *)
(* Bytes are counted in abstract units.  A key is issued once, as a uuid   *)
(* is; the time since the last use is the flag `stale'.                    *)
(***************************************************************************)
EXTENDS Integers, FiniteSets, Totals

CONSTANTS
    Callers,      \* worker threads that serve tool calls
    Keys,         \* session identifiers, each issued at most once
    None,         \* no caller, no key
    MaxSessions,  \* settings.max_dex_sessions
    MaxBytes,     \* settings.max_dex_session_bytes
    IndexBudget,  \* settings.max_xref_index_bytes
    OpenNeeds,    \* reservations that DexSessions.open may ask for
    LoadNeeds,    \* reservations that load_artifact may ask for
    PrepNeed,     \* reservation of one lazy preparation
    ViewNeed,     \* reservation of one DEX 041 source view
    CacheMin,     \* reference_cache.MIN_ENTRY_BYTES
    CacheMax      \* reference_cache.MAX_SESSION_BYTES

ASSUME FiniteAssumption == IsFiniteSet(Callers) /\ IsFiniteSet(Keys)
ASSUME NoneAssumption == None \notin Callers /\ None \notin Keys
ASSUME QuotaAssumption ==
    /\ MaxSessions \in Nat \ {0}
    /\ {MaxBytes, IndexBudget, PrepNeed, ViewNeed} \subseteq Nat
    /\ CacheMin \in Nat /\ CacheMax \in Nat /\ CacheMin <= CacheMax
    /\ OpenNeeds \subseteq Nat /\ LoadNeeds \subseteq Nat
    /\ \A n \in OpenNeeds : IndexBudget <= n

VARIABLES
    entry,     \* key -> Entry, with the key's place in its life
    newer,     \* key -> the open keys used more recently (Entry.order)
    reserved,  \* DexSessions.reserved
    opening,   \* DexSessions.opening
    closed,    \* DexSessions.closed
    stop,      \* DexSessions.stop is set
    reaper,    \* the reaper thread
    mutex,     \* owner of DexSessions.lock between the two writes of a publication
    prep,      \* key -> owner of Entry.preparation_lock
    pc,        \* caller -> where its call stands
    pins,      \* caller -> the keys it has counted in Entry.users
    todo,      \* caller -> the pinned keys it has not yet seen prepared
    cur,       \* caller -> the key it builds or prepares
    hold,      \* caller -> its outstanding reservation
    made       \* caller -> the size it is about to charge

store == <<entry, newer, reserved, opening, closed>>
thread == <<pc, pins, todo, cur, hold, made>>
vars == <<store, stop, reaper, mutex, prep, thread>>

Blank(s) == [state |-> s, artifact |-> FALSE, size |-> 0, users |-> 0,
             closing |-> FALSE, prepared |-> FALSE, info |-> FALSE, root |-> FALSE,
             cache |-> FALSE, stale |-> FALSE]
Fresh == Blank("free")
Gone == Blank("gone")

EntryType == [state : {"free", "building", "open", "gone"}, artifact : BOOLEAN,
              size : Nat, users : Nat, closing : BOOLEAN, prepared : BOOLEAN,
              info : BOOLEAN, root : BOOLEAN, cache : BOOLEAN, stale : BOOLEAN]

Init ==
    /\ entry = [k \in Keys |-> Fresh]
    /\ newer = [k \in Keys |-> {}]
    /\ reserved = 0 /\ opening = 0 /\ closed = FALSE
    /\ stop = FALSE /\ reaper = "none"
    /\ mutex = None
    /\ prep = [k \in Keys |-> None]
    /\ pc = [t \in Callers |-> "idle"]
    /\ pins = [t \in Callers |-> {}]
    /\ todo = [t \in Callers |-> {}]
    /\ cur = [t \in Callers |-> None]
    /\ hold = [t \in Callers |-> 0]
    /\ made = [t \in Callers |-> 0]

\* self.entries, and what _expire and the eviction loop may take from it.
Open == {k \in Keys : entry[k].state = "open"}
Idle == {k \in Open : entry[k].users = 0}

\* Mutant: expiry looks at the mark and not at the users.
ExpirableWhilePinned == {k \in Open : entry[k].closing \/ entry[k].stale}
Expirable == {k \in Idle : entry[k].closing \/ entry[k].stale}

\* sum(e.size for e in self.entries.values()) once the keys of D are dropped.
SizesWithout(D) == [k \in Keys |-> IF k \in D THEN 0 ELSE entry[k].size]
Used == Total(SizesWithout({}))

Unlocked == mutex = None

\* _drop of every key of D: storage.cleanup() and del self.entries[key].
Dropped(e, D) == [k \in Keys |-> IF k \in D THEN Gone ELSE e[k]]
Forget(D) == [k \in Keys |-> IF k \in D THEN {} ELSE newer[k] \ D]
\* entry.order = next(self.order): k becomes the most recently used key.
Touched(k) == [j \in Keys |-> IF j = k \/ j \notin Open THEN {} ELSE newer[j] \cup {k}]

\* Mutant: the disk test forgets what running workers have reserved.
FitsStoredOnly(D, n, o) ==
    /\ o = 1 => Cardinality(Open \ D) + opening < MaxSessions
    /\ Total(SizesWithout(D)) + n <= MaxBytes

\* Mutant: the session test forgets the sessions being built.
FitsWithoutOpening(D, n, o) ==
    /\ o = 1 => Cardinality(Open \ D) < MaxSessions
    /\ Total(SizesWithout(D)) + reserved + n <= MaxBytes

(***************************************************************************)
(* _reserve.  After _expire, the least recently used idle entries are      *)
(* dropped one at a time until the request fits; when none is left and it  *)
(* still does not fit, the request is refused and they stay dropped.       *)
(***************************************************************************)
Fits(D, n, o) ==
    /\ o = 1 => Cardinality(Open \ D) + opening < MaxSessions
    /\ Total(SizesWithout(D)) + reserved + n <= MaxBytes

\* The sets of idle entries that the loop may have dropped at some iteration.
Evictions ==
    {E \in SUBSET (Idle \ Expirable) :
        \A k \in E, j \in (Idle \ Expirable) \ E : j \in newer[k]}

Reserves(n, o, D) ==
    /\ Unlocked /\ ~closed /\ n <= MaxBytes
    /\ D \in {Expirable \cup E : E \in Evictions}
    /\ Fits(D, n, o)
    /\ \A E \in Evictions : Fits(Expirable \cup E, n, o) => D \subseteq Expirable \cup E

Refuses(n, o, D) ==
    /\ Unlocked
    /\ \/ closed /\ D = {}
       \/ ~closed /\ n > MaxBytes /\ D = Expirable
       \/ ~closed /\ n <= MaxBytes /\ D = Idle /\ ~Fits(Idle, n, o)

StartReaper == reaper' = IF reaper = "none" THEN "waiting" ELSE reaper

(***************************************************************************)
(* open and load_artifact.  The supervised worker writes into a fresh      *)
(* directory outside the lock; k stands for that directory and, once it is *)
(* committed, for the session identifier.                                  *)
(***************************************************************************)
BeginOpen(t, k, n, artifact, D) ==
    /\ pc[t] = "idle" /\ entry[k].state = "free"
    /\ Reserves(n, 1, D)
    /\ entry' = Dropped([entry EXCEPT ![k].state = "building", ![k].artifact = artifact], D)
    /\ newer' = Forget(D)
    /\ reserved' = reserved + n /\ opening' = opening + 1
    /\ StartReaper
    /\ pc' = [pc EXCEPT ![t] = "open_worker"]
    /\ cur' = [cur EXCEPT ![t] = k]
    /\ hold' = [hold EXCEPT ![t] = n]
    /\ UNCHANGED <<closed, stop, mutex, prep, pins, todo, made>>

RefuseOpen(t, n, D) ==
    /\ pc[t] = "idle" /\ Refuses(n, 1, D)
    /\ entry' = Dropped(entry, D) /\ newer' = Forget(D)
    /\ UNCHANGED <<reserved, opening, closed, stop, reaper, mutex, prep, thread>>

\* What the files of a finished worker measure.  The budgets it is given
\* leave the index budget in the reservation of `open' unused; the host
\* itself only refuses a size beyond the whole reservation.
WorkerSizes(n, index) == 0..(n - index)

OpenWorkerEnds(t, m) ==
    /\ pc[t] = "open_worker"
    /\ LET index == IF entry[cur[t]].artifact THEN 0 ELSE IndexBudget IN
        /\ m \in WorkerSizes(hold[t], index)
        /\ made' = [made EXCEPT ![t] = m + index]
    /\ pc' = [pc EXCEPT ![t] = "open_built"]
    /\ UNCHANGED <<store, stop, reaper, mutex, prep, pins, todo, cur, hold>>

\* An error status, an exception, a cancellation or an oversized result.
OpenWorkerFails(t) ==
    /\ pc[t] = "open_worker"
    /\ pc' = [pc EXCEPT ![t] = "open_undo"]
    /\ UNCHANGED <<store, stop, reaper, mutex, prep, pins, todo, cur, hold, made>>

\* Mutant: the store is not looked at again before the commit.
CommitOpenUnchecked(t) ==
    /\ pc[t] = "open_built" /\ Unlocked
    /\ LET k == cur[t] IN
        /\ entry' = [entry EXCEPT ![k].state = "open", ![k].size = made[t],
                                  ![k].prepared = ~entry[k].artifact,
                                  ![k].info = ~entry[k].artifact]
        /\ newer' = Touched(k)
    /\ pc' = [pc EXCEPT ![t] = "open_end"]
    /\ UNCHANGED <<reserved, opening, closed, stop, reaper, mutex, prep,
                   pins, todo, cur, hold, made>>

CommitOpen(t) ==
    /\ pc[t] = "open_built" /\ Unlocked /\ ~closed
    /\ LET k == cur[t]
           dex == ~entry[k].artifact IN
        /\ entry' = [entry EXCEPT ![k].state = "open", ![k].size = made[t],
                                  ![k].prepared = dex, ![k].info = dex]
        /\ newer' = Touched(k)
    /\ pc' = [pc EXCEPT ![t] = "open_end"]
    /\ UNCHANGED <<reserved, opening, closed, stop, reaper, mutex, prep,
                   pins, todo, cur, hold, made>>

ClosedDuringOpen(t) ==
    /\ pc[t] = "open_built" /\ Unlocked /\ closed
    /\ pc' = [pc EXCEPT ![t] = "open_undo"]
    /\ UNCHANGED <<store, stop, reaper, mutex, prep, pins, todo, cur, hold, made>>

\* Mutant: the cleanup of a failed open already returns the reservation.
UndoOpenReturns(t) ==
    /\ pc[t] = "open_undo"
    /\ entry' = Dropped(entry, {cur[t]})
    /\ reserved' = reserved - hold[t]
    /\ pc' = [pc EXCEPT ![t] = "open_end"]
    /\ UNCHANGED <<newer, opening, closed, stop, reaper, mutex, prep,
                   pins, todo, cur, hold, made>>

\* finally: storage.cleanup() of an uncommitted directory.
UndoOpen(t) ==
    /\ pc[t] = "open_undo"
    /\ entry' = Dropped(entry, {cur[t]})
    /\ pc' = [pc EXCEPT ![t] = "open_end"]
    /\ UNCHANGED <<newer, reserved, opening, closed, stop, reaper, mutex, prep,
                   pins, todo, cur, hold, made>>

EndOpen(t) ==
    /\ pc[t] = "open_end" /\ Unlocked
    /\ opening' = opening - 1 /\ reserved' = reserved - hold[t]
    /\ hold' = [hold EXCEPT ![t] = 0] /\ made' = [made EXCEPT ![t] = 0]
    /\ cur' = [cur EXCEPT ![t] = None]
    /\ pc' = [pc EXCEPT ![t] = "idle"]
    /\ UNCHANGED <<entry, newer, closed, stop, reaper, mutex, prep, pins, todo>>

(***************************************************************************)
(* query, query_artifact and compare pin their sessions in one critical    *)
(* section.  A query is a comparison of one session; query_artifact needs  *)
(* no preparation.                                                         *)
(***************************************************************************)
\* Mutant: a closing session still accepts queries.
PinnableWhileClosing == IF closed THEN {} ELSE Open \ Expirable

Pinnable == IF closed THEN {} ELSE {k \in Open \ Expirable : ~entry[k].closing}

Pin(t, K) ==
    /\ pc[t] = "idle" /\ Unlocked
    /\ K \subseteq Pinnable
    /\ entry' = [k \in Keys |->
                    IF k \in Expirable THEN Gone
                    ELSE IF k \in K THEN [entry[k] EXCEPT !.users = @ + 1]
                    ELSE entry[k]]
    /\ newer' = Forget(Expirable)
    /\ pins' = [pins EXCEPT ![t] = K]
    /\ UNCHANGED <<reserved, opening, closed, stop, reaper, mutex, prep, cur, hold, made>>

BeginQuery(t, K) ==
    /\ Pin(t, K)
    /\ pc' = [pc EXCEPT ![t] = "prep_next"]
    /\ todo' = [todo EXCEPT ![t] = K]

BeginArchiveQuery(t, k) ==
    /\ entry[k].artifact
    /\ Pin(t, {k})
    /\ pc' = [pc EXCEPT ![t] = "archive_run"]
    /\ UNCHANGED todo

\* status, and any lookup that finds no session: all they change is _expire.
Status(t) ==
    /\ pc[t] = "idle" /\ Unlocked /\ Expirable # {}
    /\ entry' = Dropped(entry, Expirable) /\ newer' = Forget(Expirable)
    /\ UNCHANGED <<reserved, opening, closed, stop, reaper, mutex, prep, thread>>

(***************************************************************************)
(* _prepare_analysis.                                                      *)
(***************************************************************************)
SkipPrep(t, k) ==
    /\ pc[t] = "prep_next" /\ k \in todo[t] /\ entry[k].prepared
    /\ todo' = [todo EXCEPT ![t] = @ \ {k}]
    /\ UNCHANGED <<store, stop, reaper, mutex, prep, pc, pins, cur, hold, made>>

WantPrep(t, k) ==
    /\ pc[t] = "prep_next" /\ k \in todo[t] /\ ~entry[k].prepared
    /\ pc' = [pc EXCEPT ![t] = "prep_wait"]
    /\ cur' = [cur EXCEPT ![t] = k]
    /\ UNCHANGED <<store, stop, reaper, mutex, prep, pins, todo, hold, made>>

TakePrep(t) ==
    /\ pc[t] = "prep_wait" /\ prep[cur[t]] = None
    /\ prep' = [prep EXCEPT ![cur[t]] = t]
    /\ pc' = [pc EXCEPT ![t] = "prep_check"]
    /\ UNCHANGED <<store, stop, reaper, mutex, pins, todo, cur, hold, made>>

\* _acquire gives up: the call's deadline passed or it was cancelled.
TimeoutPrep(t) ==
    /\ pc[t] = "prep_wait"
    /\ pc' = [pc EXCEPT ![t] = "release"]
    /\ cur' = [cur EXCEPT ![t] = None]
    /\ todo' = [todo EXCEPT ![t] = {}]
    /\ UNCHANGED <<store, stop, reaper, mutex, prep, pins, hold, made>>

\* Mutant: whoever waited for the lock takes the session for prepared.
FindPreparedUnchecked(t) ==
    /\ pc[t] = "prep_check"
    /\ prep' = [prep EXCEPT ![cur[t]] = None]
    /\ todo' = [todo EXCEPT ![t] = @ \ {cur[t]}]
    /\ cur' = [cur EXCEPT ![t] = None]
    /\ pc' = [pc EXCEPT ![t] = "prep_next"]
    /\ UNCHANGED <<store, stop, reaper, mutex, pins, hold, made>>

\* Another caller prepared the session while this one waited.
FindPrepared(t) ==
    /\ pc[t] = "prep_check" /\ entry[cur[t]].prepared
    /\ prep' = [prep EXCEPT ![cur[t]] = None]
    /\ todo' = [todo EXCEPT ![t] = @ \ {cur[t]}]
    /\ cur' = [cur EXCEPT ![t] = None]
    /\ pc' = [pc EXCEPT ![t] = "prep_next"]
    /\ UNCHANGED <<store, stop, reaper, mutex, pins, hold, made>>

ReservePrep(t, D) ==
    /\ pc[t] = "prep_check" /\ ~entry[cur[t]].prepared
    /\ Reserves(PrepNeed, 0, D)
    /\ entry' = Dropped(entry, D) /\ newer' = Forget(D)
    /\ reserved' = reserved + PrepNeed
    /\ hold' = [hold EXCEPT ![t] = PrepNeed]
    /\ StartReaper
    /\ pc' = [pc EXCEPT ![t] = "prep_worker"]
    /\ UNCHANGED <<opening, closed, stop, mutex, prep, pins, todo, cur, made>>

RefusePrep(t, D) ==
    /\ pc[t] = "prep_check" /\ ~entry[cur[t]].prepared
    /\ Refuses(PrepNeed, 0, D)
    /\ entry' = Dropped(entry, D) /\ newer' = Forget(D)
    /\ prep' = [prep EXCEPT ![cur[t]] = None]
    /\ pc' = [pc EXCEPT ![t] = "release"]
    /\ cur' = [cur EXCEPT ![t] = None]
    /\ todo' = [todo EXCEPT ![t] = {}]
    /\ UNCHANGED <<reserved, opening, closed, stop, reaper, mutex, pins, hold, made>>

\* root.mkdir() and the worker's files below it.
PrepWorkerEnds(t, m) ==
    /\ pc[t] = "prep_worker"
    /\ entry' = [entry EXCEPT ![cur[t]].root = TRUE]
    /\ m + IndexBudget <= hold[t]
    /\ made' = [made EXCEPT ![t] = m + IndexBudget]
    /\ pc' = [pc EXCEPT ![t] = "prep_built"]
    /\ UNCHANGED <<newer, reserved, opening, closed, stop, reaper, mutex, prep,
                   pins, todo, cur, hold>>

\* As OpenWorkerFails; an oversized preparation is one of the failures.
PrepWorkerFails(t) ==
    /\ pc[t] = "prep_worker"
    /\ entry' = [entry EXCEPT ![cur[t]].root = TRUE]
    /\ pc' = [pc EXCEPT ![t] = "prep_undo"]
    /\ UNCHANGED <<newer, reserved, opening, closed, stop, reaper, mutex, prep,
                   pins, todo, cur, hold, made>>

PublishInfo(t) ==
    /\ pc[t] = "prep_built" /\ Unlocked
    /\ mutex' = t
    /\ entry' = [entry EXCEPT ![cur[t]].info = TRUE, ![cur[t]].size = @ + made[t]]
    /\ pc' = [pc EXCEPT ![t] = "prep_publish"]
    /\ UNCHANGED <<newer, reserved, opening, closed, stop, reaper, prep,
                   pins, todo, cur, hold, made>>

PublishReady(t) ==
    /\ pc[t] = "prep_publish"
    /\ mutex' = None
    /\ entry' = [entry EXCEPT ![cur[t]].prepared = TRUE]
    /\ pc' = [pc EXCEPT ![t] = "prep_done"]
    /\ UNCHANGED <<newer, reserved, opening, closed, stop, reaper, prep,
                   pins, todo, cur, hold, made>>

\* Mutant: a failed preparation leaves its directory behind.
UndoPrepKeepsRoot(t) ==
    /\ pc[t] = "prep_undo"
    /\ pc' = [pc EXCEPT ![t] = "prep_fail"]
    /\ UNCHANGED <<store, stop, reaper, mutex, prep, pins, todo, cur, hold, made>>

\* finally: shutil.rmtree(root) of an uncommitted preparation.
UndoPrep(t) ==
    /\ pc[t] = "prep_undo"
    /\ entry' = [entry EXCEPT ![cur[t]].root = FALSE]
    /\ pc' = [pc EXCEPT ![t] = "prep_fail"]
    /\ UNCHANGED <<newer, reserved, opening, closed, stop, reaper, mutex, prep,
                   pins, todo, cur, hold, made>>

\* finally: the reservation returns, then the preparation lock.
EndPrep(t) ==
    /\ pc[t] \in {"prep_done", "prep_fail"} /\ Unlocked
    /\ reserved' = reserved - hold[t]
    /\ hold' = [hold EXCEPT ![t] = 0] /\ made' = [made EXCEPT ![t] = 0]
    /\ prep' = [prep EXCEPT ![cur[t]] = None]
    /\ cur' = [cur EXCEPT ![t] = None]
    /\ \/ /\ pc[t] = "prep_done"
          /\ todo' = [todo EXCEPT ![t] = @ \ {cur[t]}]
          /\ pc' = [pc EXCEPT ![t] = "prep_next"]
       \/ /\ pc[t] = "prep_fail"
          /\ todo' = [todo EXCEPT ![t] = {}]
          /\ pc' = [pc EXCEPT ![t] = "release"]
    /\ UNCHANGED <<entry, newer, opening, closed, stop, reaper, mutex, pins>>

(***************************************************************************)
(* _query_entry, for a query whose sessions are all prepared.              *)
(***************************************************************************)
StartQuery(t) ==
    /\ pc[t] = "prep_next" /\ todo[t] = {}
    /\ pc' = [pc EXCEPT ![t] = "query_run"]
    /\ UNCHANGED <<store, stop, reaper, mutex, prep, pins, todo, cur, hold, made>>

\* A DEX 041 session reserves room for a source view while the query runs.
ReserveView(t, D) ==
    /\ pc[t] = "query_run" /\ Cardinality(pins[t]) = 1
    /\ Reserves(ViewNeed, 0, D)
    /\ entry' = Dropped(entry, D) /\ newer' = Forget(D)
    /\ reserved' = reserved + ViewNeed
    /\ hold' = [hold EXCEPT ![t] = ViewNeed]
    /\ StartReaper
    /\ pc' = [pc EXCEPT ![t] = "view_run"]
    /\ UNCHANGED <<opening, closed, stop, mutex, prep, pins, todo, cur, made>>

RefuseView(t, D) ==
    /\ pc[t] = "query_run" /\ Cardinality(pins[t]) = 1
    /\ Refuses(ViewNeed, 0, D)
    /\ entry' = Dropped(entry, D) /\ newer' = Forget(D)
    /\ pc' = [pc EXCEPT ![t] = "release"]
    /\ UNCHANGED <<reserved, opening, closed, stop, reaper, mutex, prep,
                   pins, todo, cur, hold, made>>

\* Mutant: the reservation of a view is not returned.
EndViewKeeps(t) ==
    /\ pc[t] = "view_run" /\ Unlocked
    /\ hold' = [hold EXCEPT ![t] = 0]
    /\ pc' = [pc EXCEPT ![t] = "release"]
    /\ UNCHANGED <<store, stop, reaper, mutex, prep, pins, todo, cur, made>>

EndView(t) ==
    /\ pc[t] = "view_run" /\ Unlocked
    /\ reserved' = reserved - hold[t]
    /\ hold' = [hold EXCEPT ![t] = 0]
    /\ pc' = [pc EXCEPT ![t] = "release"]
    /\ UNCHANGED <<entry, newer, opening, closed, stop, reaper, mutex, prep,
                   pins, todo, cur, made>>

\* _reference_cache: once per entry, out of what is free at that moment.
TakeCache(t, k) ==
    /\ pc[t] = "query_run" /\ pins[t] = {k} /\ Unlocked
    /\ ~entry[k].cache
    /\ LET free == MaxBytes - reserved - Used IN
        /\ free >= CacheMin
        /\ entry' = [entry EXCEPT ![k].cache = TRUE,
                                  ![k].size = @ + (IF free < CacheMax THEN free ELSE CacheMax)]
    /\ UNCHANGED <<newer, reserved, opening, closed, stop, reaper, mutex, prep, thread>>

\* The supervised query ends, in whatever way.
EndQuery(t) ==
    /\ pc[t] \in {"query_run", "archive_run"}
    /\ pc' = [pc EXCEPT ![t] = "release"]
    /\ UNCHANGED <<store, stop, reaper, mutex, prep, pins, todo, cur, hold, made>>

\* Mutant: the last release leaves a closed session to the next _expire.
ReleaseWithoutDrop(t, k) ==
    /\ pc[t] = "release" /\ k \in pins[t] /\ Unlocked
    /\ pins' = [pins EXCEPT ![t] = @ \ {k}]
    /\ entry' = [entry EXCEPT ![k].users = @ - 1, ![k].stale = FALSE]
    /\ newer' = Touched(k)
    /\ pc' = [pc EXCEPT ![t] = IF pins[t] = {k} THEN "idle" ELSE "release"]
    /\ UNCHANGED <<reserved, opening, closed, stop, reaper, mutex, prep,
                   todo, cur, hold, made>>

\* _release.  compare unpins its two sessions one after the other.
Release(t, k) ==
    /\ pc[t] = "release" /\ k \in pins[t] /\ Unlocked
    /\ pins' = [pins EXCEPT ![t] = @ \ {k}]
    /\ IF entry[k].closing /\ entry[k].users = 1
       THEN entry' = Dropped(entry, {k}) /\ newer' = Forget({k})
       ELSE /\ entry' = [entry EXCEPT ![k].users = @ - 1, ![k].stale = FALSE]
            /\ newer' = Touched(k)
    /\ pc' = [pc EXCEPT ![t] = IF pins[t] = {k} THEN "idle" ELSE "release"]
    /\ UNCHANGED <<reserved, opening, closed, stop, reaper, mutex, prep,
                   todo, cur, hold, made>>

(***************************************************************************)
(* close, the passing of time, the reaper and shutdown.                    *)
(***************************************************************************)
Close(t, k) ==
    /\ pc[t] = "idle" /\ Unlocked /\ k \in Open \ Expirable
    /\ ~entry[k].closing
    /\ IF entry[k].users = 0
       THEN entry' = Dropped(entry, Expirable \cup {k}) /\ newer' = Forget(Expirable \cup {k})
       ELSE /\ entry' = Dropped([entry EXCEPT ![k].closing = TRUE], Expirable)
            /\ newer' = Forget(Expirable)
    /\ UNCHANGED <<reserved, opening, closed, stop, reaper, mutex, prep, thread>>

\* dex_session_ttl_seconds pass with k unused; a pinned entry is touched
\* by its release before _expire may look at it.
GoStale(k) ==
    /\ k \in Idle /\ ~entry[k].stale
    /\ entry' = [entry EXCEPT ![k].stale = TRUE]
    /\ UNCHANGED <<newer, reserved, opening, closed, stop, reaper, mutex, prep, thread>>

\* Mutant: the reaper sweeps once and ends.
ReaperSweepsOnce ==
    /\ reaper = "waiting" /\ Unlocked
    /\ entry' = Dropped(entry, Expirable) /\ newer' = Forget(Expirable)
    /\ reaper' = "done"
    /\ UNCHANGED <<reserved, opening, closed, stop, mutex, prep, thread>>

\* The reaper may have woken just before stop was set.
ReaperSweeps ==
    /\ reaper = "waiting" /\ Unlocked
    /\ entry' = Dropped(entry, Expirable) /\ newer' = Forget(Expirable)
    /\ UNCHANGED <<reserved, opening, closed, stop, reaper, mutex, prep, thread>>

ReaperStops ==
    /\ reaper = "waiting" /\ stop
    /\ reaper' = "done"
    /\ UNCHANGED <<store, stop, mutex, prep, thread>>

ShutdownBegins ==
    /\ ~stop
    /\ stop' = TRUE
    /\ UNCHANGED <<store, reaper, mutex, prep, thread>>

\* Mutant: shutdown drops every session, pinned or not.
ShutdownDropsAll ==
    /\ stop /\ ~closed /\ Unlocked
    /\ closed' = TRUE
    /\ entry' = Dropped(entry, Open) /\ newer' = Forget(Open)
    /\ UNCHANGED <<reserved, opening, stop, reaper, mutex, prep, thread>>

\* reaper.join gives up after two seconds, so the reaper may still sweep.
ShutdownCloses ==
    /\ stop /\ ~closed /\ Unlocked
    /\ closed' = TRUE
    /\ entry' = [k \in Keys |-> IF k \in Idle THEN Gone
                                ELSE IF k \in Open THEN [entry[k] EXCEPT !.closing = TRUE]
                                ELSE entry[k]]
    /\ newer' = Forget(Idle)
    /\ UNCHANGED <<reserved, opening, stop, reaper, mutex, prep, thread>>

\* After shutdown every call has returned and nothing is left to do.
Stopped ==
    /\ closed /\ reaper \in {"none", "done"}
    /\ \A t \in Callers : pc[t] = "idle"
    /\ UNCHANGED vars

-----------------------------------------------------------------------------

\* What a caller does once its call has begun.
Advance(t) ==
    /\ pc[t] # "idle"
    /\ \/ \E m \in 0..hold[t] : OpenWorkerEnds(t, m) \/ PrepWorkerEnds(t, m)
       \/ OpenWorkerFails(t) \/ CommitOpen(t) \/ ClosedDuringOpen(t)
       \/ UndoOpen(t) \/ EndOpen(t)
       \/ \E k \in Keys : SkipPrep(t, k) \/ WantPrep(t, k) \/ Release(t, k)
       \/ TakePrep(t) \/ TimeoutPrep(t) \/ FindPrepared(t)
       \/ \E D \in SUBSET Keys : ReservePrep(t, D) \/ RefusePrep(t, D)
       \/ PrepWorkerFails(t) \/ PublishInfo(t) \/ PublishReady(t)
       \/ UndoPrep(t) \/ EndPrep(t)
       \/ StartQuery(t) \/ EndView(t) \/ EndQuery(t)

\* What it may but need not do.
Call(t) ==
    \/ \E k \in Keys, D \in SUBSET Keys :
        \/ \E n \in OpenNeeds : BeginOpen(t, k, n, FALSE, D)
        \/ \E n \in LoadNeeds : BeginOpen(t, k, n, TRUE, D)
    \/ \E D \in SUBSET Keys : \E n \in OpenNeeds \cup LoadNeeds : RefuseOpen(t, n, D)
    \/ \E K \in SUBSET Keys : Cardinality(K) \in 1..2 /\ BeginQuery(t, K)
    \/ \E k \in Keys : BeginArchiveQuery(t, k) \/ Close(t, k) \/ TakeCache(t, k)
    \/ \E D \in SUBSET Keys : ReserveView(t, D) \/ RefuseView(t, D)
    \/ Status(t)

Background ==
    \/ \E k \in Keys : GoStale(k)
    \/ ReaperSweeps \/ ReaperStops
    \/ ShutdownBegins \/ ShutdownCloses

Next == (\E t \in Callers : Advance(t) \/ Call(t)) \/ Background \/ Stopped

Spec == Init /\ [][Next]_vars

\* A call ends because its worker has a deadline and every wait a timeout;
\* the reaper wakes at each interval; shutdown, once begun, goes on.
Fairness ==
    /\ \A t \in Callers : WF_vars(Advance(t))
    /\ WF_vars(ReaperSweeps)
    /\ WF_vars(ShutdownCloses)

FairSpec == Spec /\ Fairness
-----------------------------------------------------------------------------

Places == {"idle", "open_worker", "open_built", "open_undo", "open_end",
           "prep_next", "prep_wait", "prep_check", "prep_worker", "prep_built",
           "prep_publish", "prep_done", "prep_undo", "prep_fail",
           "query_run", "view_run", "archive_run", "release"}

\* Every variable keeps its type; in particular neither counter nor the size of
\* an entry ever becomes negative, on whatever path a call ends.
TypeOK ==
    /\ entry \in [Keys -> EntryType]
    /\ newer \in [Keys -> SUBSET Keys]
    /\ reserved \in Nat /\ opening \in Nat /\ closed \in BOOLEAN
    /\ stop \in BOOLEAN /\ reaper \in {"none", "waiting", "done"}
    /\ mutex \in Callers \cup {None}
    /\ prep \in [Keys -> Callers \cup {None}]
    /\ pc \in [Callers -> Places]
    /\ pins \in [Callers -> SUBSET Keys] /\ todo \in [Callers -> SUBSET Keys]
    /\ cur \in [Callers -> Keys \cup {None}]
    /\ hold \in [Callers -> Nat] /\ made \in [Callers -> Nat]

\* The callers that build a session, and those that count in `opening'.
Building == {"open_worker", "open_built", "open_undo"}
Builders == {t \in Callers : pc[t] \in Building}
Openers == {t \in Callers : pc[t] \in Building \cup {"open_end"}}

\* Users of a session, as its callers see it.
Holders(k) == {t \in Callers : k \in pins[t]}

\* A session stays in the store, with its files, as long as some query has it
\* pinned: no expiry, eviction, close or shutdown of another thread removes it.
\* Entry.users counts exactly those queries, so the last release can be seen.
PinnedIsOpen ==
    \A k \in Keys :
        /\ entry[k].users = Cardinality(Holders(k))
        /\ Holders(k) # {} => entry[k].state = "open"

\* A query runs only on sessions whose files and description are complete.
QueriesSeePreparation ==
    \A t \in Callers : pc[t] \in {"query_run", "view_run"} =>
        \A k \in pins[t] : entry[k].info /\ (entry[k].artifact => entry[k].root)

\* A lazy preparation is built by one caller at a time into a directory that
\* does not exist yet; a failed one leaves none behind (root.mkdir() never
\* meets the remains of another preparation, which its finally would remove).
FreshRoot ==
    \A t \in Callers : pc[t] = "prep_worker" => ~entry[cur[t]].root

\* The part of a reservation that no committed size stands for yet.
Settled == {"open_end", "prep_publish", "prep_done", "prep_fail"}
Claims == [t \in Callers |-> IF pc[t] \in Settled THEN 0 ELSE hold[t]]

\* What is stored and what running workers may still write never exceed the
\* disk budget together, whatever the callers reserve, commit, evict or undo.
DiskBudget == Used + Total(Claims) <= MaxBytes

\* At most max_dex_sessions sessions exist or are being built.
SessionBudget ==
    Cardinality(Open) + Cardinality(Builders) <= MaxSessions

\* The two counters are exactly what the running calls have outstanding: each
\* reservation is given back once, on every path out of a call.
ReservationsExact ==
    /\ reserved = Total(hold)
    /\ opening = Cardinality(Openers)

\* A session that is closing, or whose store is closed, gains no new query.
NoLateQuery ==
    [][\A k \in Keys : (closed \/ entry[k].closing) => entry'[k].users <= entry[k].users]_vars

\* The store implements the life of a session that its callers rely on.
Lease == INSTANCE SessionLease WITH
    state <- [k \in Keys |-> IF entry[k].state = "open" /\ entry[k].closing
                             THEN "closing" ELSE entry[k].state],
    holders <- [k \in Keys |-> Holders(k)]
ImplementsLease == Lease!Spec

\* A closed session is removed once its last query ends.
ClosingEnds ==
    \A k \in Keys : (entry[k].state = "open" /\ entry[k].closing) ~> (entry[k].state = "gone")

\* An idle session expires although no further call arrives.
StaleExpires ==
    \A k \in Keys : (entry[k].state = "open" /\ entry[k].stale) ~> (entry[k].state = "gone")

\* Shutdown leaves neither sessions nor reservations behind.
ShutdownEmpties ==
    stop ~> (reserved = 0 /\ opening = 0 /\ \A k \in Keys : entry[k].state \in {"free", "gone"})

=============================================================================
