-------------------------- MODULE SessionStoreProofs --------------------------
(***************************************************************************)
(* Proofs about the session store, for any number of callers and sessions  *)
(* and any budgets: it is well typed, keeps pinned sessions and accounts   *)
(* for its reservations exactly; it never exceeds its disk budget or its   *)
(* number of sessions; every query reads complete preparations, which      *)
(* never meet each other's files; and the store implements the life of a   *)
(* session that SessionLease describes.                                    *)
(***************************************************************************)
EXTENDS SessionStore, DataProofs

\* The places at which a call has a reservation outstanding, and those at
\* which it prepares the session cur.
Holding == Building \cup {"open_end", "prep_worker", "prep_built", "prep_publish",
                          "prep_done", "prep_undo", "prep_fail", "view_run"}
Owning == {"prep_check", "prep_worker", "prep_built", "prep_publish",
           "prep_done", "prep_undo", "prep_fail"}

\* What a caller has at each place.  Two callers never build the same key.
CallsOK ==
    \A t \in Callers :
        /\ pc[t] \in Building \cup {"open_end", "idle"} => pins[t] = {}
        /\ pc[t] \in Building => cur[t] \in Keys /\ entry[cur[t]].state = "building"
        /\ pc[t] \in Owning \cup {"prep_wait"} => cur[t] \in pins[t]
        /\ pc[t] \notin Holding => hold[t] = 0
        /\ todo[t] \subseteq pins[t]
        /\ pc[t] \in {"query_run", "view_run", "archive_run", "release"} => todo[t] = {}
        /\ \A u \in Callers :
            pc[t] \in Building /\ pc[u] \in Building /\ cur[t] = cur[u] => t = u

CoreInv == TypeOK /\ CallsOK /\ PinnedIsOpen /\ ReservationsExact

-----------------------------------------------------------------------------

LEMMA HoldersFinite ==
    ASSUME NEW k
    PROVE  IsFiniteSet(Holders(k)) /\ Cardinality(Holders(k)) \in Nat
<1>1. Holders(k) \in SUBSET Callers
    BY DEF Holders
<1> QED BY <1>1, FiniteAssumption, FS_Subset, FS_CardinalityType

\* Nobody holds an idle session.
LEMMA IdleUnheld ==
    ASSUME PinnedIsOpen, NEW k \in Keys, entry[k].users = 0
    PROVE  Holders(k) = {}
BY HoldersFinite, FS_EmptySet DEF PinnedIsOpen

LEMMA ExpirableIdle == Expirable \subseteq Idle /\ Idle \subseteq Open /\ Open \subseteq Keys
BY DEF Expirable, Idle, Open

\* _reserve drops idle sessions only, whether it succeeds or not.
LEMMA ReserveDropsIdle ==
    ASSUME NEW n, NEW o, NEW D, Reserves(n, o, D) \/ Refuses(n, o, D)
    PROVE  D \subseteq Idle
BY DEF Reserves, Refuses, Evictions, Expirable

LEMMA DroppedType ==
    ASSUME NEW e \in [Keys -> EntryType], NEW D
    PROVE  /\ Dropped(e, D) \in [Keys -> EntryType]
           /\ \A k \in Keys : k \in D => Dropped(e, D)[k] = Gone
           /\ \A k \in Keys : k \notin D => Dropped(e, D)[k] = e[k]
<1>1. Gone \in EntryType
    BY DEF Gone, Blank, EntryType
<1> QED BY <1>1 DEF Dropped

\* Dropping idle sessions, of entries that agree with the store on users and
\* state, disturbs no session in use and none under construction.
LEMMA IdleDropsKeep ==
    ASSUME NEW e \in [Keys -> EntryType], NEW D, D \subseteq Idle,
           \A j \in Keys : e[j].users = entry[j].users /\ e[j].state = entry[j].state
    PROVE  \A j \in Keys :
             /\ Dropped(e, D)[j].users = entry[j].users
             /\ entry[j].state = "building" => Dropped(e, D)[j].state = "building"
             /\ entry[j].users # 0 => Dropped(e, D)[j].state = entry[j].state
<1>1. Gone.users = 0
    BY DEF Gone, Blank
<1> SUFFICES ASSUME NEW j \in Keys
             PROVE  /\ Dropped(e, D)[j].users = entry[j].users
                    /\ entry[j].state = "building" => Dropped(e, D)[j].state = "building"
                    /\ entry[j].users # 0 => Dropped(e, D)[j].state = entry[j].state
    OBVIOUS
<1>2. CASE j \in D
  <2>1. entry[j].users = 0 /\ entry[j].state = "open"
      BY <1>2 DEF Idle, Open
  <2>2. Dropped(e, D)[j] = Gone
      BY <1>2, DroppedType
  <2> QED BY <1>1, <2>1, <2>2
<1>3. CASE j \notin D
  <2>1. Dropped(e, D)[j] = e[j]
      BY <1>3, DroppedType
  <2> QED BY <2>1
<1> QED BY <1>2, <1>3

\* Two fields of one entry at once: the updates of PublishInfo, TakeCache and
\* Release stay in the entry's type.
LEMMA ChargedInfo ==
    ASSUME NEW e \in [Keys -> EntryType], NEW k \in Keys, NEW n \in Nat
    PROVE  [e EXCEPT ![k].info = TRUE, ![k].size = @ + n] \in [Keys -> EntryType]
<1> DEFINE e1 == [e EXCEPT ![k].info = TRUE]
<1>1. e1 \in [Keys -> EntryType]
    BY DEF EntryType
<1>2. [e EXCEPT ![k].info = TRUE, ![k].size = @ + n] = [e1 EXCEPT ![k].size = @ + n]
    OBVIOUS
<1> HIDE DEF e1
<1>3. [e1 EXCEPT ![k].size = @ + n] \in [Keys -> EntryType]
    BY <1>1 DEF EntryType
<1> QED BY <1>2, <1>3

LEMMA ChargedCache ==
    ASSUME NEW e \in [Keys -> EntryType], NEW k \in Keys, NEW n \in Nat
    PROVE  [e EXCEPT ![k].cache = TRUE, ![k].size = @ + n] \in [Keys -> EntryType]
<1> DEFINE e1 == [e EXCEPT ![k].cache = TRUE]
<1>1. e1 \in [Keys -> EntryType]
    BY DEF EntryType
<1>2. [e EXCEPT ![k].cache = TRUE, ![k].size = @ + n] = [e1 EXCEPT ![k].size = @ + n]
    OBVIOUS
<1> HIDE DEF e1
<1>3. [e1 EXCEPT ![k].size = @ + n] \in [Keys -> EntryType]
    BY <1>1 DEF EntryType
<1> QED BY <1>2, <1>3

LEMMA Unpinned ==
    ASSUME NEW e \in [Keys -> EntryType], NEW k \in Keys, NEW n \in Nat, n <= e[k].users
    PROVE  [e EXCEPT ![k].users = @ - n, ![k].stale = FALSE] \in [Keys -> EntryType]
<1> DEFINE e1 == [e EXCEPT ![k].users = @ - n]
<1>1. e1 \in [Keys -> EntryType]
    BY DEF EntryType
<1>2. [e EXCEPT ![k].users = @ - n, ![k].stale = FALSE] = [e1 EXCEPT ![k].stale = FALSE]
    OBVIOUS
<1> HIDE DEF e1
<1>3. [e1 EXCEPT ![k].stale = FALSE] \in [Keys -> EntryType]
    BY <1>1, ZenonT(60) DEF EntryType
<1> QED BY <1>2, <1>3

LEMMA OrderType ==
    ASSUME TypeOK
    PROVE  /\ \A D \in SUBSET Keys : Forget(D) \in [Keys -> SUBSET Keys]
           /\ \A k \in Keys : Touched(k) \in [Keys -> SUBSET Keys]
BY DEF TypeOK, Forget, Touched

\* While no caller pins or unpins, PinnedIsOpen only needs the counts to stay
\* and the sessions in use to stay open.
LEMMA PinsKept ==
    ASSUME PinnedIsOpen, UNCHANGED pins,
           \A k \in Keys : /\ entry'[k].users = entry[k].users
                           /\ entry[k].state = "open" /\ entry[k].users # 0
                                => entry'[k].state = "open"
    PROVE  PinnedIsOpen'
<1>1. \A k \in Keys : Holders(k)' = Holders(k)
    BY DEF Holders
<1>2. \A k \in Keys : Holders(k) # {} => entry[k].users # 0
    BY HoldersFinite, FS_EmptySet DEF PinnedIsOpen
<1> QED BY <1>1, <1>2 DEF PinnedIsOpen

\* Dropping idle sessions keeps what PinsKept asks for.
LEMMA DropKeepsPins ==
    ASSUME TypeOK, PinnedIsOpen, UNCHANGED pins, NEW D \in SUBSET Idle,
           entry' = Dropped(entry, D)
    PROVE  PinnedIsOpen'
<1>1. \A k \in Keys : k \in D => entry'[k] = Gone /\ entry[k].users = 0
    BY DroppedType DEF TypeOK, Idle
<1>2. \A k \in Keys : k \notin D => entry'[k] = entry[k]
    BY DroppedType DEF TypeOK
<1> QED BY <1>1, <1>2, PinsKept DEF Gone, Blank

LEMMA OpenersFinite == IsFiniteSet(Openers) /\ Cardinality(Openers) \in Nat
<1>1. Openers \in SUBSET Callers
    BY DEF Openers
<1> QED BY <1>1, FiniteAssumption, FS_Subset, FS_CardinalityType

\* A reservation is counted when it is taken and when it is returned.
LEMMA HoldChanged ==
    ASSUME TypeOK, NEW t \in Callers, NEW n \in Nat, reserved = Total(hold),
           hold' = [hold EXCEPT ![t] = n], reserved' = reserved - hold[t] + n
    PROVE  reserved' = Total(hold)' /\ reserved' \in Nat /\ hold' \in [Callers -> Nat]
<1>1. hold \in [Callers -> Nat] /\ hold' \in [Callers -> Nat]
    BY DEF TypeOK
<1>2. \A f \in [Callers -> Nat], x \in Callers, v \in Nat :
            Total([f EXCEPT ![x] = v]) = Total(f) - f[x] + v
    BY TotalUpdate, FiniteAssumption
<1>3. Total(hold') \in Nat
    BY <1>1, CellsFinite, FiniteAssumption
<1> QED BY <1>1, <1>2, <1>3, ZenonT(60)

LEMMA CountsKept ==
    ASSUME ReservationsExact, UNCHANGED <<reserved, opening, hold>>, Openers' = Openers
    PROVE  ReservationsExact'
BY DEF ReservationsExact

-----------------------------------------------------------------------------

LEMMA RefuseOpenStep ==
    ASSUME CoreInv, NEW t \in Callers, NEW n \in Nat, NEW D \in SUBSET Keys, RefuseOpen(t, n, D)
    PROVE  CoreInv'
<1>1. D \in SUBSET Idle /\ entry' = Dropped(entry, D) /\ newer' = Forget(D)
    BY ReserveDropsIdle DEF RefuseOpen
<1>2. D \in SUBSET Keys /\ entry' \in [Keys -> EntryType] /\ newer' \in [Keys -> SUBSET Keys]
    BY <1>1, ExpirableIdle, DroppedType, OrderType DEF CoreInv, TypeOK
<1>3. \A j \in Keys : entry[j].state = "building" => entry'[j] = entry[j]
    BY <1>1, <1>2, DroppedType DEF CoreInv, TypeOK, Idle, Open
<1>4. TypeOK'
    BY <1>2 DEF CoreInv, TypeOK, Places, RefuseOpen, thread
<1>5. CallsOK'
    BY <1>3 DEF CoreInv, TypeOK, CallsOK, Holding, Owning, Building, RefuseOpen, thread
<1>6. PinnedIsOpen'
    BY <1>1, DropKeepsPins DEF CoreInv, RefuseOpen, thread
<1>7. ReservationsExact'
    BY CountsKept DEF CoreInv, TypeOK, Openers, Building, RefuseOpen, thread
<1> QED BY <1>4, <1>5, <1>6, <1>7 DEF CoreInv

LEMMA OpenWorkerEndsStep ==
    ASSUME CoreInv, NEW t \in Callers, NEW m \in Nat, OpenWorkerEnds(t, m)
    PROVE  CoreInv'
<1>1. TypeOK'
    BY QuotaAssumption DEF CoreInv, TypeOK, Places, OpenWorkerEnds, store
<1>2. CallsOK'
    BY DEF CoreInv, TypeOK, CallsOK, Holding, Owning, Building, OpenWorkerEnds, store
<1>3. PinnedIsOpen'
    BY PinsKept DEF CoreInv, OpenWorkerEnds, store
<1>4. ReservationsExact'
    BY CountsKept DEF CoreInv, TypeOK, Openers, Building, OpenWorkerEnds, store
<1> QED BY <1>1, <1>2, <1>3, <1>4 DEF CoreInv

LEMMA OpenWorkerFailsStep ==
    ASSUME CoreInv, NEW t \in Callers, OpenWorkerFails(t)
    PROVE  CoreInv'
<1>1. TypeOK'
    BY DEF CoreInv, TypeOK, Places, OpenWorkerFails, store
<1>2. CallsOK'
    BY DEF CoreInv, TypeOK, CallsOK, Holding, Owning, Building, OpenWorkerFails, store
<1>3. PinnedIsOpen'
    BY PinsKept DEF CoreInv, OpenWorkerFails, store
<1>4. ReservationsExact'
    BY CountsKept DEF CoreInv, TypeOK, Openers, Building, OpenWorkerFails, store
<1> QED BY <1>1, <1>2, <1>3, <1>4 DEF CoreInv

LEMMA ClosedDuringOpenStep ==
    ASSUME CoreInv, NEW t \in Callers, ClosedDuringOpen(t)
    PROVE  CoreInv'
<1>1. TypeOK'
    BY DEF CoreInv, TypeOK, Places, ClosedDuringOpen, store
<1>2. CallsOK'
    BY DEF CoreInv, TypeOK, CallsOK, Holding, Owning, Building, ClosedDuringOpen, store
<1>3. PinnedIsOpen'
    BY PinsKept DEF CoreInv, ClosedDuringOpen, store
<1>4. ReservationsExact'
    BY CountsKept DEF CoreInv, TypeOK, Openers, Building, ClosedDuringOpen, store
<1> QED BY <1>1, <1>2, <1>3, <1>4 DEF CoreInv

LEMMA StatusStep ==
    ASSUME CoreInv, NEW t \in Callers, Status(t)
    PROVE  CoreInv'
<1>1. Expirable \in SUBSET Idle /\ entry' = Dropped(entry, Expirable) /\ newer' = Forget(Expirable)
    BY ExpirableIdle DEF Status
<1>2. Expirable \in SUBSET Keys /\ entry' \in [Keys -> EntryType] /\ newer' \in [Keys -> SUBSET Keys]
    BY <1>1, ExpirableIdle, DroppedType, OrderType DEF CoreInv, TypeOK
<1>3. \A j \in Keys : entry[j].state = "building" => entry'[j] = entry[j]
    BY <1>1, <1>2, DroppedType DEF CoreInv, TypeOK, Idle, Open
<1>4. TypeOK'
    BY <1>2 DEF CoreInv, TypeOK, Places, Status, thread
<1>5. CallsOK'
    BY <1>3 DEF CoreInv, TypeOK, CallsOK, Holding, Owning, Building, Status, thread
<1>6. PinnedIsOpen'
    BY <1>1, DropKeepsPins DEF CoreInv, Status, thread
<1>7. ReservationsExact'
    BY CountsKept DEF CoreInv, TypeOK, Openers, Building, Status, thread
<1> QED BY <1>4, <1>5, <1>6, <1>7 DEF CoreInv

LEMMA SkipPrepStep ==
    ASSUME CoreInv, NEW t \in Callers, NEW k \in Keys, SkipPrep(t, k)
    PROVE  CoreInv'
<1>1. TypeOK'
    BY DEF CoreInv, TypeOK, Places, SkipPrep, store
<1>2. CallsOK'
    BY DEF CoreInv, TypeOK, CallsOK, Holding, Owning, Building, SkipPrep, store
<1>3. PinnedIsOpen'
    BY PinsKept DEF CoreInv, SkipPrep, store
<1>4. ReservationsExact'
    BY CountsKept DEF CoreInv, TypeOK, Openers, Building, SkipPrep, store
<1> QED BY <1>1, <1>2, <1>3, <1>4 DEF CoreInv

LEMMA WantPrepStep ==
    ASSUME CoreInv, NEW t \in Callers, NEW k \in Keys, WantPrep(t, k)
    PROVE  CoreInv'
<1>1. TypeOK'
    BY DEF CoreInv, TypeOK, Places, WantPrep, store
<1>2. CallsOK'
    BY DEF CoreInv, TypeOK, CallsOK, Holding, Owning, Building, WantPrep, store
<1>3. PinnedIsOpen'
    BY PinsKept DEF CoreInv, WantPrep, store
<1>4. ReservationsExact'
    BY CountsKept DEF CoreInv, TypeOK, Openers, Building, WantPrep, store
<1> QED BY <1>1, <1>2, <1>3, <1>4 DEF CoreInv

LEMMA TakePrepStep ==
    ASSUME CoreInv, NEW t \in Callers, TakePrep(t)
    PROVE  CoreInv'
<1>1. TypeOK'
    BY DEF CoreInv, TypeOK, Places, TakePrep, store
<1>2. CallsOK'
    BY DEF CoreInv, TypeOK, CallsOK, Holding, Owning, Building, TakePrep, store
<1>3. PinnedIsOpen'
    BY PinsKept DEF CoreInv, TakePrep, store
<1>4. ReservationsExact'
    BY CountsKept DEF CoreInv, TypeOK, Openers, Building, TakePrep, store
<1> QED BY <1>1, <1>2, <1>3, <1>4 DEF CoreInv

LEMMA TimeoutPrepStep ==
    ASSUME CoreInv, NEW t \in Callers, TimeoutPrep(t)
    PROVE  CoreInv'
<1>1. TypeOK'
    BY DEF CoreInv, TypeOK, Places, TimeoutPrep, store
<1>2. CallsOK'
    BY DEF CoreInv, TypeOK, CallsOK, Holding, Owning, Building, TimeoutPrep, store
<1>3. PinnedIsOpen'
    BY PinsKept DEF CoreInv, TimeoutPrep, store
<1>4. ReservationsExact'
    BY CountsKept DEF CoreInv, TypeOK, Openers, Building, TimeoutPrep, store
<1> QED BY <1>1, <1>2, <1>3, <1>4 DEF CoreInv

LEMMA FindPreparedStep ==
    ASSUME CoreInv, NEW t \in Callers, FindPrepared(t)
    PROVE  CoreInv'
<1>1. TypeOK'
    BY DEF CoreInv, TypeOK, Places, FindPrepared, store
<1>2. CallsOK'
    BY DEF CoreInv, TypeOK, CallsOK, Holding, Owning, Building, FindPrepared, store
<1>3. PinnedIsOpen'
    BY PinsKept DEF CoreInv, FindPrepared, store
<1>4. ReservationsExact'
    BY CountsKept DEF CoreInv, TypeOK, Openers, Building, FindPrepared, store
<1> QED BY <1>1, <1>2, <1>3, <1>4 DEF CoreInv

LEMMA ReservePrepStep ==
    ASSUME CoreInv, NEW t \in Callers, NEW D \in SUBSET Keys, ReservePrep(t, D)
    PROVE  CoreInv'
<1>1. D \in SUBSET Idle /\ entry' = Dropped(entry, D) /\ newer' = Forget(D)
    BY ReserveDropsIdle DEF ReservePrep
<1>2. D \in SUBSET Keys /\ entry' \in [Keys -> EntryType] /\ newer' \in [Keys -> SUBSET Keys]
    BY <1>1, ExpirableIdle, DroppedType, OrderType DEF CoreInv, TypeOK
<1>3. \A j \in Keys : entry[j].state = "building" => entry'[j] = entry[j]
    BY <1>1, <1>2, DroppedType DEF CoreInv, TypeOK, Idle, Open
<1>4. reserved' = Total(hold)' /\ reserved' \in Nat /\ hold' \in [Callers -> Nat]
  <2>1. hold' = [hold EXCEPT ![t] = PrepNeed] /\ reserved' = reserved - hold[t] + PrepNeed
      BY QuotaAssumption DEF ReservePrep, CoreInv, TypeOK, CallsOK, Holding, Building
  <2> QED BY <2>1, HoldChanged, QuotaAssumption DEF CoreInv, ReservationsExact
<1>5. TypeOK'
    BY <1>2, <1>4 DEF CoreInv, TypeOK, Places, ReservePrep, StartReaper
<1>6. CallsOK'
    BY <1>3 DEF CoreInv, TypeOK, CallsOK, Holding, Owning, Building, ReservePrep
<1>7. PinnedIsOpen'
    BY <1>1, DropKeepsPins DEF CoreInv, ReservePrep
<1>8. ReservationsExact'
    BY <1>4 DEF CoreInv, TypeOK, ReservationsExact, Openers, Building, ReservePrep
<1> QED BY <1>5, <1>6, <1>7, <1>8 DEF CoreInv

LEMMA RefusePrepStep ==
    ASSUME CoreInv, NEW t \in Callers, NEW D \in SUBSET Keys, RefusePrep(t, D)
    PROVE  CoreInv'
<1>1. D \in SUBSET Idle /\ entry' = Dropped(entry, D) /\ newer' = Forget(D)
    BY ReserveDropsIdle DEF RefusePrep
<1>2. D \in SUBSET Keys /\ entry' \in [Keys -> EntryType] /\ newer' \in [Keys -> SUBSET Keys]
    BY <1>1, ExpirableIdle, DroppedType, OrderType DEF CoreInv, TypeOK
<1>3. \A j \in Keys : entry[j].state = "building" => entry'[j] = entry[j]
    BY <1>1, <1>2, DroppedType DEF CoreInv, TypeOK, Idle, Open
<1>4. TypeOK'
    BY <1>2 DEF CoreInv, TypeOK, Places, RefusePrep
<1>5. CallsOK'
    BY <1>3 DEF CoreInv, TypeOK, CallsOK, Holding, Owning, Building, RefusePrep
<1>6. PinnedIsOpen'
    BY <1>1, DropKeepsPins DEF CoreInv, RefusePrep
<1>7. ReservationsExact'
    BY CountsKept DEF CoreInv, TypeOK, Openers, Building, RefusePrep
<1> QED BY <1>4, <1>5, <1>6, <1>7 DEF CoreInv

LEMMA PrepWorkerEndsStep ==
    ASSUME CoreInv, NEW t \in Callers, NEW m \in Nat, PrepWorkerEnds(t, m)
    PROVE  CoreInv'
<1>1. cur[t] \in Keys
    BY DEF CoreInv, TypeOK, CallsOK, Owning, PrepWorkerEnds
<1>2. entry \in [Keys -> EntryType]
    BY DEF CoreInv, TypeOK
<1>3. entry' = [entry EXCEPT ![cur[t]].root = TRUE]
    BY DEF PrepWorkerEnds
<1>4. entry' \in [Keys -> EntryType]
    BY <1>1, <1>2, <1>3, ZenonT(60) DEF EntryType
<1>5. \A j \in Keys : entry'[j].users = entry[j].users /\ entry'[j].state = entry[j].state
    BY <1>1, <1>2, <1>3 DEF EntryType
<1>6. TypeOK'
    BY <1>4, QuotaAssumption DEF CoreInv, TypeOK, Places, PrepWorkerEnds
<1>7. CallsOK'
    BY <1>5 DEF CoreInv, TypeOK, CallsOK, Holding, Owning, Building, PrepWorkerEnds
<1>8. PinnedIsOpen'
    BY <1>5, PinsKept DEF CoreInv, PrepWorkerEnds
<1>9. ReservationsExact'
    BY CountsKept DEF CoreInv, TypeOK, Openers, Building, PrepWorkerEnds
<1> QED BY <1>6, <1>7, <1>8, <1>9 DEF CoreInv

LEMMA PrepWorkerFailsStep ==
    ASSUME CoreInv, NEW t \in Callers, PrepWorkerFails(t)
    PROVE  CoreInv'
<1>1. cur[t] \in Keys
    BY DEF CoreInv, TypeOK, CallsOK, Owning, PrepWorkerFails
<1>2. entry \in [Keys -> EntryType]
    BY DEF CoreInv, TypeOK
<1>3. entry' = [entry EXCEPT ![cur[t]].root = TRUE]
    BY DEF PrepWorkerFails
<1>4. entry' \in [Keys -> EntryType]
    BY <1>1, <1>2, <1>3, ZenonT(60) DEF EntryType
<1>5. \A j \in Keys : entry'[j].users = entry[j].users /\ entry'[j].state = entry[j].state
    BY <1>1, <1>2, <1>3 DEF EntryType
<1>6. TypeOK'
    BY <1>4 DEF CoreInv, TypeOK, Places, PrepWorkerFails
<1>7. CallsOK'
    BY <1>5 DEF CoreInv, TypeOK, CallsOK, Holding, Owning, Building, PrepWorkerFails
<1>8. PinnedIsOpen'
    BY <1>5, PinsKept DEF CoreInv, PrepWorkerFails
<1>9. ReservationsExact'
    BY CountsKept DEF CoreInv, TypeOK, Openers, Building, PrepWorkerFails
<1> QED BY <1>6, <1>7, <1>8, <1>9 DEF CoreInv

LEMMA PublishInfoStep ==
    ASSUME CoreInv, NEW t \in Callers, PublishInfo(t)
    PROVE  CoreInv'
<1>1. cur[t] \in Keys
    BY DEF CoreInv, TypeOK, CallsOK, Owning, PublishInfo
<1>2. entry \in [Keys -> EntryType] /\ made \in [Callers -> Nat]
    BY DEF CoreInv, TypeOK
<1>3. entry' = [entry EXCEPT ![cur[t]].info = TRUE, ![cur[t]].size = @ + made[t]]
    BY DEF PublishInfo
<1>4. entry' \in [Keys -> EntryType]
    BY <1>1, <1>2, <1>3, ChargedInfo
<1>5. \A j \in Keys : entry'[j].users = entry[j].users /\ entry'[j].state = entry[j].state
    BY <1>1, <1>2, <1>3 DEF EntryType
<1>6. TypeOK'
    BY <1>4 DEF CoreInv, TypeOK, Places, PublishInfo
<1>7. CallsOK'
    BY <1>5 DEF CoreInv, TypeOK, CallsOK, Holding, Owning, Building, PublishInfo
<1>8. PinnedIsOpen'
    BY <1>5, PinsKept DEF CoreInv, PublishInfo
<1>9. ReservationsExact'
    BY CountsKept DEF CoreInv, TypeOK, Openers, Building, PublishInfo
<1> QED BY <1>6, <1>7, <1>8, <1>9 DEF CoreInv

LEMMA PublishReadyStep ==
    ASSUME CoreInv, NEW t \in Callers, PublishReady(t)
    PROVE  CoreInv'
<1>1. cur[t] \in Keys
    BY DEF CoreInv, TypeOK, CallsOK, Owning, PublishReady
<1>2. entry \in [Keys -> EntryType]
    BY DEF CoreInv, TypeOK
<1>3. entry' = [entry EXCEPT ![cur[t]].prepared = TRUE]
    BY DEF PublishReady
<1>4. entry' \in [Keys -> EntryType]
    BY <1>1, <1>2, <1>3, ZenonT(60) DEF EntryType
<1>5. \A j \in Keys : entry'[j].users = entry[j].users /\ entry'[j].state = entry[j].state
    BY <1>1, <1>2, <1>3 DEF EntryType
<1>6. TypeOK'
    BY <1>4 DEF CoreInv, TypeOK, Places, PublishReady
<1>7. CallsOK'
    BY <1>5 DEF CoreInv, TypeOK, CallsOK, Holding, Owning, Building, PublishReady
<1>8. PinnedIsOpen'
    BY <1>5, PinsKept DEF CoreInv, PublishReady
<1>9. ReservationsExact'
    BY CountsKept DEF CoreInv, TypeOK, Openers, Building, PublishReady
<1> QED BY <1>6, <1>7, <1>8, <1>9 DEF CoreInv

LEMMA UndoPrepStep ==
    ASSUME CoreInv, NEW t \in Callers, UndoPrep(t)
    PROVE  CoreInv'
<1>1. cur[t] \in Keys
    BY DEF CoreInv, TypeOK, CallsOK, Owning, UndoPrep
<1>2. entry \in [Keys -> EntryType]
    BY DEF CoreInv, TypeOK
<1>3. entry' = [entry EXCEPT ![cur[t]].root = FALSE]
    BY DEF UndoPrep
<1>4. entry' \in [Keys -> EntryType]
    BY <1>1, <1>2, <1>3, ZenonT(60) DEF EntryType
<1>5. \A j \in Keys : entry'[j].users = entry[j].users /\ entry'[j].state = entry[j].state
    BY <1>1, <1>2, <1>3 DEF EntryType
<1>6. TypeOK'
    BY <1>4 DEF CoreInv, TypeOK, Places, UndoPrep
<1>7. CallsOK'
    BY <1>5 DEF CoreInv, TypeOK, CallsOK, Holding, Owning, Building, UndoPrep
<1>8. PinnedIsOpen'
    BY <1>5, PinsKept DEF CoreInv, UndoPrep
<1>9. ReservationsExact'
    BY CountsKept DEF CoreInv, TypeOK, Openers, Building, UndoPrep
<1> QED BY <1>6, <1>7, <1>8, <1>9 DEF CoreInv

LEMMA EndPrepStep ==
    ASSUME CoreInv, NEW t \in Callers, EndPrep(t)
    PROVE  CoreInv'
<1>1. reserved' = Total(hold)' /\ reserved' \in Nat /\ hold' \in [Callers -> Nat]
  <2>1. hold' = [hold EXCEPT ![t] = 0] /\ reserved' = reserved - hold[t] + 0
      BY QuotaAssumption DEF EndPrep, CoreInv, TypeOK, CallsOK, Holding, Building
  <2> QED BY <2>1, HoldChanged, QuotaAssumption DEF CoreInv, ReservationsExact
<1>2. pc' \in [Callers -> Places] /\ todo' \in [Callers -> SUBSET Keys]
    BY DEF CoreInv, TypeOK, Places, EndPrep
<1>3. TypeOK'
    BY <1>1, <1>2 DEF CoreInv, TypeOK, Places, EndPrep
<1>4. CallsOK'
    BY DEF CoreInv, TypeOK, CallsOK, Holding, Owning, Building, EndPrep
<1>5. PinnedIsOpen'
    BY PinsKept DEF CoreInv, EndPrep
<1>6. ReservationsExact'
    BY <1>1 DEF CoreInv, TypeOK, ReservationsExact, Openers, Building, EndPrep
<1> QED BY <1>3, <1>4, <1>5, <1>6 DEF CoreInv

LEMMA StartQueryStep ==
    ASSUME CoreInv, NEW t \in Callers, StartQuery(t)
    PROVE  CoreInv'
<1>1. TypeOK'
    BY DEF CoreInv, TypeOK, Places, StartQuery, store
<1>2. CallsOK'
    BY DEF CoreInv, TypeOK, CallsOK, Holding, Owning, Building, StartQuery, store
<1>3. PinnedIsOpen'
    BY PinsKept DEF CoreInv, StartQuery, store
<1>4. ReservationsExact'
    BY CountsKept DEF CoreInv, TypeOK, Openers, Building, StartQuery, store
<1> QED BY <1>1, <1>2, <1>3, <1>4 DEF CoreInv

LEMMA ReserveViewStep ==
    ASSUME CoreInv, NEW t \in Callers, NEW D \in SUBSET Keys, ReserveView(t, D)
    PROVE  CoreInv'
<1>1. D \in SUBSET Idle /\ entry' = Dropped(entry, D) /\ newer' = Forget(D)
    BY ReserveDropsIdle DEF ReserveView
<1>2. D \in SUBSET Keys /\ entry' \in [Keys -> EntryType] /\ newer' \in [Keys -> SUBSET Keys]
    BY <1>1, ExpirableIdle, DroppedType, OrderType DEF CoreInv, TypeOK
<1>3. \A j \in Keys : entry[j].state = "building" => entry'[j] = entry[j]
    BY <1>1, <1>2, DroppedType DEF CoreInv, TypeOK, Idle, Open
<1>4. reserved' = Total(hold)' /\ reserved' \in Nat /\ hold' \in [Callers -> Nat]
  <2>1. hold' = [hold EXCEPT ![t] = ViewNeed] /\ reserved' = reserved - hold[t] + ViewNeed
      BY QuotaAssumption DEF ReserveView, CoreInv, TypeOK, CallsOK, Holding, Building
  <2> QED BY <2>1, HoldChanged, QuotaAssumption DEF CoreInv, ReservationsExact
<1>5. TypeOK'
    BY <1>2, <1>4 DEF CoreInv, TypeOK, Places, ReserveView, StartReaper
<1>6. CallsOK'
    BY <1>3 DEF CoreInv, TypeOK, CallsOK, Holding, Owning, Building, ReserveView
<1>7. PinnedIsOpen'
    BY <1>1, DropKeepsPins DEF CoreInv, ReserveView
<1>8. ReservationsExact'
    BY <1>4 DEF CoreInv, TypeOK, ReservationsExact, Openers, Building, ReserveView
<1> QED BY <1>5, <1>6, <1>7, <1>8 DEF CoreInv

LEMMA RefuseViewStep ==
    ASSUME CoreInv, NEW t \in Callers, NEW D \in SUBSET Keys, RefuseView(t, D)
    PROVE  CoreInv'
<1>1. D \in SUBSET Idle /\ entry' = Dropped(entry, D) /\ newer' = Forget(D)
    BY ReserveDropsIdle DEF RefuseView
<1>2. D \in SUBSET Keys /\ entry' \in [Keys -> EntryType] /\ newer' \in [Keys -> SUBSET Keys]
    BY <1>1, ExpirableIdle, DroppedType, OrderType DEF CoreInv, TypeOK
<1>3. \A j \in Keys : entry[j].state = "building" => entry'[j] = entry[j]
    BY <1>1, <1>2, DroppedType DEF CoreInv, TypeOK, Idle, Open
<1>4. TypeOK'
    BY <1>2 DEF CoreInv, TypeOK, Places, RefuseView
<1>5. CallsOK'
    BY <1>3 DEF CoreInv, TypeOK, CallsOK, Holding, Owning, Building, RefuseView
<1>6. PinnedIsOpen'
    BY <1>1, DropKeepsPins DEF CoreInv, RefuseView
<1>7. ReservationsExact'
    BY CountsKept DEF CoreInv, TypeOK, Openers, Building, RefuseView
<1> QED BY <1>4, <1>5, <1>6, <1>7 DEF CoreInv

LEMMA EndViewStep ==
    ASSUME CoreInv, NEW t \in Callers, EndView(t)
    PROVE  CoreInv'
<1>1. reserved' = Total(hold)' /\ reserved' \in Nat /\ hold' \in [Callers -> Nat]
  <2>1. hold' = [hold EXCEPT ![t] = 0] /\ reserved' = reserved - hold[t] + 0
      BY QuotaAssumption DEF EndView, CoreInv, TypeOK, CallsOK, Holding, Building
  <2> QED BY <2>1, HoldChanged, QuotaAssumption DEF CoreInv, ReservationsExact
<1>2. TypeOK'
    BY <1>1 DEF CoreInv, TypeOK, Places, EndView
<1>3. CallsOK'
    BY DEF CoreInv, TypeOK, CallsOK, Holding, Owning, Building, EndView
<1>4. PinnedIsOpen'
    BY PinsKept DEF CoreInv, EndView
<1>5. ReservationsExact'
    BY <1>1 DEF CoreInv, TypeOK, ReservationsExact, Openers, Building, EndView
<1> QED BY <1>2, <1>3, <1>4, <1>5 DEF CoreInv

LEMMA EndQueryStep ==
    ASSUME CoreInv, NEW t \in Callers, EndQuery(t)
    PROVE  CoreInv'
<1>1. TypeOK'
    BY DEF CoreInv, TypeOK, Places, EndQuery, store
<1>2. CallsOK'
    BY DEF CoreInv, TypeOK, CallsOK, Holding, Owning, Building, EndQuery, store
<1>3. PinnedIsOpen'
    BY PinsKept DEF CoreInv, EndQuery, store
<1>4. ReservationsExact'
    BY CountsKept DEF CoreInv, TypeOK, Openers, Building, EndQuery, store
<1> QED BY <1>1, <1>2, <1>3, <1>4 DEF CoreInv

LEMMA GoStaleStep ==
    ASSUME CoreInv, NEW k \in Keys, GoStale(k)
    PROVE  CoreInv'
<1>1. entry \in [Keys -> EntryType]
    BY DEF CoreInv, TypeOK
<1>2. entry' = [entry EXCEPT ![k].stale = TRUE]
    BY DEF GoStale
<1>3. entry' \in [Keys -> EntryType]
    BY <1>1, <1>2, ZenonT(60) DEF EntryType
<1>4. \A j \in Keys : entry'[j].users = entry[j].users /\ entry'[j].state = entry[j].state
    BY <1>1, <1>2 DEF EntryType
<1>5. TypeOK'
    BY <1>3 DEF CoreInv, TypeOK, Places, GoStale, thread
<1>6. CallsOK'
    BY <1>4 DEF CoreInv, TypeOK, CallsOK, Holding, Owning, Building, GoStale, thread
<1>7. PinnedIsOpen'
    BY <1>4, PinsKept DEF CoreInv, GoStale, thread
<1>8. ReservationsExact'
    BY CountsKept DEF CoreInv, TypeOK, Openers, Building, GoStale, thread
<1> QED BY <1>5, <1>6, <1>7, <1>8 DEF CoreInv

LEMMA ReaperSweepsStep ==
    ASSUME CoreInv, ReaperSweeps
    PROVE  CoreInv'
<1>1. Expirable \in SUBSET Idle /\ entry' = Dropped(entry, Expirable) /\ newer' = Forget(Expirable)
    BY ExpirableIdle DEF ReaperSweeps
<1>2. Expirable \in SUBSET Keys /\ entry' \in [Keys -> EntryType] /\ newer' \in [Keys -> SUBSET Keys]
    BY <1>1, ExpirableIdle, DroppedType, OrderType DEF CoreInv, TypeOK
<1>3. \A j \in Keys : entry[j].state = "building" => entry'[j] = entry[j]
    BY <1>1, <1>2, DroppedType DEF CoreInv, TypeOK, Idle, Open
<1>4. TypeOK'
    BY <1>2 DEF CoreInv, TypeOK, Places, ReaperSweeps, thread
<1>5. CallsOK'
    BY <1>3 DEF CoreInv, TypeOK, CallsOK, Holding, Owning, Building, ReaperSweeps, thread
<1>6. PinnedIsOpen'
    BY <1>1, DropKeepsPins DEF CoreInv, ReaperSweeps, thread
<1>7. ReservationsExact'
    BY CountsKept DEF CoreInv, TypeOK, Openers, Building, ReaperSweeps, thread
<1> QED BY <1>4, <1>5, <1>6, <1>7 DEF CoreInv

LEMMA ReaperStopsStep ==
    ASSUME CoreInv, ReaperStops
    PROVE  CoreInv'
<1>1. TypeOK'
    BY DEF CoreInv, TypeOK, Places, ReaperStops, store, thread
<1>2. CallsOK'
    BY DEF CoreInv, TypeOK, CallsOK, Holding, Owning, Building, ReaperStops, store, thread
<1>3. PinnedIsOpen'
    BY PinsKept DEF CoreInv, ReaperStops, store, thread
<1>4. ReservationsExact'
    BY CountsKept DEF CoreInv, TypeOK, Openers, Building, ReaperStops, store, thread
<1> QED BY <1>1, <1>2, <1>3, <1>4 DEF CoreInv

LEMMA ShutdownBeginsStep ==
    ASSUME CoreInv, ShutdownBegins
    PROVE  CoreInv'
<1>1. TypeOK'
    BY DEF CoreInv, TypeOK, Places, ShutdownBegins, store, thread
<1>2. CallsOK'
    BY DEF CoreInv, TypeOK, CallsOK, Holding, Owning, Building, ShutdownBegins, store, thread
<1>3. PinnedIsOpen'
    BY PinsKept DEF CoreInv, ShutdownBegins, store, thread
<1>4. ReservationsExact'
    BY CountsKept DEF CoreInv, TypeOK, Openers, Building, ShutdownBegins, store, thread
<1> QED BY <1>1, <1>2, <1>3, <1>4 DEF CoreInv

LEMMA BeginOpenStep ==
    ASSUME CoreInv, NEW t \in Callers, NEW k \in Keys, NEW n \in OpenNeeds \cup LoadNeeds,
           NEW artifact \in BOOLEAN, NEW D \in SUBSET Keys, BeginOpen(t, k, n, artifact, D)
    PROVE  CoreInv'
<1>0. entry \in [Keys -> EntryType]
    BY DEF CoreInv, TypeOK
<1> DEFINE e == [entry EXCEPT ![k].state = "building", ![k].artifact = artifact]
<1>1. D \subseteq Idle /\ k \notin D /\ n \in Nat
    BY ReserveDropsIdle, QuotaAssumption DEF BeginOpen, Idle, Open
<1>2. e \in [Keys -> EntryType] /\ entry' = Dropped(e, D)
    BY <1>0 DEF EntryType, BeginOpen
<1> HIDE DEF e
<1>3. /\ e[k].state = "building" /\ e[k].users = entry[k].users
      /\ \A j \in Keys : j # k => e[j] = entry[j]
    BY <1>0 DEF e, EntryType
<1>4. /\ entry' \in [Keys -> EntryType]
      /\ entry'[k].state = "building" /\ entry'[k].users = entry[k].users
      /\ \A j \in Keys : j # k /\ j \notin D => entry'[j] = entry[j]
      /\ \A j \in D : entry'[j] = Gone /\ entry[j].users = 0 /\ entry[j].state = "open"
    BY <1>1, <1>2, <1>3, DroppedType DEF Idle, Open
<1>5. reserved' = Total(hold)' /\ reserved' \in Nat /\ hold' \in [Callers -> Nat]
  <2>1. hold' = [hold EXCEPT ![t] = n] /\ reserved' = reserved - hold[t] + n
      BY <1>1 DEF BeginOpen, CoreInv, TypeOK, CallsOK, Holding, Building
  <2> QED BY <1>1, <2>1, HoldChanged DEF CoreInv, ReservationsExact
<1>6. TypeOK'
  <2>1. newer' \in [Keys -> SUBSET Keys]
      BY <1>1, OrderType DEF CoreInv, BeginOpen, Idle, Open
  <2>2. opening' \in Nat /\ reaper' \in {"none", "waiting", "done"}
      BY DEF CoreInv, TypeOK, BeginOpen, StartReaper
  <2>3. pc' \in [Callers -> Places] /\ cur' \in [Callers -> Keys \cup {None}]
      BY DEF CoreInv, TypeOK, Places, BeginOpen
  <2> QED BY <1>4, <1>5, <2>1, <2>2, <2>3 DEF CoreInv, TypeOK, BeginOpen
<1>7. CallsOK'
  <2>1. \A j \in Keys : entry[j].state = "building" => j # k /\ entry'[j].state = "building"
    <3>1. entry[k].state = "free"
        BY DEF BeginOpen
    <3> QED BY <1>4, <3>1
  <2>2. /\ pc' = [pc EXCEPT ![t] = "open_worker"] /\ cur' = [cur EXCEPT ![t] = k]
        /\ pc[t] = "idle" /\ hold' = [hold EXCEPT ![t] = n] /\ UNCHANGED <<pins, todo>>
      BY DEF BeginOpen
  <2> QED BY <1>4, <2>1, <2>2 DEF CoreInv, TypeOK, CallsOK, Holding, Owning, Building
<1>8. PinnedIsOpen'
  <2>1. \A j \in Keys : /\ entry'[j].users = entry[j].users
                        /\ entry[j].state = "open" /\ entry[j].users # 0
                             => entry'[j].state = "open"
    <3>1. entry[k].state = "free" /\ Gone.users = 0
        BY DEF BeginOpen, Gone, Blank
    <3> QED BY <1>4, <3>1
  <2>2. UNCHANGED pins
      BY DEF BeginOpen
  <2> QED BY <2>1, <2>2, PinsKept DEF CoreInv
<1>9. ReservationsExact'
  <2>1. Openers' = Openers \cup {t} /\ t \notin Openers
      BY DEF CoreInv, TypeOK, Openers, Building, BeginOpen
  <2>2. Cardinality(Openers') = Cardinality(Openers) + 1
      BY <2>1, OpenersFinite, FS_AddElement
  <2> QED BY <1>5, <2>2 DEF CoreInv, ReservationsExact, BeginOpen
<1> QED BY <1>6, <1>7, <1>8, <1>9 DEF CoreInv

LEMMA CommitOpenStep ==
    ASSUME CoreInv, NEW t \in Callers, CommitOpen(t)
    PROVE  CoreInv'
<1>0. entry \in [Keys -> EntryType] /\ made \in [Callers -> Nat]
    BY DEF CoreInv, TypeOK
<1>1. cur[t] \in Keys /\ entry[cur[t]].state = "building"
    BY DEF CoreInv, CallsOK, Building, CommitOpen
<1>2. /\ entry' \in [Keys -> EntryType]
      /\ \A j \in Keys : /\ entry'[j].users = entry[j].users
                         /\ j # cur[t] => entry'[j].state = entry[j].state
    BY <1>1, <1>0, SMTT(30) DEF EntryType, CommitOpen
<1>3. TypeOK'
    BY <1>1, <1>2, OrderType DEF CoreInv, TypeOK, Places, CommitOpen
<1>4. CallsOK'
    BY <1>1, <1>2, NoneAssumption DEF CoreInv, TypeOK, CallsOK, Holding, Owning, Building, CommitOpen
<1>5. PinnedIsOpen'
    BY <1>1, <1>2, PinsKept DEF CoreInv, CommitOpen
<1>6. ReservationsExact'
    BY CountsKept DEF CoreInv, TypeOK, Openers, Building, CommitOpen
<1> QED BY <1>3, <1>4, <1>5, <1>6 DEF CoreInv

LEMMA UndoOpenStep ==
    ASSUME CoreInv, NEW t \in Callers, UndoOpen(t)
    PROVE  CoreInv'
<1>1. cur[t] \in Keys /\ entry[cur[t]].state = "building"
    BY DEF CoreInv, CallsOK, Building, UndoOpen
<1>2. entry[cur[t]].users = 0
    BY <1>1, FS_EmptySet DEF CoreInv, PinnedIsOpen
<1>3. /\ entry' \in [Keys -> EntryType]
      /\ entry'[cur[t]] = Gone
      /\ \A j \in Keys : j # cur[t] => entry'[j] = entry[j]
    BY <1>1, DroppedType DEF CoreInv, TypeOK, UndoOpen
<1>4. TypeOK'
    BY <1>3 DEF CoreInv, TypeOK, Places, UndoOpen
<1>5. CallsOK'
  <2>1. \A u \in Callers : u # t /\ pc[u] \in Building => entry'[cur[u]].state = "building"
      BY <1>3 DEF CoreInv, CallsOK, Building, UndoOpen
  <2>2. pc' = [pc EXCEPT ![t] = "open_end"] /\ UNCHANGED <<pins, todo, cur, hold>>
      BY DEF UndoOpen
  <2>3. pc[t] = "open_undo"
      BY DEF UndoOpen
  <2> QED BY <2>1, <2>2, <2>3 DEF CoreInv, TypeOK, CallsOK, Holding, Owning, Building
<1>6. PinnedIsOpen'
  <2>1. Gone.users = 0
      BY DEF Gone, Blank
  <2>2. \A j \in Keys : /\ entry'[j].users = entry[j].users
                        /\ entry[j].state = "open" /\ entry[j].users # 0
                             => entry'[j].state = "open"
      BY <1>1, <1>2, <1>3, <2>1
  <2>3. UNCHANGED pins
      BY DEF UndoOpen
  <2> QED BY <2>2, <2>3, PinsKept DEF CoreInv
<1>7. ReservationsExact'
    BY CountsKept DEF CoreInv, TypeOK, Openers, Building, UndoOpen
<1> QED BY <1>4, <1>5, <1>6, <1>7 DEF CoreInv

LEMMA EndOpenStep ==
    ASSUME CoreInv, NEW t \in Callers, EndOpen(t)
    PROVE  CoreInv'
<1>1. reserved' = Total(hold)' /\ reserved' \in Nat /\ hold' \in [Callers -> Nat]
  <2>1. hold' = [hold EXCEPT ![t] = 0] /\ reserved' = reserved - hold[t] + 0
      BY DEF EndOpen, CoreInv, TypeOK
  <2> QED BY <2>1, HoldChanged DEF CoreInv, ReservationsExact
<1>2. Cardinality(Openers') = Cardinality(Openers) - 1 /\ Cardinality(Openers') \in Nat
  <2>1. Openers' = Openers \ {t} /\ t \in Openers
      BY DEF CoreInv, TypeOK, Openers, Building, EndOpen
  <2>2. IsFiniteSet(Openers \ {t}) /\ Cardinality(Openers \ {t}) = Cardinality(Openers) - 1
      BY <2>1, OpenersFinite, FS_RemoveElement
  <2> QED BY <2>1, <2>2, FS_CardinalityType
<1>3. ReservationsExact'
    BY <1>1, <1>2 DEF CoreInv, ReservationsExact, EndOpen
<1>4. TypeOK'
    BY <1>1, <1>2, <1>3, OpenersFinite DEF CoreInv, TypeOK, Places, ReservationsExact, EndOpen
<1>5. CallsOK'
    BY NoneAssumption DEF CoreInv, TypeOK, CallsOK, Holding, Owning, Building, EndOpen
<1>6. PinnedIsOpen'
    BY PinsKept DEF CoreInv, EndOpen
<1> QED BY <1>3, <1>4, <1>5, <1>6 DEF CoreInv

\* A query pins each of its sessions once.
LEMMA PinStep ==
    ASSUME CoreInv, NEW t \in Callers, NEW K \in SUBSET Keys, Pin(t, K),
           pc' \in [Callers -> Places], todo' \in [Callers -> SUBSET Keys],
           pc'[t] \in {"prep_next", "archive_run"}, todo'[t] \subseteq K,
           pc'[t] = "archive_run" => todo'[t] = {},
           \A u \in Callers \ {t} : pc'[u] = pc[u] /\ todo'[u] = todo[u]
    PROVE  CoreInv'
<1>0. entry \in [Keys -> EntryType]
    BY DEF CoreInv, TypeOK
<1>1. K \subseteq Open \ Expirable
    BY DEF Pin, Pinnable
<1>2. /\ entry' \in [Keys -> EntryType]
      /\ \A j \in K : /\ entry'[j].users = entry[j].users + 1
                      /\ entry'[j].state = "open" /\ entry[j].state = "open"
      /\ \A j \in Expirable : entry'[j] = Gone
      /\ \A j \in Keys \ (K \cup Expirable) : entry'[j] = entry[j]
  <2> DEFINE more(j) == [entry[j] EXCEPT !.users = @ + 1]
  <2>1. \A j \in Keys : more(j) \in EntryType
      BY <1>0 DEF EntryType
  <2>2. \A j \in Keys : more(j).users = entry[j].users + 1 /\ more(j).state = entry[j].state
      BY <1>0 DEF EntryType
  <2>3. entry' = [j \in Keys |-> IF j \in Expirable THEN Gone
                                 ELSE IF j \in K THEN more(j) ELSE entry[j]]
      BY DEF Pin
  <2>4. Gone \in EntryType
      BY DEF Gone, Blank, EntryType
  <2>5. \A j \in K : entry[j].state = "open" /\ j \notin Expirable
      BY <1>1 DEF Open
  <2> HIDE DEF more
  <2>6. entry' \in [Keys -> EntryType]
      BY <1>0, <2>1, <2>3, <2>4
  <2>7. \A j \in K : entry'[j] = more(j)
      BY <2>3, <2>5
  <2>8. \A j \in Expirable : entry'[j] = Gone
      BY <2>3, ExpirableIdle
  <2>9. \A j \in Keys \ (K \cup Expirable) : entry'[j] = entry[j]
      BY <2>3
  <2> QED BY <2>2, <2>5, <2>6, <2>7, <2>8, <2>9
<1>3. pins[t] = {} /\ pins' = [pins EXCEPT ![t] = K]
    BY DEF Pin, CoreInv, CallsOK
<1>4. TypeOK'
    BY <1>2, <1>3, OrderType, ExpirableIdle DEF CoreInv, TypeOK, Pin
<1>5. CallsOK'
  <2>1. \A j \in Keys : entry[j].state = "building" => entry'[j].state = "building"
      BY <1>2, ExpirableIdle DEF Idle, Open
  <2> QED BY <1>2, <1>3, <2>1 DEF CoreInv, TypeOK, CallsOK, Holding, Owning, Building, Pin
<1>6. PinnedIsOpen'
  <2> SUFFICES ASSUME NEW j \in Keys
               PROVE  /\ entry'[j].users = Cardinality(Holders(j)')
                      /\ Holders(j)' # {} => entry'[j].state = "open"
      BY DEF PinnedIsOpen
  <2>1. CASE j \in K
    <3>1. Holders(j)' = Holders(j) \cup {t} /\ t \notin Holders(j)
        BY <1>3, <2>1 DEF Holders, CoreInv, TypeOK
    <3>2. Cardinality(Holders(j)') = Cardinality(Holders(j)) + 1
        BY <3>1, HoldersFinite, FS_AddElement
    <3> QED BY <1>2, <2>1, <3>2 DEF CoreInv, PinnedIsOpen
  <2>2. CASE j \notin K
    <3>1. Holders(j)' = Holders(j)
        BY <1>3, <2>2 DEF Holders, CoreInv, TypeOK
    <3>2. CASE j \in Expirable
      <4>1. Holders(j) = {}
          BY <3>2, IdleUnheld DEF CoreInv, Expirable, Idle
      <4> QED BY <1>2, <3>1, <3>2, <4>1, FS_EmptySet DEF Gone, Blank
    <3>3. CASE j \notin Expirable
        BY <1>2, <2>2, <3>1, <3>3 DEF CoreInv, PinnedIsOpen
    <3> QED BY <3>2, <3>3
  <2> QED BY <2>1, <2>2
<1>7. ReservationsExact'
    BY CountsKept DEF CoreInv, TypeOK, Openers, Building, Pin
<1> QED BY <1>4, <1>5, <1>6, <1>7 DEF CoreInv

LEMMA BeginQueryStep ==
    ASSUME CoreInv, NEW t \in Callers, NEW K \in SUBSET Keys, BeginQuery(t, K)
    PROVE  CoreInv'
BY PinStep DEF BeginQuery, CoreInv, TypeOK, Places

LEMMA BeginArchiveQueryStep ==
    ASSUME CoreInv, NEW t \in Callers, NEW k \in Keys, BeginArchiveQuery(t, k)
    PROVE  CoreInv'
<1>1. todo[t] = {}
    BY DEF BeginArchiveQuery, Pin, CoreInv, CallsOK
<1> QED BY <1>1, PinStep DEF BeginArchiveQuery, CoreInv, TypeOK, Places

LEMMA TakeCacheStep ==
    ASSUME CoreInv, NEW t \in Callers, NEW k \in Keys, TakeCache(t, k)
    PROVE  CoreInv'
<1>0. entry \in [Keys -> EntryType]
    BY DEF CoreInv, TypeOK
<1>1. Used \in Nat
  <2>1. SizesWithout({}) \in [Keys -> Nat]
      BY DEF SizesWithout, CoreInv, TypeOK, EntryType
  <2> QED BY <2>1, CellsFinite, FiniteAssumption DEF Used
<1>2. /\ entry' \in [Keys -> EntryType]
      /\ \A j \in Keys : entry'[j].users = entry[j].users /\ entry'[j].state = entry[j].state
  <2> DEFINE free == MaxBytes - reserved - Used
             grant == IF free < CacheMax THEN free ELSE CacheMax
  <2>1. grant \in Nat
      BY <1>1, QuotaAssumption DEF TakeCache, CoreInv, TypeOK
  <2>2. entry' = [entry EXCEPT ![k].cache = TRUE, ![k].size = @ + grant]
      BY DEF TakeCache
  <2> HIDE DEF grant
  <2>3. entry' \in [Keys -> EntryType]
      BY <1>0, <2>1, <2>2, ChargedCache
  <2>4. \A j \in Keys : entry'[j].users = entry[j].users /\ entry'[j].state = entry[j].state
      BY <1>0, <2>1, <2>2 DEF EntryType
  <2> QED BY <2>3, <2>4
<1>3. TypeOK'
    BY <1>2 DEF CoreInv, TypeOK, TakeCache, thread
<1>4. CallsOK'
    BY <1>2 DEF CoreInv, TypeOK, CallsOK, TakeCache, thread
<1>5. PinnedIsOpen'
    BY <1>2, PinsKept DEF CoreInv, TakeCache, thread
<1>6. ReservationsExact'
    BY CountsKept DEF CoreInv, Openers, TakeCache, thread
<1> QED BY <1>3, <1>4, <1>5, <1>6 DEF CoreInv

\* The last release of a closed session removes it; no other user is left.
LEMMA ReleaseStep ==
    ASSUME CoreInv, NEW t \in Callers, NEW k \in Keys, Release(t, k)
    PROVE  CoreInv'
<1>0. entry \in [Keys -> EntryType]
    BY DEF CoreInv, TypeOK
<1>1. t \in Holders(k) /\ entry[k].state = "open" /\ entry[k].users = Cardinality(Holders(k))
    BY DEF Release, Holders, CoreInv, PinnedIsOpen
<1>2. entry[k].users \in Nat /\ entry[k].users # 0
    BY <1>1, HoldersFinite, FS_EmptySet
<1>3. Cardinality(Holders(k) \ {t}) = entry[k].users - 1 /\ IsFiniteSet(Holders(k) \ {t})
    BY <1>1, HoldersFinite, FS_RemoveElement
<1>4. /\ entry' \in [Keys -> EntryType]
      /\ entry'[k].users = entry[k].users - 1
      /\ entry'[k].state = "open" \/ entry[k].users = 1
      /\ \A j \in Keys : j # k => entry'[j] = entry[j]
      /\ newer' \in [Keys -> SUBSET Keys]
  <2>1. CASE entry[k].closing /\ entry[k].users = 1
    <3>1. entry' = Dropped(entry, {k}) /\ newer' = Forget({k})
        BY <2>1 DEF Release
    <3>2. /\ entry' \in [Keys -> EntryType] /\ entry'[k] = Gone
          /\ \A j \in Keys : j # k => entry'[j] = entry[j]
        BY <1>0, <3>1, DroppedType
    <3>3. Gone.users = 0
        BY DEF Gone, Blank
    <3>4. entry'[k].users = entry[k].users - 1
        BY <2>1, <3>2, <3>3
    <3>5. newer' \in [Keys -> SUBSET Keys]
        BY <3>1, OrderType DEF CoreInv
    <3> QED BY <2>1, <3>2, <3>4, <3>5
  <2>2. CASE ~(entry[k].closing /\ entry[k].users = 1)
    <3>1. entry' = [entry EXCEPT ![k].users = @ - 1, ![k].stale = FALSE] /\ newer' = Touched(k)
        BY <2>2 DEF Release
    <3>2. 1 <= entry[k].users
        BY <1>2
    <3>3. entry' \in [Keys -> EntryType]
        BY <1>0, <3>1, <3>2, Unpinned
    <3>4. entry'[k].users = entry[k].users - 1 /\ entry'[k].state = entry[k].state
        BY <1>0, <3>1 DEF EntryType
    <3>5. \A j \in Keys : j # k => entry'[j] = entry[j]
        BY <1>0, <3>1
    <3> QED BY <1>1, <3>1, <3>3, <3>4, <3>5, OrderType DEF CoreInv
  <2> QED BY <2>1, <2>2
<1>5. TypeOK'
    BY <1>4 DEF CoreInv, TypeOK, Places, Release
<1>6. CallsOK'
  <2>1. \A j \in Keys : entry[j].state = "building" => entry'[j].state = "building"
      BY <1>1, <1>4
  <2>2. /\ pc[t] = "release" /\ pins' = [pins EXCEPT ![t] = @ \ {k}]
        /\ pc' = [pc EXCEPT ![t] = IF pins[t] = {k} THEN "idle" ELSE "release"]
        /\ UNCHANGED <<todo, cur, hold>>
      BY DEF Release
  <2>3. pins \in [Callers -> SUBSET Keys] /\ pc \in [Callers -> Places] /\ CallsOK
      BY DEF CoreInv, TypeOK
  <2>4. todo[t] = {} /\ hold[t] = 0
      BY <2>2, <2>3 DEF CallsOK, Holding, Building
  <2>5. pc'[t] \in {"idle", "release"} /\ (pc'[t] = "idle" => pins'[t] = {})
      BY <2>2, <2>3
  <2>6. \A u \in Callers \ {t} : pc'[u] = pc[u] /\ pins'[u] = pins[u]
      BY <2>2, <2>3
  <2>7. \A u \in Callers : pc'[u] \in Building => u # t
      BY <2>5 DEF Building
  <2>8. \A u \in Callers : pc'[u] \in Building => cur[u] \in Keys /\ entry'[cur[u]].state = "building"
      BY <2>1, <2>3, <2>6, <2>7 DEF CallsOK
  <2> SUFFICES ASSUME NEW u \in Callers
               PROVE  /\ pc'[u] \in Building \cup {"open_end", "idle"} => pins'[u] = {}
                      /\ pc'[u] \in Building => cur'[u] \in Keys /\ entry'[cur'[u]].state = "building"
                      /\ pc'[u] \in Owning \cup {"prep_wait"} => cur'[u] \in pins'[u]
                      /\ pc'[u] \notin Holding => hold'[u] = 0
                      /\ todo'[u] \subseteq pins'[u]
                      /\ pc'[u] \in {"query_run", "view_run", "archive_run", "release"}
                            => todo'[u] = {}
                      /\ \A v \in Callers :
                          pc'[u] \in Building /\ pc'[v] \in Building /\ cur'[u] = cur'[v] => u = v
      BY DEF CallsOK
  <2>9. CASE u = t
      BY <2>2, <2>4, <2>5, <2>7, <2>9 DEF Owning, Building
  <2>10. CASE u # t
      BY <2>2, <2>3, <2>6, <2>7, <2>8, <2>10 DEF CallsOK
  <2> QED BY <2>9, <2>10
<1>7. PinnedIsOpen'
  <2> SUFFICES ASSUME NEW j \in Keys
               PROVE  /\ entry'[j].users = Cardinality(Holders(j)')
                      /\ Holders(j)' # {} => entry'[j].state = "open"
      BY DEF PinnedIsOpen
  <2>1. CASE j = k
    <3>1. Holders(k)' = Holders(k) \ {t}
        BY DEF Holders, Release, CoreInv, TypeOK
    <3>2. entry[k].users = 1 => Holders(k) \ {t} = {}
        BY <1>3, FS_EmptySet
    <3> QED BY <1>3, <1>4, <2>1, <3>1, <3>2
  <2>2. CASE j # k
    <3>1. Holders(j)' = Holders(j)
        BY <2>2 DEF Holders, Release, CoreInv, TypeOK
    <3> QED BY <1>4, <2>2, <3>1 DEF CoreInv, PinnedIsOpen
  <2> QED BY <2>1, <2>2
<1>8. ReservationsExact'
    BY CountsKept DEF CoreInv, TypeOK, Openers, Building, Release
<1> QED BY <1>5, <1>6, <1>7, <1>8 DEF CoreInv

LEMMA CloseStep ==
    ASSUME CoreInv, NEW t \in Callers, NEW k \in Keys, Close(t, k)
    PROVE  CoreInv'
<1>0. entry \in [Keys -> EntryType]
    BY DEF CoreInv, TypeOK
<1>1. /\ entry' \in [Keys -> EntryType] /\ newer' \in [Keys -> SUBSET Keys]
      /\ \A j \in Keys : /\ entry'[j].users = entry[j].users
                         /\ entry[j].state = "building" => entry'[j].state = "building"
                         /\ entry[j].users # 0 => entry'[j].state = entry[j].state
  <2>1. CASE entry[k].users = 0
    <3>1. entry' = Dropped(entry, Expirable \cup {k}) /\ newer' = Forget(Expirable \cup {k})
        BY <2>1 DEF Close
    <3>2. Expirable \cup {k} \subseteq Idle
        BY <2>1, ExpirableIdle DEF Close, Idle
    <3>3. /\ entry' \in [Keys -> EntryType]
          /\ newer' \in [Keys -> SUBSET Keys]
        BY <1>0, <3>1, <3>2, DroppedType, OrderType, ExpirableIdle DEF CoreInv
    <3> DEFINE D == Expirable \cup {k}
    <3>4. \A j \in Keys :
            /\ Dropped(entry, D)[j].users = entry[j].users
            /\ entry[j].state = "building" => Dropped(entry, D)[j].state = "building"
            /\ entry[j].users # 0 => Dropped(entry, D)[j].state = entry[j].state
        BY <1>0, <3>2, IdleDropsKeep
    <3> QED BY <3>1, <3>3, <3>4
  <2>2. CASE entry[k].users # 0
    <3> DEFINE e == [entry EXCEPT ![k].closing = TRUE]
    <3>1. entry' = Dropped(e, Expirable) /\ newer' = Forget(Expirable)
        BY <2>2 DEF Close
    <3>2. /\ e \in [Keys -> EntryType]
          /\ \A j \in Keys : e[j].users = entry[j].users /\ e[j].state = entry[j].state
        BY <1>0, ZenonT(60) DEF EntryType
    <3> HIDE DEF e
    <3>3. Expirable \subseteq Idle /\ Expirable \subseteq Keys
        BY ExpirableIdle
    <3>4. /\ entry' \in [Keys -> EntryType]
          /\ newer' \in [Keys -> SUBSET Keys]
        BY <3>1, <3>2, <3>3, DroppedType, OrderType DEF CoreInv
    <3> QED BY <3>1, <3>2, <3>3, <3>4, IdleDropsKeep
  <2> QED BY <2>1, <2>2
<1>2. TypeOK'
    BY <1>1 DEF CoreInv, TypeOK, Close, thread
<1>3. CallsOK'
    BY <1>1 DEF CoreInv, TypeOK, CallsOK, Close, thread
<1>4. PinnedIsOpen'
    BY <1>1, PinsKept DEF CoreInv, Close, thread
<1>5. ReservationsExact'
    BY CountsKept DEF CoreInv, Openers, Close, thread
<1> QED BY <1>2, <1>3, <1>4, <1>5 DEF CoreInv

LEMMA ShutdownClosesStep ==
    ASSUME CoreInv, ShutdownCloses
    PROVE  CoreInv'
<1>0. entry \in [Keys -> EntryType]
    BY DEF CoreInv, TypeOK
<1>1. /\ entry' \in [Keys -> EntryType]
      /\ \A j \in Keys : /\ entry'[j].users = entry[j].users
                         /\ entry[j].state = "building" => entry'[j].state = "building"
                         /\ entry[j].users # 0 => entry'[j].state = entry[j].state
  <2> DEFINE marked(j) == [entry[j] EXCEPT !.closing = TRUE]
  <2>1. \A j \in Keys : marked(j) \in EntryType
      BY <1>0 DEF EntryType
  <2>2. \A j \in Keys : marked(j).users = entry[j].users /\ marked(j).state = entry[j].state
      BY <1>0 DEF EntryType
  <2>3. entry' = [j \in Keys |-> IF j \in Idle THEN Gone
                                 ELSE IF j \in Open THEN marked(j) ELSE entry[j]]
      BY DEF ShutdownCloses
  <2>4. Gone \in EntryType /\ Gone.users = 0
      BY DEF Gone, Blank, EntryType
  <2> HIDE DEF marked
  <2>5. entry' \in [Keys -> EntryType]
      BY <1>0, <2>1, <2>3, <2>4
  <2>6. \A j \in Idle : entry[j].users = 0 /\ entry[j].state = "open"
      BY DEF Idle, Open
  <2> QED BY <2>2, <2>3, <2>4, <2>5, <2>6
<1>2. TypeOK'
    BY <1>1, ExpirableIdle, OrderType DEF CoreInv, TypeOK, ShutdownCloses, thread
<1>3. CallsOK'
    BY <1>1 DEF CoreInv, TypeOK, CallsOK, ShutdownCloses, thread
<1>4. PinnedIsOpen'
    BY <1>1, PinsKept DEF CoreInv, ShutdownCloses, thread
<1>5. ReservationsExact'
    BY CountsKept DEF CoreInv, Openers, ShutdownCloses, thread
<1> QED BY <1>2, <1>3, <1>4, <1>5 DEF CoreInv

-----------------------------------------------------------------------------

LEMMA CoreInit == Init => CoreInv
<1> SUFFICES ASSUME Init PROVE CoreInv
    OBVIOUS
<1>1. TypeOK
    BY DEF Init, TypeOK, EntryType, Fresh, Blank, Places
<1>2. CallsOK
    BY DEF Init, CallsOK, Building, Owning, Holding
<1>3. PinnedIsOpen
    BY FS_EmptySet DEF Init, PinnedIsOpen, Holders, Fresh, Blank
<1>4. ReservationsExact
  <2>1. Openers = {}
      BY DEF Init, Openers, Building
  <2>2. Total(hold) = 0
      BY TotalZero DEF Init
  <2> QED BY <2>1, <2>2, FS_EmptySet DEF Init, ReservationsExact
<1> QED BY <1>1, <1>2, <1>3, <1>4 DEF CoreInv

LEMMA AdvanceStep ==
    ASSUME CoreInv, NEW t \in Callers, Advance(t)
    PROVE  CoreInv'
<1>1. hold[t] \in Nat
    BY DEF CoreInv, TypeOK
<1> QED
    BY <1>1, OpenWorkerEndsStep, PrepWorkerEndsStep, OpenWorkerFailsStep, CommitOpenStep,
       ClosedDuringOpenStep, UndoOpenStep, EndOpenStep, SkipPrepStep, WantPrepStep,
       ReleaseStep, TakePrepStep, TimeoutPrepStep, FindPreparedStep, ReservePrepStep,
       RefusePrepStep, PrepWorkerFailsStep, PublishInfoStep, PublishReadyStep,
       UndoPrepStep, EndPrepStep, StartQueryStep, EndViewStep, EndQueryStep
    DEF Advance

LEMMA CallStep ==
    ASSUME CoreInv, NEW t \in Callers, Call(t)
    PROVE  CoreInv'
BY QuotaAssumption, BeginOpenStep, RefuseOpenStep, BeginQueryStep, BeginArchiveQueryStep,
   CloseStep, TakeCacheStep, ReserveViewStep, RefuseViewStep, StatusStep
DEF Call

LEMMA BackgroundStep ==
    ASSUME CoreInv, Background
    PROVE  CoreInv'
BY GoStaleStep, ReaperSweepsStep, ReaperStopsStep, ShutdownBeginsStep, ShutdownClosesStep
DEF Background

LEMMA CoreStutter ==
    ASSUME CoreInv, UNCHANGED vars
    PROVE  CoreInv'
<1>1. TypeOK' /\ CallsOK'
    BY DEF CoreInv, TypeOK, CallsOK, vars, store, thread
<1>2. PinnedIsOpen'
    BY PinsKept DEF CoreInv, vars, store, thread
<1>3. ReservationsExact'
    BY CountsKept DEF CoreInv, Openers, vars, store, thread
<1> QED BY <1>1, <1>2, <1>3 DEF CoreInv

LEMMA CoreStep == CoreInv /\ [Next]_vars => CoreInv'
BY AdvanceStep, CallStep, BackgroundStep, CoreStutter DEF Next, Stopped

\* CoreInv is inductive.
THEOREM CoreInvariant == Spec => []CoreInv
BY CoreInit, CoreStep, PTL DEF Spec

\* Every value stays in its type; in particular no counter falls below zero.
THEOREM TypeCorrect == Spec => []TypeOK
BY CoreInvariant, PTL DEF CoreInv

\* No session is removed while a query has it pinned, and Entry.users counts
\* those queries.
THEOREM PinnedStay == Spec => []PinnedIsOpen
BY CoreInvariant, PTL DEF CoreInv

\* Every reservation is returned exactly once.
THEOREM ReservationsReturn == Spec => []ReservationsExact
BY CoreInvariant, PTL DEF CoreInv

-----------------------------------------------------------------------------
(***************************************************************************)
(* Budgets.  Most steps neither store more nor claim more (QuietStep); a   *)
(* reservation is tested against everything that is stored or reserved     *)
(* (Reserved), and a commit turns the claim of its call into stored bytes  *)
(* (Committed).                                                            *)
(***************************************************************************)

\* A call that is about to charge a size has reserved at least that much.
MadeFits ==
    \A t \in Callers : pc[t] \in {"open_built", "prep_built"} => made[t] <= hold[t]

BudgetInv == CoreInv /\ MadeFits /\ DiskBudget /\ SessionBudget

-----------------------------------------------------------------------------

\* What running workers may still write is part of what is reserved.
LEMMA ClaimsWithin ==
    ASSUME NEW h \in [Callers -> Nat], NEW p \in [Callers -> Places]
    PROVE  /\ [t \in Callers |-> IF p[t] \in Settled THEN 0 ELSE h[t]] \in [Callers -> Nat]
           /\ Total([t \in Callers |-> IF p[t] \in Settled THEN 0 ELSE h[t]]) <= Total(h)
<1> DEFINE c == [t \in Callers |-> IF p[t] \in Settled THEN 0 ELSE h[t]]
<1>1. c \in [Callers -> Nat] /\ \A t \in Callers : c[t] <= h[t]
    OBVIOUS
<1> HIDE DEF c
<1>2. Total(c) <= Total(h)
    BY <1>1, TotalMonotone, FiniteAssumption
<1> QED BY <1>1, <1>2 DEF c

LEMMA ClaimsType ==
    ASSUME TypeOK
    PROVE  /\ Claims \in [Callers -> Nat] /\ Total(Claims) \in Nat
           /\ Total(Claims) <= Total(hold)
<1>1. Claims \in [Callers -> Nat] /\ Total(Claims) <= Total(hold)
    BY ClaimsWithin DEF TypeOK, Claims
<1> QED BY <1>1, CellsFinite, FiniteAssumption

\* The sizes of the entries, and what is left of them without some.
LEMMA SizesType ==
    ASSUME NEW e \in [Keys -> EntryType], NEW D
    PROVE  [k \in Keys |-> IF k \in D THEN 0 ELSE e[k].size] \in [Keys -> Nat]
BY DEF EntryType

LEMMA UsedType ==
    ASSUME TypeOK, NEW D
    PROVE  SizesWithout(D) \in [Keys -> Nat] /\ Total(SizesWithout(D)) \in Nat
<1>1. SizesWithout(D) \in [Keys -> Nat]
    BY SizesType DEF TypeOK, SizesWithout
<1> QED BY <1>1, CellsFinite, FiniteAssumption

LEMMA UsedShrinks ==
    ASSUME TypeOK, TypeOK', \A k \in Keys : entry'[k].size <= entry[k].size
    PROVE  Used \in Nat /\ Used' \in Nat /\ Used' <= Used
<1> DEFINE s == [k \in Keys |-> entry[k].size]
           r == [k \in Keys |-> entry'[k].size]
<1>1. s \in [Keys -> Nat] /\ r \in [Keys -> Nat]
  <2>1. entry \in [Keys -> EntryType] /\ entry' \in [Keys -> EntryType]
      BY DEF TypeOK
  <2> QED BY <2>1 DEF EntryType
<1>2. \A k \in Keys : r[k] <= s[k]
    OBVIOUS
<1>3. Used = Total(s) /\ Used' = Total(r)
    BY DEF Used, SizesWithout
<1> HIDE DEF s, r
<1> QED BY <1>1, <1>2, <1>3, TotalMonotone, CellsFinite, FiniteAssumption

LEMMA OpenFinite ==
    /\ IsFiniteSet(Open) /\ Cardinality(Open) \in Nat
    /\ IsFiniteSet(Builders) /\ Cardinality(Builders) \in Nat
    /\ Cardinality(Builders) <= Cardinality(Openers)
<1>1. Open \in SUBSET Keys /\ Builders \in SUBSET Openers /\ Openers \in SUBSET Callers
    BY DEF Open, Builders, Openers
<1>2. IsFiniteSet(Openers)
    BY <1>1, FiniteAssumption, FS_Subset
<1> QED BY <1>1, <1>2, FiniteAssumption, FS_Subset, FS_CardinalityType

LEMMA SessionsKept ==
    ASSUME SessionBudget, Open' \subseteq Open, Builders' \subseteq Builders
    PROVE  SessionBudget'
<1>1. \A S, T : IsFiniteSet(T) /\ S \in SUBSET T =>
          /\ Cardinality(S) \in Nat /\ Cardinality(T) \in Nat
          /\ Cardinality(S) <= Cardinality(T)
    BY FS_Subset, FS_CardinalityType
<1>2. /\ Cardinality(Open') \in Nat /\ Cardinality(Open) \in Nat
      /\ Cardinality(Open') <= Cardinality(Open)
    BY <1>1, OpenFinite
<1>3. /\ Cardinality(Builders') \in Nat /\ Cardinality(Builders) \in Nat
      /\ Cardinality(Builders') <= Cardinality(Builders)
    BY <1>1, OpenFinite
<1> QED BY <1>2, <1>3, QuotaAssumption DEF SessionBudget

-----------------------------------------------------------------------------

\* A step that stores no more, opens nothing and claims no more.
LEMMA Quiet ==
    ASSUME BudgetInv, CoreInv', MadeFits',
           \A k \in Keys : /\ entry'[k].size <= entry[k].size
                           /\ entry'[k].state = "open" => entry[k].state = "open",
           \A u \in Callers : /\ Claims'[u] <= Claims[u]
                              /\ pc'[u] \in Building => pc[u] \in Building
    PROVE  BudgetInv'
<1>1. Used \in Nat /\ Used' \in Nat /\ Used' <= Used
    BY UsedShrinks DEF BudgetInv, CoreInv
<1>2. Claims \in [Callers -> Nat] /\ Total(Claims) \in Nat
    BY ClaimsType DEF BudgetInv, CoreInv
<1>3. Claims' \in [Callers -> Nat]
    BY ClaimsWithin DEF CoreInv, TypeOK, Claims
<1>4. Total(Claims') <= Total(Claims) /\ Total(Claims') \in Nat
    BY <1>2, <1>3, TotalMonotone, CellsFinite, FiniteAssumption
<1>5. DiskBudget'
    BY <1>1, <1>2, <1>4, QuotaAssumption DEF BudgetInv, DiskBudget
<1>6. Open' \subseteq Open /\ Builders' \subseteq Builders
    BY DEF Open, Builders
<1>7. SessionBudget'
    BY <1>6, SessionsKept DEF BudgetInv
<1> QED BY <1>5, <1>7 DEF BudgetInv

\* No entry grows or opens.
FilesQuiet ==
    \A k \in Keys : /\ entry'[k].size <= entry[k].size
                    /\ entry'[k].state = "open" => entry[k].state = "open"

\* Only caller t moves, and it claims no more than before.
CallerQuiet(t) ==
    /\ \A u \in Callers \ {t} : pc'[u] = pc[u] /\ hold'[u] = hold[u] /\ made'[u] = made[u]
    /\ \/ pc'[t] \in Settled
       \/ hold'[t] = 0
       \/ pc[t] \notin Settled /\ hold'[t] <= hold[t]
    /\ pc'[t] \in {"open_built", "prep_built"} => made'[t] <= hold'[t]
    /\ pc'[t] \in Building => pc[t] \in Building

LEMMA QuietStep ==
    ASSUME BudgetInv, CoreInv', NEW t \in Callers, FilesQuiet, CallerQuiet(t)
    PROVE  BudgetInv'
<1>1. hold[t] \in Nat /\ hold'[t] \in Nat /\ \A u \in Callers : hold[u] \in Nat
    BY DEF BudgetInv, CoreInv, TypeOK
<1>2. \A u \in Callers \ {t} : Claims'[u] <= Claims[u]
    BY <1>1 DEF Claims, CallerQuiet
<1>3. Claims'[t] <= Claims[t]
    BY <1>1 DEF Claims, CallerQuiet
<1>4. MadeFits'
    BY DEF BudgetInv, MadeFits, CallerQuiet
<1> QED BY <1>2, <1>3, <1>4, Quiet DEF FilesQuiet, CallerQuiet

\* A step of the background threads, or a call that keeps its place.
LEMMA QuietBackground ==
    ASSUME BudgetInv, CoreInv', FilesQuiet, UNCHANGED <<pc, hold, made>>
    PROVE  BudgetInv'
<1>1. \A u \in Callers : hold[u] \in Nat
    BY DEF BudgetInv, CoreInv, TypeOK
<1>2. \A u \in Callers : Claims'[u] <= Claims[u]
    BY <1>1 DEF Claims
<1>3. MadeFits'
    BY DEF BudgetInv, MadeFits
<1> QED BY <1>2, <1>3, Quiet DEF FilesQuiet

\* The ways in which entries change without growing.
LEMMA FilesKept ==
    ASSUME TypeOK, UNCHANGED entry
    PROVE  FilesQuiet
<1>1. \A k \in Keys : entry[k].size \in Nat
    BY DEF TypeOK, EntryType
<1> QED BY <1>1 DEF FilesQuiet

LEMMA FilesDropped ==
    ASSUME TypeOK, NEW D, entry' = Dropped(entry, D)
    PROVE  FilesQuiet
<1>1. entry \in [Keys -> EntryType]
    BY DEF TypeOK
<1>2. \A k \in Keys : entry[k].size \in Nat
    BY <1>1 DEF EntryType
<1>3. Gone.size = 0 /\ Gone.state # "open"
    BY DEF Gone, Blank
<1>4. \A k \in Keys : entry'[k] = Gone \/ entry'[k] = entry[k]
    BY <1>1, DroppedType
<1> QED BY <1>2, <1>3, <1>4 DEF FilesQuiet

LEMMA FilesMarked ==
    ASSUME TypeOK, NEW k \in Keys, NEW v,
           \/ entry' = [entry EXCEPT ![k].root = v]
           \/ entry' = [entry EXCEPT ![k].prepared = v]
           \/ entry' = [entry EXCEPT ![k].stale = v]
    PROVE  FilesQuiet
<1>1. entry \in [Keys -> EntryType]
    BY DEF TypeOK
<1>2. \A j \in Keys : entry[j].size \in Nat
    BY <1>1 DEF EntryType
<1>3. \A j \in Keys : entry'[j].size = entry[j].size /\ entry'[j].state = entry[j].state
    BY <1>1 DEF EntryType
<1> QED BY <1>2, <1>3 DEF FilesQuiet

-----------------------------------------------------------------------------

LEMMA OpenWorkerFailsBudget ==
    ASSUME BudgetInv, NEW t \in Callers, OpenWorkerFails(t)
    PROVE  BudgetInv'
<1>1. CoreInv'
    BY OpenWorkerFailsStep DEF BudgetInv
<1>2. FilesQuiet
    BY FilesKept DEF BudgetInv, CoreInv, OpenWorkerFails, store
<1>3. CallerQuiet(t)
    BY DEF BudgetInv, CoreInv, TypeOK, CallsOK, MadeFits, CallerQuiet, Settled,
           Building, Holding, OpenWorkerFails
<1> QED BY <1>1, <1>2, <1>3, QuietStep

LEMMA ClosedDuringOpenBudget ==
    ASSUME BudgetInv, NEW t \in Callers, ClosedDuringOpen(t)
    PROVE  BudgetInv'
<1>1. CoreInv'
    BY ClosedDuringOpenStep DEF BudgetInv
<1>2. FilesQuiet
    BY FilesKept DEF BudgetInv, CoreInv, ClosedDuringOpen, store
<1>3. CallerQuiet(t)
    BY DEF BudgetInv, CoreInv, TypeOK, CallsOK, MadeFits, CallerQuiet, Settled,
           Building, Holding, ClosedDuringOpen
<1> QED BY <1>1, <1>2, <1>3, QuietStep

LEMMA EndOpenBudget ==
    ASSUME BudgetInv, NEW t \in Callers, EndOpen(t)
    PROVE  BudgetInv'
<1>1. CoreInv'
    BY EndOpenStep DEF BudgetInv
<1>2. FilesQuiet
    BY FilesKept DEF BudgetInv, CoreInv, EndOpen
<1>3. CallerQuiet(t)
    BY DEF BudgetInv, CoreInv, TypeOK, CallsOK, MadeFits, CallerQuiet, Settled,
           Building, Holding, EndOpen
<1> QED BY <1>1, <1>2, <1>3, QuietStep

LEMMA SkipPrepBudget ==
    ASSUME BudgetInv, NEW t \in Callers, NEW k \in Keys, SkipPrep(t, k)
    PROVE  BudgetInv'
<1>1. CoreInv'
    BY SkipPrepStep DEF BudgetInv
<1>2. FilesQuiet
    BY FilesKept DEF BudgetInv, CoreInv, SkipPrep, store
<1>3. CallerQuiet(t)
    BY DEF BudgetInv, CoreInv, TypeOK, CallsOK, MadeFits, CallerQuiet, Settled,
           Building, Holding, SkipPrep
<1> QED BY <1>1, <1>2, <1>3, QuietStep

LEMMA WantPrepBudget ==
    ASSUME BudgetInv, NEW t \in Callers, NEW k \in Keys, WantPrep(t, k)
    PROVE  BudgetInv'
<1>1. CoreInv'
    BY WantPrepStep DEF BudgetInv
<1>2. FilesQuiet
    BY FilesKept DEF BudgetInv, CoreInv, WantPrep, store
<1>3. CallerQuiet(t)
    BY DEF BudgetInv, CoreInv, TypeOK, CallsOK, MadeFits, CallerQuiet, Settled,
           Building, Holding, WantPrep
<1> QED BY <1>1, <1>2, <1>3, QuietStep

LEMMA TakePrepBudget ==
    ASSUME BudgetInv, NEW t \in Callers, TakePrep(t)
    PROVE  BudgetInv'
<1>1. CoreInv'
    BY TakePrepStep DEF BudgetInv
<1>2. FilesQuiet
    BY FilesKept DEF BudgetInv, CoreInv, TakePrep, store
<1>3. CallerQuiet(t)
    BY DEF BudgetInv, CoreInv, TypeOK, CallsOK, MadeFits, CallerQuiet, Settled,
           Building, Holding, TakePrep
<1> QED BY <1>1, <1>2, <1>3, QuietStep

LEMMA TimeoutPrepBudget ==
    ASSUME BudgetInv, NEW t \in Callers, TimeoutPrep(t)
    PROVE  BudgetInv'
<1>1. CoreInv'
    BY TimeoutPrepStep DEF BudgetInv
<1>2. FilesQuiet
    BY FilesKept DEF BudgetInv, CoreInv, TimeoutPrep, store
<1>3. CallerQuiet(t)
    BY DEF BudgetInv, CoreInv, TypeOK, CallsOK, MadeFits, CallerQuiet, Settled,
           Building, Holding, TimeoutPrep
<1> QED BY <1>1, <1>2, <1>3, QuietStep

LEMMA FindPreparedBudget ==
    ASSUME BudgetInv, NEW t \in Callers, FindPrepared(t)
    PROVE  BudgetInv'
<1>1. CoreInv'
    BY FindPreparedStep DEF BudgetInv
<1>2. FilesQuiet
    BY FilesKept DEF BudgetInv, CoreInv, FindPrepared, store
<1>3. CallerQuiet(t)
    BY DEF BudgetInv, CoreInv, TypeOK, CallsOK, MadeFits, CallerQuiet, Settled,
           Building, Holding, FindPrepared
<1> QED BY <1>1, <1>2, <1>3, QuietStep

LEMMA EndPrepBudget ==
    ASSUME BudgetInv, NEW t \in Callers, EndPrep(t)
    PROVE  BudgetInv'
<1>1. CoreInv'
    BY EndPrepStep DEF BudgetInv
<1>2. FilesQuiet
    BY FilesKept DEF BudgetInv, CoreInv, EndPrep
<1>3. CallerQuiet(t)
    BY DEF BudgetInv, CoreInv, TypeOK, CallsOK, MadeFits, CallerQuiet, Settled,
           Building, Holding, EndPrep
<1> QED BY <1>1, <1>2, <1>3, QuietStep

LEMMA StartQueryBudget ==
    ASSUME BudgetInv, NEW t \in Callers, StartQuery(t)
    PROVE  BudgetInv'
<1>1. CoreInv'
    BY StartQueryStep DEF BudgetInv
<1>2. FilesQuiet
    BY FilesKept DEF BudgetInv, CoreInv, StartQuery, store
<1>3. CallerQuiet(t)
    BY DEF BudgetInv, CoreInv, TypeOK, CallsOK, MadeFits, CallerQuiet, Settled,
           Building, Holding, StartQuery
<1> QED BY <1>1, <1>2, <1>3, QuietStep

LEMMA EndViewBudget ==
    ASSUME BudgetInv, NEW t \in Callers, EndView(t)
    PROVE  BudgetInv'
<1>1. CoreInv'
    BY EndViewStep DEF BudgetInv
<1>2. FilesQuiet
    BY FilesKept DEF BudgetInv, CoreInv, EndView
<1>3. CallerQuiet(t)
    BY DEF BudgetInv, CoreInv, TypeOK, CallsOK, MadeFits, CallerQuiet, Settled,
           Building, Holding, EndView
<1> QED BY <1>1, <1>2, <1>3, QuietStep

LEMMA EndQueryBudget ==
    ASSUME BudgetInv, NEW t \in Callers, EndQuery(t)
    PROVE  BudgetInv'
<1>1. CoreInv'
    BY EndQueryStep DEF BudgetInv
<1>2. FilesQuiet
    BY FilesKept DEF BudgetInv, CoreInv, EndQuery, store
<1>3. CallerQuiet(t)
    BY DEF BudgetInv, CoreInv, TypeOK, CallsOK, MadeFits, CallerQuiet, Settled,
           Building, Holding, EndQuery
<1> QED BY <1>1, <1>2, <1>3, QuietStep

LEMMA OpenWorkerEndsBudget ==
    ASSUME BudgetInv, NEW t \in Callers, NEW m \in Nat, OpenWorkerEnds(t, m)
    PROVE  BudgetInv'
<1>1. CoreInv'
    BY OpenWorkerEndsStep DEF BudgetInv
<1>2. FilesQuiet
    BY FilesKept DEF BudgetInv, CoreInv, OpenWorkerEnds, store
<1>3. CallerQuiet(t)
    BY QuotaAssumption DEF BudgetInv, CoreInv, TypeOK, CallsOK, MadeFits, CallerQuiet, Settled,
           Building, Holding, OpenWorkerEnds, WorkerSizes
<1> QED BY <1>1, <1>2, <1>3, QuietStep

LEMMA UndoOpenBudget ==
    ASSUME BudgetInv, NEW t \in Callers, UndoOpen(t)
    PROVE  BudgetInv'
<1>1. CoreInv'
    BY UndoOpenStep DEF BudgetInv
<1>2. FilesQuiet
    BY FilesDropped DEF BudgetInv, CoreInv, UndoOpen
<1>3. CallerQuiet(t)
    BY DEF BudgetInv, CoreInv, TypeOK, CallsOK, MadeFits, CallerQuiet, Settled,
           Building, Holding, UndoOpen
<1> QED BY <1>1, <1>2, <1>3, QuietStep

LEMMA RefusePrepBudget ==
    ASSUME BudgetInv, NEW t \in Callers, NEW D \in SUBSET Keys, RefusePrep(t, D)
    PROVE  BudgetInv'
<1>1. CoreInv'
    BY RefusePrepStep DEF BudgetInv
<1>2. FilesQuiet
    BY FilesDropped DEF BudgetInv, CoreInv, RefusePrep
<1>3. CallerQuiet(t)
    BY DEF BudgetInv, CoreInv, TypeOK, CallsOK, MadeFits, CallerQuiet, Settled,
           Building, Holding, RefusePrep
<1> QED BY <1>1, <1>2, <1>3, QuietStep

LEMMA RefuseViewBudget ==
    ASSUME BudgetInv, NEW t \in Callers, NEW D \in SUBSET Keys, RefuseView(t, D)
    PROVE  BudgetInv'
<1>1. CoreInv'
    BY RefuseViewStep DEF BudgetInv
<1>2. FilesQuiet
    BY FilesDropped DEF BudgetInv, CoreInv, RefuseView
<1>3. CallerQuiet(t)
    BY DEF BudgetInv, CoreInv, TypeOK, CallsOK, MadeFits, CallerQuiet, Settled,
           Building, Holding, RefuseView
<1> QED BY <1>1, <1>2, <1>3, QuietStep

LEMMA PrepWorkerFailsBudget ==
    ASSUME BudgetInv, NEW t \in Callers, PrepWorkerFails(t)
    PROVE  BudgetInv'
<1>1. CoreInv'
    BY PrepWorkerFailsStep DEF BudgetInv
<1>2. FilesQuiet
  <2>1. cur[t] \in Keys
      BY DEF BudgetInv, CoreInv, TypeOK, CallsOK, Owning, PrepWorkerFails
  <2> QED BY <2>1, FilesMarked DEF BudgetInv, CoreInv, PrepWorkerFails
<1>3. CallerQuiet(t)
    BY DEF BudgetInv, CoreInv, TypeOK, CallsOK, MadeFits, CallerQuiet, Settled,
           Building, Holding, PrepWorkerFails
<1> QED BY <1>1, <1>2, <1>3, QuietStep

LEMMA PublishReadyBudget ==
    ASSUME BudgetInv, NEW t \in Callers, PublishReady(t)
    PROVE  BudgetInv'
<1>1. CoreInv'
    BY PublishReadyStep DEF BudgetInv
<1>2. FilesQuiet
  <2>1. cur[t] \in Keys
      BY DEF BudgetInv, CoreInv, TypeOK, CallsOK, Owning, PublishReady
  <2> QED BY <2>1, FilesMarked DEF BudgetInv, CoreInv, PublishReady
<1>3. CallerQuiet(t)
    BY DEF BudgetInv, CoreInv, TypeOK, CallsOK, MadeFits, CallerQuiet, Settled,
           Building, Holding, PublishReady
<1> QED BY <1>1, <1>2, <1>3, QuietStep

LEMMA UndoPrepBudget ==
    ASSUME BudgetInv, NEW t \in Callers, UndoPrep(t)
    PROVE  BudgetInv'
<1>1. CoreInv'
    BY UndoPrepStep DEF BudgetInv
<1>2. FilesQuiet
  <2>1. cur[t] \in Keys
      BY DEF BudgetInv, CoreInv, TypeOK, CallsOK, Owning, UndoPrep
  <2> QED BY <2>1, FilesMarked DEF BudgetInv, CoreInv, UndoPrep
<1>3. CallerQuiet(t)
    BY DEF BudgetInv, CoreInv, TypeOK, CallsOK, MadeFits, CallerQuiet, Settled,
           Building, Holding, UndoPrep
<1> QED BY <1>1, <1>2, <1>3, QuietStep

LEMMA PrepWorkerEndsBudget ==
    ASSUME BudgetInv, NEW t \in Callers, NEW m \in Nat, PrepWorkerEnds(t, m)
    PROVE  BudgetInv'
<1>1. CoreInv'
    BY PrepWorkerEndsStep DEF BudgetInv
<1>2. FilesQuiet
  <2>1. cur[t] \in Keys
      BY DEF BudgetInv, CoreInv, TypeOK, CallsOK, Owning, PrepWorkerEnds
  <2> QED BY <2>1, FilesMarked DEF BudgetInv, CoreInv, PrepWorkerEnds
<1>3. CallerQuiet(t)
    BY QuotaAssumption DEF BudgetInv, CoreInv, TypeOK, CallsOK, MadeFits, CallerQuiet, Settled,
           Building, Holding, PrepWorkerEnds
<1> QED BY <1>1, <1>2, <1>3, QuietStep

-----------------------------------------------------------------------------

\* After a reservation that was found to fit, what is stored and what is
\* reserved are within the budget.
LEMMA Reserved ==
    ASSUME BudgetInv, CoreInv', NEW n \in Nat, NEW o, NEW D, Fits(D, n, o),
           reserved' = reserved + n,
           \A k \in Keys : entry'[k].size = IF k \in D THEN 0 ELSE entry[k].size
    PROVE  DiskBudget'
<1>1. Used' = Total(SizesWithout(D))
    BY DEF Used, SizesWithout
<1>2. Used' + reserved' <= MaxBytes /\ Used' \in Nat
    BY <1>1, UsedType, QuotaAssumption DEF Fits, BudgetInv, CoreInv, TypeOK
<1>3. Total(Claims') <= Total(hold') /\ Claims' \in [Callers -> Nat]
    BY ClaimsWithin DEF CoreInv, TypeOK, Claims
<1>4. Total(hold') = reserved' /\ reserved' \in Nat
    BY DEF CoreInv, TypeOK, ReservationsExact
<1>5. Total(Claims') \in Nat
    BY <1>3, CellsFinite, FiniteAssumption
<1> QED BY <1>2, <1>3, <1>4, <1>5, QuotaAssumption DEF DiskBudget

\* A commit charges to session k at most what its call has reserved, and the
\* call claims nothing any more.
LEMMA Committed ==
    ASSUME BudgetInv, CoreInv', NEW t \in Callers, NEW k \in Keys,
           pc[t] \in {"open_built", "prep_built"}, pc'[t] \in Settled,
           \A u \in Callers \ {t} : pc'[u] = pc[u], UNCHANGED hold,
           entry'[k].size <= entry[k].size + made[t],
           \A j \in Keys \ {k} : entry'[j].size = entry[j].size
    PROVE  DiskBudget'
<1>1. /\ made[t] \in Nat /\ hold[t] \in Nat /\ made[t] <= hold[t]
      /\ entry'[k].size \in Nat
    BY DEF BudgetInv, CoreInv, TypeOK, MadeFits, EntryType
<1>2. Used' = Used - entry[k].size + entry'[k].size
  <2>1. SizesWithout({}) \in [Keys -> Nat]
      BY UsedType DEF BudgetInv, CoreInv
  <2>2. SizesWithout({})' = [SizesWithout({}) EXCEPT ![k] = entry'[k].size]
      BY DEF SizesWithout
  <2>3. \A f \in [Keys -> Nat], x \in Keys, v \in Nat :
            Total([f EXCEPT ![x] = v]) = Total(f) - f[x] + v
      BY TotalUpdate, FiniteAssumption
  <2>4. SizesWithout({})[k] = entry[k].size
      BY DEF SizesWithout
  <2> QED BY <1>1, <2>1, <2>2, <2>3, <2>4 DEF Used
<1>3. Total(Claims') = Total(Claims) - hold[t]
  <2>1. Claims \in [Callers -> Nat]
      BY ClaimsType DEF BudgetInv, CoreInv
  <2>2. Claims' = [Claims EXCEPT ![t] = 0] /\ Claims[t] = hold[t]
      BY DEF Claims, Settled
  <2>3. \A f \in [Callers -> Nat], x \in Callers, v \in Nat :
            Total([f EXCEPT ![x] = v]) = Total(f) - f[x] + v
      BY TotalUpdate, FiniteAssumption
  <2>4. Total(Claims') = Total(Claims) - Claims[t] + 0
      BY <2>1, <2>2, <2>3
  <2>5. Total(Claims) \in Nat
      BY ClaimsType DEF BudgetInv, CoreInv
  <2> QED BY <1>1, <2>2, <2>4, <2>5
<1>4. Used \in Nat /\ Total(Claims) \in Nat /\ entry[k].size \in Nat
    BY UsedType, ClaimsType DEF BudgetInv, CoreInv, Used, TypeOK, EntryType
<1> QED BY <1>1, <1>2, <1>3, <1>4, QuotaAssumption DEF BudgetInv, DiskBudget

\* The sizes and states of entries of which some were dropped.
LEMMA DroppedSizes ==
    ASSUME NEW e \in [Keys -> EntryType], NEW D
    PROVE  \A k \in Keys :
             /\ Dropped(e, D)[k].size = IF k \in D THEN 0 ELSE e[k].size
             /\ Dropped(e, D)[k].state = IF k \in D THEN "gone" ELSE e[k].state
<1>1. Gone.size = 0 /\ Gone.state = "gone"
    BY DEF Gone, Blank
<1> QED BY <1>1, DroppedType

LEMMA ReservePrepBudget ==
    ASSUME BudgetInv, NEW t \in Callers, NEW D \in SUBSET Keys, ReservePrep(t, D)
    PROVE  BudgetInv'
<1>1. CoreInv'
    BY ReservePrepStep DEF BudgetInv
<1>2. \A k \in Keys : /\ entry'[k].size = IF k \in D THEN 0 ELSE entry[k].size
                      /\ entry'[k].state = "open" => entry[k].state = "open"
    BY DroppedSizes DEF ReservePrep, BudgetInv, CoreInv, TypeOK
<1>3. DiskBudget'
    BY <1>1, <1>2, Reserved, QuotaAssumption DEF ReservePrep, Reserves
<1>4. Open' \subseteq Open /\ Builders' \subseteq Builders
    BY <1>2 DEF Open, Builders, Building, ReservePrep, BudgetInv, CoreInv, TypeOK
<1>5. MadeFits'
    BY DEF MadeFits, ReservePrep, BudgetInv, CoreInv, TypeOK
<1> QED BY <1>1, <1>3, <1>4, <1>5, SessionsKept DEF BudgetInv

LEMMA ReserveViewBudget ==
    ASSUME BudgetInv, NEW t \in Callers, NEW D \in SUBSET Keys, ReserveView(t, D)
    PROVE  BudgetInv'
<1>1. CoreInv'
    BY ReserveViewStep DEF BudgetInv
<1>2. \A k \in Keys : /\ entry'[k].size = IF k \in D THEN 0 ELSE entry[k].size
                      /\ entry'[k].state = "open" => entry[k].state = "open"
    BY DroppedSizes DEF ReserveView, BudgetInv, CoreInv, TypeOK
<1>3. DiskBudget'
    BY <1>1, <1>2, Reserved, QuotaAssumption DEF ReserveView, Reserves
<1>4. Open' \subseteq Open /\ Builders' \subseteq Builders
    BY <1>2 DEF Open, Builders, Building, ReserveView, BudgetInv, CoreInv, TypeOK
<1>5. MadeFits'
    BY DEF MadeFits, ReserveView, BudgetInv, CoreInv, TypeOK
<1> QED BY <1>1, <1>3, <1>4, <1>5, SessionsKept DEF BudgetInv

LEMMA BeginOpenBudget ==
    ASSUME BudgetInv, NEW t \in Callers, NEW k \in Keys, NEW n \in OpenNeeds \cup LoadNeeds,
           NEW artifact \in BOOLEAN, NEW D \in SUBSET Keys, BeginOpen(t, k, n, artifact, D)
    PROVE  BudgetInv'
<1>0. entry \in [Keys -> EntryType] /\ n \in Nat
    BY QuotaAssumption DEF BudgetInv, CoreInv, TypeOK
<1>1. CoreInv'
    BY BeginOpenStep DEF BudgetInv
<1>2. \A j \in Keys : /\ entry'[j].size = IF j \in D THEN 0 ELSE entry[j].size
                      /\ entry'[j].state = "open" => entry[j].state = "open" /\ j \notin D
  <2> DEFINE e == [entry EXCEPT ![k].state = "building", ![k].artifact = artifact]
  <2>1. e \in [Keys -> EntryType] /\ entry' = Dropped(e, D)
      BY <1>0 DEF EntryType, BeginOpen
  <2>2. \A j \in Keys : /\ e[j].size = entry[j].size
                        /\ e[j].state = "open" => entry[j].state = "open"
      BY <1>0 DEF EntryType
  <2> HIDE DEF e
  <2> QED BY <2>1, <2>2, DroppedSizes
<1>3. DiskBudget'
    BY <1>0, <1>1, <1>2, Reserved DEF BeginOpen, Reserves
<1>4. MadeFits'
    BY DEF MadeFits, BeginOpen, BudgetInv, CoreInv, TypeOK
<1>5. SessionBudget'
  <2>1. Open' \in SUBSET (Open \ D)
      BY <1>2 DEF Open
  <2>2. IsFiniteSet(Open \ D) /\ Cardinality(Open \ D) \in Nat
      BY OpenFinite, FS_Subset, FS_CardinalityType
  <2>3. Cardinality(Open') <= Cardinality(Open \ D) /\ Cardinality(Open') \in Nat
      BY <2>1, <2>2, FS_Subset, FS_CardinalityType
  <2>4. Cardinality(Builders') <= Cardinality(Openers') /\ Cardinality(Builders') \in Nat
    <3>1. Builders' \in SUBSET Openers' /\ Openers' \in SUBSET Callers
        BY DEF Builders, Openers
    <3>2. IsFiniteSet(Openers')
        BY <3>1, FiniteAssumption, FS_Subset
    <3> QED BY <3>1, <3>2, FS_Subset, FS_CardinalityType
  <2>5. Cardinality(Openers') = opening + 1 /\ opening \in Nat
      BY <1>1 DEF BeginOpen, BudgetInv, CoreInv, TypeOK, ReservationsExact
  <2>6. Cardinality(Open \ D) + opening < MaxSessions
      BY DEF BeginOpen, Reserves, Fits
  <2> QED BY <2>2, <2>3, <2>4, <2>5, <2>6, QuotaAssumption DEF SessionBudget
<1> QED BY <1>1, <1>3, <1>4, <1>5 DEF BudgetInv

LEMMA CommitOpenBudget ==
    ASSUME BudgetInv, NEW t \in Callers, CommitOpen(t)
    PROVE  BudgetInv'
<1>0. /\ entry \in [Keys -> EntryType] /\ made[t] \in Nat /\ cur[t] \in Keys
      /\ pc \in [Callers -> Places]
    BY DEF BudgetInv, CoreInv, TypeOK, CallsOK, Building, CommitOpen
<1>1. CoreInv'
    BY CommitOpenStep DEF BudgetInv
<1>2. /\ entry'[cur[t]].size = made[t] /\ entry[cur[t]].size \in Nat
      /\ \A j \in Keys \ {cur[t]} : entry'[j] = entry[j]
    BY <1>0 DEF EntryType, CommitOpen
<1>3. /\ pc[t] = "open_built" /\ pc'[t] = "open_end" /\ UNCHANGED <<hold, made>>
      /\ \A u \in Callers \ {t} : pc'[u] = pc[u]
    BY <1>0 DEF CommitOpen
<1>4. DiskBudget'
  <2>1. entry'[cur[t]].size <= entry[cur[t]].size + made[t]
      BY <1>0, <1>2
  <2>2. \A j \in Keys \ {cur[t]} : entry'[j].size = entry[j].size
      BY <1>2
  <2> QED BY <1>0, <1>1, <1>3, <2>1, <2>2, Committed DEF Settled
<1>5. MadeFits'
    BY <1>3 DEF MadeFits, BudgetInv
<1>6. SessionBudget'
  <2>1. Open' \in SUBSET (Open \cup {cur[t]})
      BY <1>2 DEF Open
  <2>2. /\ IsFiniteSet(Open \cup {cur[t]})
        /\ Cardinality(Open \cup {cur[t]}) <= Cardinality(Open) + 1
        /\ Cardinality(Open \cup {cur[t]}) \in Nat
    <3>1. /\ IsFiniteSet(Open \cup {cur[t]})
          /\ Cardinality(Open \cup {cur[t]})
               = IF cur[t] \in Open THEN Cardinality(Open) ELSE Cardinality(Open) + 1
        BY OpenFinite, FS_AddElement
    <3> QED BY <3>1, OpenFinite
  <2>3. Cardinality(Open') <= Cardinality(Open) + 1 /\ Cardinality(Open') \in Nat
      BY <2>1, <2>2, OpenFinite, FS_Subset, FS_CardinalityType
  <2>4. Builders' = Builders \ {t} /\ t \in Builders
      BY <1>0, <1>3 DEF Builders, Building
  <2>5. Cardinality(Builders') = Cardinality(Builders) - 1
      BY <2>4, OpenFinite, FS_RemoveElement
  <2> QED BY <2>3, <2>5, OpenFinite, QuotaAssumption DEF BudgetInv, SessionBudget
<1> QED BY <1>1, <1>4, <1>5, <1>6 DEF BudgetInv

LEMMA PublishInfoBudget ==
    ASSUME BudgetInv, NEW t \in Callers, PublishInfo(t)
    PROVE  BudgetInv'
<1>0. /\ entry \in [Keys -> EntryType] /\ made[t] \in Nat /\ cur[t] \in Keys
      /\ pc \in [Callers -> Places]
    BY DEF BudgetInv, CoreInv, TypeOK, CallsOK, Owning, PublishInfo
<1>1. CoreInv'
    BY PublishInfoStep DEF BudgetInv
<1>2. /\ entry'[cur[t]].size = entry[cur[t]].size + made[t] /\ entry[cur[t]].size \in Nat
      /\ entry'[cur[t]].state = entry[cur[t]].state
      /\ \A j \in Keys \ {cur[t]} : entry'[j] = entry[j]
  <2>1. entry' = [entry EXCEPT ![cur[t]].info = TRUE, ![cur[t]].size = @ + made[t]]
      BY DEF PublishInfo
  <2> QED BY <1>0, <2>1 DEF EntryType
<1>3. /\ pc[t] = "prep_built" /\ pc'[t] = "prep_publish" /\ UNCHANGED <<hold, made>>
      /\ \A u \in Callers \ {t} : pc'[u] = pc[u]
    BY <1>0 DEF PublishInfo
<1>4. DiskBudget'
  <2>1. entry'[cur[t]].size <= entry[cur[t]].size + made[t]
      BY <1>0, <1>2
  <2>2. \A j \in Keys \ {cur[t]} : entry'[j].size = entry[j].size
      BY <1>2
  <2> QED BY <1>0, <1>1, <1>3, <2>1, <2>2, Committed DEF Settled
<1>5. MadeFits'
    BY <1>3 DEF MadeFits, BudgetInv
<1>6. Open' \subseteq Open /\ Builders' \subseteq Builders
    BY <1>2, <1>3 DEF Open, Builders, Building
<1> QED BY <1>1, <1>4, <1>5, <1>6, SessionsKept DEF BudgetInv

\* The reference cache takes at most what is neither stored nor reserved.
LEMMA TakeCacheBudget ==
    ASSUME BudgetInv, NEW t \in Callers, NEW k \in Keys, TakeCache(t, k)
    PROVE  BudgetInv'
<1> DEFINE free == MaxBytes - reserved - Used
           grant == IF free < CacheMax THEN free ELSE CacheMax
<1>0. entry \in [Keys -> EntryType] /\ Used \in Nat /\ reserved \in Nat
    BY UsedType DEF Used, BudgetInv, CoreInv, TypeOK
<1>1. CoreInv'
    BY TakeCacheStep DEF BudgetInv
<1>2. entry' = [entry EXCEPT ![k].cache = TRUE, ![k].size = @ + grant] /\ grant \in Nat
      /\ grant <= free
    BY <1>0, QuotaAssumption DEF TakeCache
<1> HIDE DEF grant
<1>3. /\ entry'[k].size = entry[k].size + grant /\ entry[k].size \in Nat
      /\ entry'[k].state = entry[k].state
      /\ \A j \in Keys \ {k} : entry'[j] = entry[j]
    BY <1>0, <1>2 DEF EntryType
<1>4. Used' = Used + grant
  <2>1. SizesWithout({}) \in [Keys -> Nat] /\ SizesWithout({})[k] = entry[k].size
    <3>1. SizesWithout({}) \in [Keys -> Nat]
        BY UsedType DEF BudgetInv, CoreInv
    <3> QED BY <3>1 DEF SizesWithout
  <2>2. SizesWithout({})' = [SizesWithout({}) EXCEPT ![k] = entry[k].size + grant]
      BY <1>3 DEF SizesWithout
  <2>3. \A f \in [Keys -> Nat], x \in Keys, v \in Nat :
            Total([f EXCEPT ![x] = v]) = Total(f) - f[x] + v
      BY TotalUpdate, FiniteAssumption
  <2>4. entry[k].size + grant \in Nat
      BY <1>2, <1>3
  <2>5. Total(SizesWithout({})') = Total(SizesWithout({})) - entry[k].size + (entry[k].size + grant)
      BY <2>1, <2>2, <2>3, <2>4
  <2> QED BY <1>0, <1>2, <1>3, <2>5 DEF Used
<1>5. DiskBudget'
  <2>1. UNCHANGED Claims
      BY DEF TakeCache, thread, Claims
  <2>2. Total(Claims) <= reserved /\ Total(Claims) \in Nat
      BY ClaimsType DEF BudgetInv, CoreInv, ReservationsExact
  <2> QED BY <1>0, <1>2, <1>4, <2>1, <2>2, QuotaAssumption DEF DiskBudget
<1>6. Open' \subseteq Open /\ Builders' \subseteq Builders
    BY <1>3 DEF Open, Builders, TakeCache, thread
<1>7. MadeFits'
    BY DEF MadeFits, BudgetInv, TakeCache, thread
<1> QED BY <1>1, <1>5, <1>6, <1>7, SessionsKept DEF BudgetInv

-----------------------------------------------------------------------------

LEMMA ReleaseBudget ==
    ASSUME BudgetInv, NEW t \in Callers, NEW k \in Keys, Release(t, k)
    PROVE  BudgetInv'
<1>0. entry \in [Keys -> EntryType]
    BY DEF BudgetInv, CoreInv, TypeOK
<1>1. CoreInv'
    BY ReleaseStep DEF BudgetInv
<1>2. FilesQuiet
  <2>1. CASE entry' = Dropped(entry, {k})
      BY <2>1, FilesDropped DEF BudgetInv, CoreInv
  <2>2. CASE entry' = [entry EXCEPT ![k].users = @ - 1, ![k].stale = FALSE]
    <3>1. \A j \in Keys : entry[j].size \in Nat
        BY <1>0 DEF EntryType
    <3>2. \A j \in Keys : entry'[j].size = entry[j].size /\ entry'[j].state = entry[j].state
        BY <1>0, <2>2 DEF EntryType
    <3> QED BY <3>1, <3>2 DEF FilesQuiet
  <2> QED BY <2>1, <2>2 DEF Release
<1>3. CallerQuiet(t)
    BY DEF BudgetInv, CoreInv, TypeOK, CallsOK, MadeFits, CallerQuiet, Settled,
           Building, Holding, Release
<1> QED BY <1>1, <1>2, <1>3, QuietStep

LEMMA PinFiles ==
    ASSUME TypeOK, NEW t \in Callers, NEW K, Pin(t, K)
    PROVE  FilesQuiet
<1>0. entry \in [Keys -> EntryType]
    BY DEF TypeOK
<1> DEFINE more(k) == [entry[k] EXCEPT !.users = @ + 1]
<1>1. \A k \in Keys : more(k).size = entry[k].size /\ more(k).state = entry[k].state
    BY <1>0 DEF EntryType
<1>2. \A k \in Keys : entry'[k] \in {Gone, more(k), entry[k]}
    BY DEF Pin
<1> HIDE DEF more
<1>3. Gone.size = 0 /\ Gone.state = "gone" /\ \A k \in Keys : entry[k].size \in Nat
    BY <1>0 DEF Gone, Blank, EntryType
<1> QED BY <1>1, <1>2, <1>3 DEF FilesQuiet

LEMMA BeginQueryBudget ==
    ASSUME BudgetInv, NEW t \in Callers, NEW K \in SUBSET Keys, BeginQuery(t, K)
    PROVE  BudgetInv'
<1>1. CoreInv' /\ FilesQuiet
    BY BeginQueryStep, PinFiles DEF BudgetInv, CoreInv, BeginQuery
<1>2. CallerQuiet(t)
    BY DEF BudgetInv, CoreInv, TypeOK, CallsOK, CallerQuiet, Settled, Building, Holding,
           BeginQuery, Pin
<1> QED BY <1>1, <1>2, QuietStep

LEMMA BeginArchiveQueryBudget ==
    ASSUME BudgetInv, NEW t \in Callers, NEW k \in Keys, BeginArchiveQuery(t, k)
    PROVE  BudgetInv'
<1>1. CoreInv' /\ FilesQuiet
    BY BeginArchiveQueryStep, PinFiles DEF BudgetInv, CoreInv, BeginArchiveQuery
<1>2. CallerQuiet(t)
    BY DEF BudgetInv, CoreInv, TypeOK, CallsOK, CallerQuiet, Settled, Building, Holding,
           BeginArchiveQuery, Pin
<1> QED BY <1>1, <1>2, QuietStep

LEMMA RefuseOpenBudget ==
    ASSUME BudgetInv, NEW t \in Callers, NEW n \in Nat, NEW D \in SUBSET Keys, RefuseOpen(t, n, D)
    PROVE  BudgetInv'
BY RefuseOpenStep, FilesDropped, QuietBackground DEF BudgetInv, CoreInv, RefuseOpen, thread

LEMMA StatusBudget ==
    ASSUME BudgetInv, NEW t \in Callers, Status(t)
    PROVE  BudgetInv'
BY StatusStep, FilesDropped, QuietBackground DEF BudgetInv, CoreInv, Status, thread

LEMMA CloseBudget ==
    ASSUME BudgetInv, NEW t \in Callers, NEW k \in Keys, Close(t, k)
    PROVE  BudgetInv'
<1>0. entry \in [Keys -> EntryType]
    BY DEF BudgetInv, CoreInv, TypeOK
<1>1. CoreInv'
    BY CloseStep DEF BudgetInv
<1>2. FilesQuiet
  <2>1. CASE entry' = Dropped(entry, Expirable \cup {k})
      BY <2>1, FilesDropped DEF BudgetInv, CoreInv
  <2>2. CASE entry' = Dropped([entry EXCEPT ![k].closing = TRUE], Expirable)
    <3> DEFINE e == [entry EXCEPT ![k].closing = TRUE]
    <3>1. /\ e \in [Keys -> EntryType]
          /\ \A j \in Keys : e[j].size = entry[j].size /\ e[j].state = entry[j].state
        BY <1>0 DEF EntryType
    <3>2. \A j \in Keys : entry[j].size \in Nat
        BY <1>0 DEF EntryType
    <3>3. entry' = Dropped(e, Expirable)
        BY <2>2
    <3> HIDE DEF e
    <3>4. \A j \in Keys : /\ entry'[j].size = IF j \in Expirable THEN 0 ELSE e[j].size
                          /\ entry'[j].state = IF j \in Expirable THEN "gone" ELSE e[j].state
        BY <3>1, <3>3, DroppedSizes
    <3> QED BY <3>1, <3>2, <3>4 DEF FilesQuiet
  <2> QED BY <2>1, <2>2 DEF Close
<1> QED BY <1>1, <1>2, QuietBackground DEF Close, thread

LEMMA BackgroundBudget ==
    ASSUME BudgetInv, Background
    PROVE  BudgetInv'
<1>0. entry \in [Keys -> EntryType]
    BY DEF BudgetInv, CoreInv, TypeOK
<1>1. CoreInv'
    BY BackgroundStep DEF BudgetInv
<1>2. CASE \E k \in Keys : GoStale(k)
    BY <1>1, <1>2, FilesMarked, QuietBackground DEF GoStale, thread, BudgetInv, CoreInv
<1>3. CASE ReaperSweeps
    BY <1>1, <1>3, FilesDropped, QuietBackground DEF ReaperSweeps, thread, BudgetInv, CoreInv
<1>4. CASE ReaperStops \/ ShutdownBegins
    BY <1>1, <1>4, FilesKept, QuietBackground
    DEF ReaperStops, ShutdownBegins, store, thread, BudgetInv, CoreInv
<1>5. CASE ShutdownCloses
  <2> DEFINE marked(k) == [entry[k] EXCEPT !.closing = TRUE]
  <2>1. \A k \in Keys : marked(k).size = entry[k].size /\ marked(k).state = entry[k].state
      BY <1>0 DEF EntryType
  <2>2. \A k \in Keys : entry'[k] \in {Gone, marked(k), entry[k]}
      BY <1>5 DEF ShutdownCloses
  <2> HIDE DEF marked
  <2>3. Gone.size = 0 /\ Gone.state = "gone" /\ \A k \in Keys : entry[k].size \in Nat
      BY <1>0 DEF Gone, Blank, EntryType
  <2>4. FilesQuiet
      BY <2>1, <2>2, <2>3 DEF FilesQuiet
  <2> QED BY <1>1, <1>5, <2>4, QuietBackground DEF ShutdownCloses, thread
<1> QED BY <1>2, <1>3, <1>4, <1>5 DEF Background

-----------------------------------------------------------------------------

LEMMA BudgetInit == Init => BudgetInv
<1> SUFFICES ASSUME Init
             PROVE  BudgetInv
    OBVIOUS
<1>1. CoreInv
    BY CoreInit
<1>2. Used = 0 /\ Total(Claims) = 0
  <2>1. /\ SizesWithout({}) \in [Keys -> Nat] /\ Claims \in [Callers -> Nat]
        /\ \A k \in Keys : SizesWithout({})[k] = 0
        /\ \A t \in Callers : Claims[t] = 0
      BY <1>1, UsedType, ClaimsType DEF CoreInv, Init, SizesWithout, Claims, Fresh, Blank
  <2> QED BY <2>1, TotalZero DEF Used
<1>3. DiskBudget
    BY <1>2, QuotaAssumption DEF DiskBudget
<1>4. Open = {} /\ Builders = {}
    BY DEF Init, Open, Builders, Building, Fresh, Blank
<1>5. SessionBudget
    BY <1>4, FS_EmptySet, QuotaAssumption DEF SessionBudget
<1>6. MadeFits
    BY DEF Init, MadeFits
<1> QED BY <1>1, <1>3, <1>5, <1>6 DEF BudgetInv

LEMMA BudgetAdvance ==
    ASSUME BudgetInv, NEW t \in Callers, Advance(t)
    PROVE  BudgetInv'
<1>1. hold[t] \in Nat
    BY DEF BudgetInv, CoreInv, TypeOK
<1> QED BY <1>1, OpenWorkerEndsBudget, PrepWorkerEndsBudget, OpenWorkerFailsBudget,
           CommitOpenBudget, ClosedDuringOpenBudget, UndoOpenBudget, EndOpenBudget,
           SkipPrepBudget, WantPrepBudget, ReleaseBudget, TakePrepBudget, TimeoutPrepBudget,
           FindPreparedBudget, ReservePrepBudget, RefusePrepBudget, PrepWorkerFailsBudget,
           PublishInfoBudget, PublishReadyBudget, UndoPrepBudget, EndPrepBudget,
           StartQueryBudget, EndViewBudget, EndQueryBudget
    DEF Advance

LEMMA BudgetCall ==
    ASSUME BudgetInv, NEW t \in Callers, Call(t)
    PROVE  BudgetInv'
BY QuotaAssumption, BeginOpenBudget, RefuseOpenBudget, BeginQueryBudget,
   BeginArchiveQueryBudget, CloseBudget, TakeCacheBudget, ReserveViewBudget,
   RefuseViewBudget, StatusBudget
DEF Call

LEMMA BudgetStutter ==
    ASSUME BudgetInv, UNCHANGED vars
    PROVE  BudgetInv'
BY CoreStutter, FilesKept, QuietBackground DEF BudgetInv, CoreInv, vars, store, thread

\* BudgetInv is inductive.
THEOREM BudgetInvariant == Spec => []BudgetInv
<1>1. BudgetInv /\ [Next]_vars => BudgetInv'
    BY BudgetAdvance, BudgetCall, BackgroundBudget, BudgetStutter DEF Next, Stopped
<1> QED BY BudgetInit, <1>1, PTL DEF Spec

\* The disk never holds, and running workers never may write, more than
\* max_dex_session_bytes together.
THEOREM DiskStaysWithin == Spec => []DiskBudget
BY BudgetInvariant, PTL DEF BudgetInv

\* At most max_dex_sessions sessions exist or are being built.
THEOREM SessionsStayWithin == Spec => []SessionBudget
BY BudgetInvariant, PTL DEF BudgetInv

-----------------------------------------------------------------------------
(***************************************************************************)
(* Lazy preparation.  What the flags of an entry mean, and what a call     *)
(* knows of the entries it has pinned.                                     *)
(***************************************************************************)

\* Only an open session has files below `dex', a prepared one has all it
\* needs, and files that nobody is working on are those of a prepared one.
KeySound(k) ==
    LET e == entry[k] IN
    /\ e.state # "open" => ~e.prepared /\ ~e.root
    /\ e.prepared => e.info /\ (e.artifact => e.root)
    /\ prep[k] = None /\ e.root => e.prepared

\* A call's places between its pinning and the end of its query.
Asking == Owning \cup {"prep_next", "prep_wait", "query_run", "view_run"}

\* A call that prepares holds the lock of its session; it knows how far the
\* session is; and all it no longer has to do is prepared.
CallSound(t) ==
    LET e == entry[cur[t]] IN
    /\ pc[t] \in Owning => prep[cur[t]] = t
    /\ pc[t] \in {"prep_worker", "prep_built", "prep_publish", "prep_undo", "prep_fail"} => ~e.prepared
    /\ pc[t] \in {"prep_check", "prep_worker", "prep_fail"} /\ e.root => e.prepared
    /\ pc[t] \in {"prep_built", "prep_publish"} => e.root
    /\ pc[t] = "prep_publish" => e.info
    /\ pc[t] = "prep_done" => e.prepared
    /\ pc[t] \in Asking => \A k \in pins[t] \ todo[t] : entry[k].prepared

PrepInv ==
    /\ CoreInv
    /\ \A k \in Keys : KeySound(k)
    /\ \A t \in Callers : CallSound(t)

\* What a step may do to an entry without touching a preparation.
Alike(e, f) ==
    /\ e.state = f.state /\ e.artifact = f.artifact
    /\ e.prepared = f.prepared /\ e.info = f.info /\ e.root = f.root
Kept(k) == entry'[k] = Gone \/ Alike(entry'[k], entry[k])
Still(t) == /\ pc'[t] = pc[t] /\ cur'[t] = cur[t]
            /\ pins'[t] = pins[t] /\ todo'[t] = todo[t]

\* An entry that is removed or keeps its flags is sound, with its lock held on
\* or taken.
LEMMA KeyKept ==
    ASSUME NEW k \in Keys, KeySound(k), prep'[k] = prep[k] \/ prep'[k] # None, Kept(k)
    PROVE  KeySound(k)'
BY DEF KeySound, Kept, Alike, Gone, Blank

\* A pinned session is not removed, so its flags are those it had.
LEMMA PinnedKept ==
    ASSUME CoreInv', NEW t \in Callers, NEW k \in pins'[t], Kept(k)
    PROVE  k \in Keys /\ Alike(entry'[k], entry[k])
<1>1. k \in Keys
    BY DEF CoreInv, TypeOK
<1>2. t \in Holders(k)'
    BY DEF Holders
<1>3. entry'[k].state = "open"
    BY <1>1, <1>2 DEF CoreInv, PinnedIsOpen
<1> QED BY <1>1, <1>3 DEF Kept, Gone, Blank

\* A call that did not move knows what it knew.
LEMMA CallKept ==
    ASSUME CoreInv, CoreInv', NEW t \in Callers, CallSound(t), Still(t),
           pc[t] \in Owning => prep'[cur[t]] = prep[cur[t]],
           \A k \in pins[t] : Kept(k)
    PROVE  CallSound(t)'
<1>1. \A k \in pins[t] : entry'[k].prepared = entry[k].prepared
                      /\ entry'[k].info = entry[k].info /\ entry'[k].root = entry[k].root
    BY PinnedKept DEF Still, Alike
<1>2. pc[t] \in Owning => cur[t] \in pins[t]
    BY DEF CoreInv, CallsOK
<1>3. CASE pc[t] \in Owning
    BY <1>1, <1>2, <1>3 DEF CallSound, Still
<1>4. CASE pc[t] \notin Owning
    BY <1>1, <1>4 DEF CallSound, Still, Owning
<1> QED BY <1>3, <1>4

\* A step of t that keeps all flags and locks.
LEMMA PrepKept ==
    ASSUME PrepInv, CoreInv', NEW t \in Callers, \A u \in Callers \ {t} : Still(u),
           prep' = prep, \A k \in Keys : Kept(k), CallSound(t)'
    PROVE  PrepInv'
<1>1. \A k \in Keys : KeySound(k)'
    BY KeyKept DEF PrepInv
<1>2. \A u \in Callers : pins[u] \subseteq Keys
    BY DEF PrepInv, CoreInv, TypeOK
<1>3. \A u \in Callers \ {t} : CallSound(u)'
    BY <1>2, CallKept DEF PrepInv
<1> QED BY <1>1, <1>3 DEF PrepInv

\* As PrepKept, for a step of no caller.
LEMMA PrepKeptByNone ==
    ASSUME PrepInv, CoreInv', \A u \in Callers : Still(u), prep' = prep, \A k \in Keys : Kept(k)
    PROVE  PrepInv'
<1>1. \A k \in Keys : KeySound(k)'
    BY KeyKept DEF PrepInv
<1>2. \A u \in Callers : pins[u] \subseteq Keys
    BY DEF PrepInv, CoreInv, TypeOK
<1>3. \A u \in Callers : CallSound(u)'
    BY <1>2, CallKept DEF PrepInv
<1> QED BY <1>1, <1>3 DEF PrepInv

\* Steps that leave the entries, and steps that drop some.
LEMMA SameKept ==
    ASSUME entry' = entry PROVE \A k \in Keys : Kept(k)
BY DEF Kept, Alike

LEMMA DroppedKept ==
    ASSUME NEW D, entry' = Dropped(entry, D) PROVE \A k \in Keys : Kept(k)
BY DEF Kept, Alike, Dropped

\* No session exists at the start.
LEMMA PrepInit == Init => PrepInv
<1> SUFFICES ASSUME Init PROVE PrepInv
    OBVIOUS
<1>1. \A k \in Keys : KeySound(k)
    BY DEF Init, KeySound, Fresh, Blank
<1>2. \A t \in Callers : CallSound(t)
    BY DEF Init, CallSound, Owning, Asking
<1> QED BY <1>1, <1>2, CoreInit DEF PrepInv

\* Calls that have no claim on a preparation, before or after.
LEMMA Uninvolved ==
    ASSUME PrepInv, CoreInv', NEW t \in Callers, \A u \in Callers \ {t} : Still(u),
           prep' = prep, \A k \in Keys : Kept(k), pc'[t] \notin Asking
    PROVE  PrepInv'
<1>1. CallSound(t)'
    BY DEF CallSound, Asking, Owning
<1> QED BY <1>1, PrepKept

\* One lemma for the actions of each kind.  First those of calls that neither
\* prepare nor query before or after.
LEMMA PrepOpens ==
    ASSUME PrepInv, CoreInv', NEW t \in Callers,
           \/ \E m \in 0..hold[t] : OpenWorkerEnds(t, m)
           \/ OpenWorkerFails(t) \/ ClosedDuringOpen(t) \/ UndoOpen(t) \/ EndOpen(t)
    PROVE  PrepInv'
<1>1. \A k \in Keys : Kept(k)
    BY SameKept, DroppedKept DEF OpenWorkerEnds, OpenWorkerFails, ClosedDuringOpen, UndoOpen, EndOpen, store
<1>2. prep' = prep /\ \A u \in Callers \ {t} : Still(u)
    BY DEF OpenWorkerEnds, OpenWorkerFails, ClosedDuringOpen, UndoOpen, EndOpen, Still, PrepInv, CoreInv, TypeOK
<1>3. pc'[t] \notin Asking
    BY DEF OpenWorkerEnds, OpenWorkerFails, ClosedDuringOpen, UndoOpen, EndOpen, Asking, Owning, PrepInv, CoreInv, TypeOK
<1> QED BY <1>1, <1>2, <1>3, Uninvolved

LEMMA PrepEnds ==
    ASSUME PrepInv, CoreInv', NEW t \in Callers,
           \/ TimeoutPrep(t) \/ EndView(t) \/ EndQuery(t)
           \/ \E D \in SUBSET Keys : RefuseView(t, D)
    PROVE  PrepInv'
<1>1. \A k \in Keys : Kept(k)
    BY SameKept, DroppedKept DEF TimeoutPrep, EndView, EndQuery, RefuseView, store
<1>2. prep' = prep /\ \A u \in Callers \ {t} : Still(u)
    BY DEF TimeoutPrep, EndView, EndQuery, RefuseView, Still, PrepInv, CoreInv, TypeOK
<1>3. pc'[t] \notin Asking
    BY DEF TimeoutPrep, EndView, EndQuery, RefuseView, Asking, Owning, PrepInv, CoreInv, TypeOK
<1> QED BY <1>1, <1>2, <1>3, Uninvolved

LEMMA PrepRelease ==
    ASSUME PrepInv, CoreInv', NEW t \in Callers, NEW k \in Keys, Release(t, k)
    PROVE  PrepInv'
<1>1. entry \in [Keys -> EntryType]
    BY DEF PrepInv, CoreInv, TypeOK
<1>2. ASSUME entry' = Dropped(entry, {k}) PROVE \A j \in Keys : Kept(j)
    BY <1>2, DroppedKept
<1>3. ASSUME entry' = [entry EXCEPT ![k].users = @ - 1, ![k].stale = FALSE]
      PROVE  \A j \in Keys : Kept(j)
    BY <1>1, <1>3 DEF Kept, Alike, EntryType
<1>4. \A j \in Keys : Kept(j)
    BY <1>2, <1>3, DroppedKept DEF Release
<1>5. prep' = prep /\ \A u \in Callers \ {t} : Still(u)
    BY DEF Release, Still, PrepInv, CoreInv, TypeOK
<1>6. pc'[t] \notin Asking
    BY DEF Release, Asking, Owning, PrepInv, CoreInv, TypeOK
<1> QED BY <1>4, <1>5, <1>6, Uninvolved

\* A session that was seen prepared is one less to prepare.
LEMMA PrepSkip ==
    ASSUME PrepInv, CoreInv', NEW t \in Callers,
           \/ \E k \in Keys : SkipPrep(t, k) \/ WantPrep(t, k)
           \/ StartQuery(t)
    PROVE  PrepInv'
<1>1. \A k \in Keys : Kept(k)
    BY SameKept DEF SkipPrep, WantPrep, StartQuery, store
<1>2. prep' = prep /\ \A u \in Callers \ {t} : Still(u)
    BY DEF SkipPrep, WantPrep, StartQuery, Still, PrepInv, CoreInv, TypeOK
<1>3. CallSound(t)'
    BY DEF SkipPrep, WantPrep, StartQuery, CallSound, Asking, Owning, PrepInv, CoreInv, TypeOK, store
<1> QED BY <1>1, <1>2, <1>3, PrepKept

\* What a reservation evicts is not pinned.
LEMMA PrepView ==
    ASSUME PrepInv, CoreInv', NEW t \in Callers, NEW D \in SUBSET Keys, ReserveView(t, D)
    PROVE  PrepInv'
<1>1. \A k \in Keys : Kept(k)
    BY DroppedKept DEF ReserveView
<1>2. prep' = prep /\ \A u \in Callers \ {t} : Still(u)
    BY DEF ReserveView, Still, PrepInv, CoreInv, TypeOK
<1>3. \A k \in pins'[t] : entry'[k].prepared = entry[k].prepared
    BY <1>1, PinnedKept DEF Alike, CoreInv, TypeOK
<1>4. CallSound(t)'
    BY <1>3 DEF ReserveView, CallSound, Asking, Owning, PrepInv, CoreInv, TypeOK
<1> QED BY <1>1, <1>2, <1>4, PrepKept

\* The owner of the lock has seen that the session is not prepared, and so
\* there are no files of it.
LEMMA PrepReserve ==
    ASSUME PrepInv, CoreInv', NEW t \in Callers, NEW D \in SUBSET Keys, ReservePrep(t, D)
    PROVE  PrepInv'
<1>1. \A k \in Keys : Kept(k)
    BY DroppedKept DEF ReservePrep
<1>2. prep' = prep /\ \A u \in Callers \ {t} : Still(u)
    BY DEF ReservePrep, Still, PrepInv, CoreInv, TypeOK
<1>3. \A k \in pins'[t] : entry'[k].prepared = entry[k].prepared /\ entry'[k].root = entry[k].root
    BY <1>1, PinnedKept DEF Alike, CoreInv, TypeOK
<1>4. cur[t] \in pins[t] /\ pins'[t] = pins[t] /\ pc'[t] = "prep_worker" /\ cur'[t] = cur[t]
    BY DEF ReservePrep, PrepInv, CoreInv, CallsOK, Owning, TypeOK
<1>5. CallSound(t)'
    BY <1>2, <1>3, <1>4 DEF ReservePrep, CallSound, Asking, Owning, PrepInv
<1> QED BY <1>1, <1>2, <1>5, PrepKept

\* The lock of a session passes between its callers.
LEMMA OthersKept ==
    ASSUME PrepInv, CoreInv', NEW t \in Callers, NEW u \in Callers \ {t}, Still(u),
           pc[u] \in Owning => prep'[cur[u]] = prep[cur[u]],
           \A k \in Keys : Kept(k)
    PROVE  CallSound(u)'
<1>1. pins[u] \subseteq Keys
    BY DEF PrepInv, CoreInv, TypeOK
<1> QED BY <1>1, CallKept DEF PrepInv

\* Whoever gets the lock finds the session prepared or without files.
LEMMA PrepTake ==
    ASSUME PrepInv, CoreInv', NEW t \in Callers, TakePrep(t)
    PROVE  PrepInv'
<1>1. cur[t] \in pins[t] /\ cur[t] \in Keys /\ prep[cur[t]] = None
    BY DEF TakePrep, PrepInv, CoreInv, CallsOK, TypeOK
<1>2. prep' = [prep EXCEPT ![cur[t]] = t] /\ entry' = entry /\ t # None
    BY NoneAssumption DEF TakePrep, store
<1>3. \A k \in Keys : Kept(k)
    BY <1>2, SameKept
<1>4. \A u \in Callers \ {t} : Still(u) /\ (pc[u] \in Owning => prep'[cur[u]] = prep[cur[u]])
    BY <1>1, <1>2, NoneAssumption DEF TakePrep, Still, PrepInv, CallSound, CoreInv, TypeOK
<1>5. \A u \in Callers \ {t} : CallSound(u)'
    BY <1>3, <1>4, OthersKept
<1>6. \A k \in Keys : KeySound(k)'
    BY <1>1, <1>2, <1>3, KeyKept DEF PrepInv, CoreInv, TypeOK
<1>7. CallSound(t)'
    BY <1>1, <1>2 DEF TakePrep, CallSound, KeySound, Asking, Owning, PrepInv, CoreInv, TypeOK
<1> QED BY <1>5, <1>6, <1>7 DEF PrepInv

\* Whoever returns the lock leaves no files but those of a prepared session.
LEMMA PrepReturn ==
    ASSUME PrepInv, CoreInv', NEW t \in Callers, pc[t] \in Owning,
           prep' = [prep EXCEPT ![cur[t]] = None],
           entry[cur[t]].root => entry[cur[t]].prepared,
           \A u \in Callers \ {t} : Still(u),
           \A k \in Keys : Kept(k), CallSound(t)'
    PROVE  PrepInv'
<1>1. cur[t] \in pins[t] /\ cur[t] \in Keys /\ prep[cur[t]] = t
    BY DEF PrepInv, CoreInv, CallsOK, TypeOK, CallSound
<1>2. \A u \in Callers \ {t} : pc[u] \in Owning => prep'[cur[u]] = prep[cur[u]]
    BY <1>1 DEF PrepInv, CallSound, CoreInv, TypeOK
<1>3. \A u \in Callers \ {t} : CallSound(u)'
    BY <1>2, OthersKept
<1>4. \A k \in Keys : k # cur[t] => KeySound(k)'
    BY KeyKept DEF PrepInv, CoreInv, TypeOK
<1>5. \A k \in Keys : k = cur[t] => KeySound(k)'
    BY <1>1 DEF PrepInv, KeySound, Kept, Alike, Gone, Blank
<1> QED BY <1>3, <1>4, <1>5 DEF PrepInv

\* The three ways to give the lock back.
LEMMA PrepFinds ==
    ASSUME PrepInv, CoreInv', NEW t \in Callers, FindPrepared(t)
    PROVE  PrepInv'
<1>1. \A k \in Keys : Kept(k)
    BY SameKept DEF FindPrepared, store
<1>2. \A u \in Callers \ {t} : Still(u)
    BY DEF FindPrepared, Still, PrepInv, CoreInv, TypeOK
<1>3. CallSound(t)'
    BY DEF FindPrepared, CallSound, Asking, Owning, PrepInv, CoreInv, TypeOK, store
<1>4. pc[t] \in Owning /\ prep' = [prep EXCEPT ![cur[t]] = None] /\ entry[cur[t]].prepared
    BY DEF FindPrepared, Owning
<1> QED BY <1>1, <1>2, <1>3, <1>4, PrepReturn

LEMMA PrepRefused ==
    ASSUME PrepInv, CoreInv', NEW t \in Callers, NEW D \in SUBSET Keys, RefusePrep(t, D)
    PROVE  PrepInv'
<1>1. \A k \in Keys : Kept(k)
    BY DroppedKept DEF RefusePrep
<1>2. \A u \in Callers \ {t} : Still(u)
    BY DEF RefusePrep, Still, PrepInv, CoreInv, TypeOK
<1>3. CallSound(t)'
    BY DEF RefusePrep, CallSound, Asking, Owning, PrepInv, CoreInv, TypeOK
<1>4. pc[t] \in Owning /\ prep' = [prep EXCEPT ![cur[t]] = None] /\ pc[t] = "prep_check"
    BY DEF RefusePrep, Owning
<1>5. entry[cur[t]].root => entry[cur[t]].prepared
    BY <1>4 DEF PrepInv, CallSound
<1> QED BY <1>1, <1>2, <1>3, <1>4, <1>5, PrepReturn

LEMMA PrepLeaves ==
    ASSUME PrepInv, CoreInv', NEW t \in Callers, EndPrep(t)
    PROVE  PrepInv'
<1>1. \A k \in Keys : Kept(k)
    BY SameKept DEF EndPrep
<1>2. \A u \in Callers \ {t} : Still(u)
    BY DEF EndPrep, Still, PrepInv, CoreInv, TypeOK
<1>3. CallSound(t)'
    BY DEF EndPrep, CallSound, Asking, Owning, PrepInv, CoreInv, TypeOK
<1>4. pc[t] \in Owning /\ prep' = [prep EXCEPT ![cur[t]] = None]
    BY DEF EndPrep, Owning
<1>5. entry[cur[t]].root => entry[cur[t]].prepared
    BY DEF EndPrep, PrepInv, CallSound
<1> QED BY <1>1, <1>2, <1>3, <1>4, <1>5, PrepReturn

\* The owner of a lock changes the flags of its session, which nobody who has
\* seen it prepared has pinned, for it is not prepared yet.
LEMMA PrepOwned ==
    ASSUME PrepInv, CoreInv', NEW t \in Callers,
           pc[t] \in {"prep_worker", "prep_built", "prep_publish", "prep_undo"},
           prep' = prep, \A u \in Callers \ {t} : Still(u),
           entry \in [Keys -> EntryType], entry' \in [Keys -> EntryType],
           \A k \in Keys : k # cur[t] => entry'[k] = entry[k],
           entry'[cur[t]].state = entry[cur[t]].state,
           entry'[cur[t]].prepared => entry'[cur[t]].info /\ entry'[cur[t]].root,
           pc'[t] \in Owning, cur'[t] = cur[t], pins'[t] = pins[t], todo'[t] = todo[t],
           CallSound(t)'
    PROVE  PrepInv'
<1>1. cur[t] \in pins[t] /\ cur[t] \in Keys /\ prep[cur[t]] = t /\ ~entry[cur[t]].prepared
    BY DEF PrepInv, CoreInv, CallsOK, TypeOK, CallSound, Owning
<1>2. entry[cur[t]].state = "open"
    BY <1>1 DEF PrepInv, CoreInv, PinnedIsOpen, Holders
<1>3. \A u \in Callers \ {t} : CallSound(u)'
  <2> SUFFICES ASSUME NEW u \in Callers \ {t} PROVE CallSound(u)'
      OBVIOUS
  <2>1. CallSound(u) /\ Still(u)
      BY DEF PrepInv
  <2>2. pc[u] \in Owning => cur[u] \in Keys /\ cur[u] # cur[t]
      BY <1>1 DEF PrepInv, CallSound, CoreInv, CallsOK, TypeOK
  <2>3. pc[u] \in Asking => \A k \in pins[u] \ todo[u] : k \in Keys /\ k # cur[t]
      BY <1>1 DEF PrepInv, CallSound, CoreInv, TypeOK
  <2>4. CASE pc[u] \in Owning
      BY <2>1, <2>2, <2>3, <2>4 DEF CallSound, Still, Asking
  <2>5. CASE pc[u] \notin Owning
      BY <2>1, <2>3, <2>5 DEF CallSound, Still, Owning
  <2> QED BY <2>4, <2>5
<1>4. \A k \in Keys : k # cur[t] => KeySound(k)'
    BY DEF PrepInv, KeySound
<1>5. KeySound(cur[t])'
    BY <1>1, <1>2, NoneAssumption DEF KeySound
<1> QED BY <1>3, <1>4, <1>5 DEF PrepInv

\* The owner's steps: files appear, or are removed after a failure, ...
LEMMA PrepWorks ==
    ASSUME PrepInv, CoreInv', NEW t \in Callers,
           \/ \E m \in Nat : PrepWorkerEnds(t, m)
           \/ PrepWorkerFails(t) \/ UndoPrep(t)
    PROVE  PrepInv'
<1>1. cur[t] \in Keys /\ entry \in [Keys -> EntryType] /\ entry' \in [Keys -> EntryType]
    BY DEF PrepWorkerEnds, PrepWorkerFails, UndoPrep, PrepInv, CoreInv, TypeOK, CallsOK, Owning
<1>2. PICK b \in BOOLEAN : entry' = [entry EXCEPT ![cur[t]].root = b]
    BY DEF PrepWorkerEnds, PrepWorkerFails, UndoPrep
<1>3. /\ \A k \in Keys : k # cur[t] => entry'[k] = entry[k]
      /\ entry'[cur[t]].state = entry[cur[t]].state
      /\ entry'[cur[t]].prepared = entry[cur[t]].prepared
      /\ entry'[cur[t]].root = b
    BY <1>1, <1>2 DEF EntryType
<1>4. prep' = prep /\ (\A u \in Callers \ {t} : Still(u))
      /\ cur'[t] = cur[t] /\ pins'[t] = pins[t] /\ todo'[t] = todo[t] /\ pc'[t] \in Owning
    BY DEF PrepWorkerEnds, PrepWorkerFails, UndoPrep, Still, Owning, PrepInv, CoreInv, TypeOK
<1>5. pc[t] \in {"prep_worker", "prep_undo"} /\ ~entry[cur[t]].prepared /\ prep[cur[t]] = t
    BY DEF PrepWorkerEnds, PrepWorkerFails, UndoPrep, PrepInv, CallSound, Owning
<1>6. /\ pc'[t] \in {"prep_built", "prep_undo", "prep_fail"}
      /\ pc'[t] = "prep_built" => entry'[cur[t]].root
      /\ pc'[t] = "prep_fail" => ~entry'[cur[t]].root
    BY <1>1 DEF PrepWorkerEnds, PrepWorkerFails, UndoPrep, EntryType, PrepInv, CoreInv, TypeOK
<1>7. \A k \in pins[t] \ todo[t] : k \in Keys /\ k # cur[t] /\ entry[k].prepared
    BY <1>5 DEF PrepInv, CallSound, Asking, Owning, CoreInv, TypeOK
<1>8. CallSound(t)'
    BY <1>3, <1>4, <1>5, <1>6, <1>7 DEF CallSound
<1> QED BY <1>1, <1>3, <1>4, <1>5, <1>8, PrepOwned

\* ... the description is filled before the flag that others read without a
\* lock, ...
LEMMA PrepInfo ==
    ASSUME PrepInv, CoreInv', NEW t \in Callers, PublishInfo(t)
    PROVE  PrepInv'
<1>1. cur[t] \in Keys /\ entry \in [Keys -> EntryType] /\ entry' \in [Keys -> EntryType]
    BY DEF PublishInfo, PrepInv, CoreInv, TypeOK, CallsOK, Owning
<1>2. entry' = [entry EXCEPT ![cur[t]].info = TRUE, ![cur[t]].size = @ + made[t]]
    BY DEF PublishInfo
<1>3. /\ \A k \in Keys : k # cur[t] => entry'[k] = entry[k]
      /\ entry'[cur[t]].state = entry[cur[t]].state
      /\ entry'[cur[t]].prepared = entry[cur[t]].prepared
      /\ entry'[cur[t]].root = entry[cur[t]].root
      /\ entry'[cur[t]].info
    BY <1>1, <1>2 DEF EntryType
<1>4. prep' = prep /\ (\A u \in Callers \ {t} : Still(u))
      /\ cur'[t] = cur[t] /\ pins'[t] = pins[t] /\ todo'[t] = todo[t] /\ pc'[t] = "prep_publish"
    BY DEF PublishInfo, Still, PrepInv, CoreInv, TypeOK
<1>5. pc[t] = "prep_built" /\ ~entry[cur[t]].prepared /\ entry[cur[t]].root /\ prep[cur[t]] = t
    BY DEF PublishInfo, PrepInv, CallSound, Owning
<1>6. \A k \in pins[t] \ todo[t] : k \in Keys /\ k # cur[t] /\ entry[k].prepared
    BY <1>5 DEF PrepInv, CallSound, Asking, Owning, CoreInv, TypeOK
<1>7. CallSound(t)'
    BY <1>3, <1>4, <1>5, <1>6 DEF CallSound
<1>8. pc'[t] \in Owning
    BY <1>4 DEF Owning
<1> QED BY <1>1, <1>3, <1>4, <1>5, <1>7, <1>8, PrepOwned

\* ... which is set when both are there.
LEMMA PrepReady ==
    ASSUME PrepInv, CoreInv', NEW t \in Callers, PublishReady(t)
    PROVE  PrepInv'
<1>1. cur[t] \in Keys /\ entry \in [Keys -> EntryType] /\ entry' \in [Keys -> EntryType]
    BY DEF PublishReady, PrepInv, CoreInv, TypeOK, CallsOK, Owning
<1>2. entry' = [entry EXCEPT ![cur[t]].prepared = TRUE]
    BY DEF PublishReady
<1>3. /\ \A k \in Keys : k # cur[t] => entry'[k] = entry[k]
      /\ entry'[cur[t]].state = entry[cur[t]].state
      /\ entry'[cur[t]].info = entry[cur[t]].info
      /\ entry'[cur[t]].root = entry[cur[t]].root
      /\ entry'[cur[t]].prepared
    BY <1>1, <1>2 DEF EntryType
<1>4. prep' = prep /\ (\A u \in Callers \ {t} : Still(u))
      /\ cur'[t] = cur[t] /\ pins'[t] = pins[t] /\ todo'[t] = todo[t] /\ pc'[t] = "prep_done"
    BY DEF PublishReady, Still, PrepInv, CoreInv, TypeOK
<1>5. pc[t] = "prep_publish" /\ entry[cur[t]].info /\ entry[cur[t]].root /\ prep[cur[t]] = t
    BY DEF PublishReady, PrepInv, CallSound, Owning
<1>6. \A k \in pins[t] \ todo[t] : k \in Keys /\ entry'[k].prepared
    BY <1>3, <1>5 DEF PrepInv, CallSound, Asking, Owning, CoreInv, TypeOK
<1>7. CallSound(t)'
    BY <1>3, <1>4, <1>5, <1>6 DEF CallSound
<1>8. pc'[t] \in Owning
    BY <1>4 DEF Owning
<1> QED BY <1>1, <1>3, <1>4, <1>5, <1>7, <1>8, PrepOwned

\* A new session has no files below `dex' yet.
LEMMA PrepCommit ==
    ASSUME PrepInv, CoreInv', NEW t \in Callers, CommitOpen(t)
    PROVE  PrepInv'
<1>1. /\ cur[t] \in Keys /\ entry[cur[t]].state = "building"
      /\ entry \in [Keys -> EntryType]
    BY DEF CommitOpen, PrepInv, CoreInv, TypeOK, CallsOK, Building
<1>2. prep' = prep /\ \A u \in Callers \ {t} : Still(u)
    BY DEF CommitOpen, Still, PrepInv, CoreInv, TypeOK
<1>3. /\ \A k \in Keys : k # cur[t] => entry'[k] = entry[k]
      /\ entry'[cur[t]].prepared = ~entry[cur[t]].artifact
      /\ entry'[cur[t]].info = ~entry[cur[t]].artifact
      /\ entry'[cur[t]].artifact = entry[cur[t]].artifact
      /\ entry'[cur[t]].root = entry[cur[t]].root
      /\ entry'[cur[t]].state = "open"
    BY <1>1 DEF CommitOpen, EntryType
<1>4. \A k \in Keys : KeySound(k)'
    BY <1>1, <1>2, <1>3 DEF PrepInv, KeySound
<1>5. \A u \in Callers : \A k \in pins[u] : k \in Keys /\ k # cur[t]
    BY <1>1 DEF PrepInv, CoreInv, PinnedIsOpen, Holders, TypeOK
<1>6. \A u \in Callers \ {t} : CallSound(u)'
  <2> SUFFICES ASSUME NEW u \in Callers \ {t} PROVE CallSound(u)'
      OBVIOUS
  <2>1. \A k \in pins[u] : Kept(k)
      BY <1>3, <1>5 DEF Kept, Alike
  <2> QED BY <1>2, <2>1, CallKept DEF PrepInv
<1>7. CallSound(t)'
    BY DEF CommitOpen, CallSound, Asking, Owning, PrepInv, CoreInv, TypeOK
<1> QED BY <1>4, <1>6, <1>7 DEF PrepInv

\* A query starts with nothing seen prepared.
LEMMA PrepPins ==
    ASSUME PrepInv, CoreInv', NEW t \in Callers, NEW K \in SUBSET Keys,
           BeginQuery(t, K) \/ (\E k \in Keys : BeginArchiveQuery(t, k))
    PROVE  PrepInv'
<1>1. PICK L : Pin(t, L)
    BY DEF BeginQuery, BeginArchiveQuery
<1>2. entry \in [Keys -> EntryType]
    BY DEF PrepInv, CoreInv, TypeOK
<1>3. \A k \in Keys : Kept(k)
    BY <1>1, <1>2 DEF Pin, Kept, Alike, EntryType
<1>4. prep' = prep /\ \A u \in Callers \ {t} : Still(u)
    BY <1>1 DEF BeginQuery, BeginArchiveQuery, Pin, Still, PrepInv, CoreInv, TypeOK
<1>5. CallSound(t)'
    BY DEF BeginQuery, BeginArchiveQuery, Pin, CallSound, Asking, Owning, PrepInv, CoreInv, TypeOK
<1> QED BY <1>3, <1>4, <1>5, PrepKept

\* A new directory belongs to nobody yet.
LEMMA PrepBegins ==
    ASSUME PrepInv, CoreInv', NEW t \in Callers, NEW k \in Keys, NEW n, NEW a \in BOOLEAN, NEW D \in SUBSET Keys,
           BeginOpen(t, k, n, a, D)
    PROVE  PrepInv'
<1>1. /\ entry[k].state = "free" /\ entry \in [Keys -> EntryType]
      /\ entry' = Dropped([entry EXCEPT ![k].state = "building", ![k].artifact = a], D)
    BY DEF BeginOpen, PrepInv, CoreInv, TypeOK
<1>2. prep' = prep /\ \A u \in Callers \ {t} : Still(u)
    BY DEF BeginOpen, Still, PrepInv, CoreInv, TypeOK
<1>3. \A j \in Keys : j # k => Kept(j)
    BY <1>1 DEF Kept, Alike, Dropped
<1>4. entry'[k] = Gone \/ (/\ entry'[k].state = "building" /\ entry'[k].prepared = entry[k].prepared
                          /\ entry'[k].root = entry[k].root)
    BY <1>1 DEF Dropped, EntryType
<1>5. \A j \in Keys : KeySound(j)'
  <2>1. \A j \in Keys : j # k => KeySound(j)'
      BY <1>2, <1>3, KeyKept DEF PrepInv
  <2>2. KeySound(k)'
      BY <1>1, <1>4 DEF PrepInv, KeySound, Gone, Blank
  <2> QED BY <2>1, <2>2
<1>6. \A u \in Callers : \A j \in pins[u] : j \in Keys /\ j # k
    BY <1>1 DEF PrepInv, CoreInv, PinnedIsOpen, Holders, TypeOK
<1>7. \A u \in Callers \ {t} : CallSound(u)'
    BY <1>2, <1>3, <1>6, CallKept DEF PrepInv
<1>8. CallSound(t)'
    BY DEF BeginOpen, CallSound, Asking, Owning, PrepInv, CoreInv, TypeOK
<1> QED BY <1>5, <1>7, <1>8 DEF PrepInv

\* The reference cache is not part of a preparation.
LEMMA PrepCaches ==
    ASSUME PrepInv, CoreInv', NEW t \in Callers, NEW k \in Keys, TakeCache(t, k)
    PROVE  PrepInv'
<1>1. entry \in [Keys -> EntryType]
    BY DEF PrepInv, CoreInv, TypeOK
<1>2. PICK n : entry' = [entry EXCEPT ![k].cache = TRUE, ![k].size = n]
    BY DEF TakeCache
<1>3. \A j \in Keys : Kept(j)
    BY <1>1, <1>2 DEF Kept, Alike, EntryType
<1>4. prep' = prep /\ \A u \in Callers : Still(u)
    BY DEF TakeCache, Still, thread
<1> QED BY <1>3, <1>4, PrepKeptByNone

\* Steps that only drop, mark or age sessions.
LEMMA PrepSweeps ==
    ASSUME PrepInv, CoreInv', NEW t \in Callers,
           \/ \E n : \E D \in SUBSET Keys : RefuseOpen(t, n, D)
           \/ Status(t)
           \/ \E k \in Keys : Close(t, k)
    PROVE  PrepInv'
<1>1. entry \in [Keys -> EntryType]
    BY DEF PrepInv, CoreInv, TypeOK
<1>2. \A k \in Keys : Kept(k)
  <2>1. ASSUME NEW D, entry' = Dropped(entry, D) PROVE \A k \in Keys : Kept(k)
      BY <2>1, DroppedKept
  <2>2. ASSUME NEW D, NEW j \in Keys, entry' = Dropped([entry EXCEPT ![j].closing = TRUE], D)
        PROVE  \A k \in Keys : Kept(k)
      BY <1>1, <2>2 DEF Kept, Alike, Dropped, EntryType
  <2> QED BY <2>1, <2>2 DEF RefuseOpen, Status, Close
<1>3. prep' = prep /\ \A u \in Callers : Still(u)
    BY DEF RefuseOpen, Status, Close, Still, thread
<1> QED BY <1>2, <1>3, PrepKeptByNone

\* The passing of time, the reaper and shutdown.
LEMMA PrepBackground ==
    ASSUME PrepInv, CoreInv', Background \/ UNCHANGED vars
    PROVE  PrepInv'
<1>1. entry \in [Keys -> EntryType]
    BY DEF PrepInv, CoreInv, TypeOK
<1>2. \A k \in Keys : Kept(k)
    BY <1>1, DroppedKept DEF Background, GoStale, ReaperSweeps, ReaperStops, ShutdownBegins,
       ShutdownCloses, Kept, Alike, EntryType, vars, store
<1>3. prep' = prep /\ \A u \in Callers : Still(u)
    BY DEF Background, GoStale, ReaperSweeps, ReaperStops, ShutdownBegins, ShutdownCloses,
       Still, vars, thread
<1> QED BY <1>2, <1>3, PrepKeptByNone

\* Every step keeps PrepInv.
LEMMA PrepStep == PrepInv /\ [Next]_vars => PrepInv'
<1> SUFFICES ASSUME PrepInv, [Next]_vars PROVE PrepInv'
    OBVIOUS
<1>1. CoreInv'
    BY CoreStep DEF PrepInv
<1>2. ASSUME NEW t \in Callers, Advance(t) PROVE PrepInv'
  <2>1. 0..hold[t] \subseteq Nat
      BY DEF PrepInv, CoreInv, TypeOK
  <2> QED
      BY <1>1, <1>2, <2>1, PrepOpens, PrepEnds, PrepRelease, PrepSkip, PrepReserve, PrepTake,
         PrepFinds, PrepRefused, PrepLeaves, PrepWorks, PrepInfo, PrepReady, PrepCommit
      DEF Advance
<1>3. ASSUME NEW t \in Callers, Call(t) PROVE PrepInv'
    BY <1>1, <1>3, PrepBegins, PrepPins, PrepSweeps, PrepCaches, PrepView, PrepEnds DEF Call
<1>4. ASSUME Background \/ UNCHANGED vars PROVE PrepInv'
    BY <1>1, <1>4, PrepBackground
<1> QED BY <1>2, <1>3, <1>4 DEF Next, Stopped

\* PrepInv is inductive.
THEOREM PrepInvariant == Spec => []PrepInv
BY PrepInit, PrepStep, PTL DEF Spec

\* A query runs only on complete files and descriptions, although the flag is
\* read without the lock under which they are made.
THEOREM QueriesArePrepared == Spec => []QueriesSeePreparation
<1>1. PrepInv => QueriesSeePreparation
    BY DEF PrepInv, CallSound, KeySound, Asking, QueriesSeePreparation, CoreInv, CallsOK, TypeOK
<1> QED BY <1>1, PrepInvariant, PTL

\* root.mkdir() never meets the files of another preparation, failed or not.
THEOREM RootsAreFresh == Spec => []FreshRoot
<1>1. PrepInv => FreshRoot
    BY DEF PrepInv, CallSound, FreshRoot
<1> QED BY <1>1, PrepInvariant, PTL

-----------------------------------------------------------------------------
(***************************************************************************)
(* The life of a session, as SessionLease has it.                          *)
(***************************************************************************)

\* A session that is closing is in use: it is removed with its last query.
LeaseInv ==
    /\ CoreInv
    /\ \A k \in Keys : entry[k].closing => entry[k].state = "open" /\ entry[k].users # 0

\* What a step does to one session.
Sits(k) == /\ entry'[k].state = entry[k].state /\ entry'[k].closing = entry[k].closing
           /\ entry'[k].users = entry[k].users /\ Holders(k)' = Holders(k)
Removed(k) == k \in Idle /\ entry'[k] = Gone /\ Holders(k)' = Holders(k)
Builds(k) ==
    /\ <<entry[k].state, entry'[k].state>> \in {<<"free", "building">>, <<"building", "open">>, <<"building", "gone">>}
    /\ ~entry'[k].closing /\ entry'[k].users = 0 /\ Holders(k)' = Holders(k)
Acquired(k) ==
    /\ entry[k].state = "open" /\ ~entry[k].closing /\ ~closed
    /\ entry'[k].state = "open" /\ ~entry'[k].closing /\ entry'[k].users = entry[k].users + 1
    /\ \E t \in Callers \ Holders(k) : Holders(k)' = Holders(k) \cup {t}
Left(k) ==
    /\ entry[k].state = "open"
    /\ \E t \in Holders(k) : Holders(k)' = Holders(k) \ {t}
    /\ IF entry[k].closing /\ entry[k].users = 1
       THEN entry'[k] = Gone
       ELSE /\ entry'[k].state = "open" /\ entry'[k].closing = entry[k].closing
            /\ entry'[k].users = entry[k].users - 1
Doomed(k) ==
    /\ entry[k].state = "open" /\ entry[k].users # 0
    /\ entry'[k].state = "open" /\ entry'[k].closing /\ entry'[k].users = entry[k].users
    /\ Holders(k)' = Holders(k)
Life(k) == Sits(k) \/ Removed(k) \/ Builds(k) \/ Acquired(k) \/ Left(k) \/ Doomed(k)

\* No session is closing at the start.
LEMMA LeaseInit == Init => LeaseInv
BY CoreInit DEF Init, LeaseInv, Fresh, Blank

\* Steps that leave the pins and all that SessionLease sees of an entry.
LEMMA LivesOn ==
    ASSUME UNCHANGED pins,
           \A k \in Keys : /\ entry'[k].state = entry[k].state /\ entry'[k].closing = entry[k].closing
                           /\ entry'[k].users = entry[k].users
    PROVE  \A k \in Keys : Life(k)
BY DEF Life, Sits, Holders

\* Steps that drop idle sessions and do no more to the entries.
LEMMA LivesDropped ==
    ASSUME UNCHANGED pins, NEW D \in SUBSET Idle, entry' = Dropped(entry, D)
    PROVE  \A k \in Keys : Life(k)
BY DEF Life, Sits, Removed, Holders, Dropped

\* One lemma for the actions of each kind.  First those that do not concern
\* SessionLease.
LEMMA QuietLives ==
    ASSUME CoreInv, NEW t \in Callers,
           \/ \E m \in Nat : OpenWorkerEnds(t, m) \/ PrepWorkerEnds(t, m)
           \/ OpenWorkerFails(t) \/ ClosedDuringOpen(t) \/ EndOpen(t)
           \/ \E k \in Keys : SkipPrep(t, k) \/ WantPrep(t, k) \/ TakeCache(t, k)
           \/ TakePrep(t) \/ TimeoutPrep(t) \/ FindPrepared(t)
           \/ PrepWorkerFails(t) \/ PublishInfo(t) \/ PublishReady(t)
           \/ UndoPrep(t) \/ EndPrep(t) \/ StartQuery(t) \/ EndView(t) \/ EndQuery(t)
    PROVE  \A k \in Keys : Life(k)
<1>1. entry \in [Keys -> EntryType]
    BY DEF CoreInv, TypeOK
<1>2. UNCHANGED pins
    BY DEF OpenWorkerEnds, PrepWorkerEnds, OpenWorkerFails, ClosedDuringOpen, EndOpen, SkipPrep,
       WantPrep, TakeCache, TakePrep, TimeoutPrep, FindPrepared, PrepWorkerFails, PublishInfo,
       PublishReady, UndoPrep, EndPrep, StartQuery, EndView, EndQuery, thread
<1>3. ASSUME \/ entry' = entry
             \/ \E j, b : entry' = [entry EXCEPT ![j].root = b]
             \/ \E j, b : entry' = [entry EXCEPT ![j].prepared = b]
             \/ \E j, n : entry' = [entry EXCEPT ![j].info = TRUE, ![j].size = n]
             \/ \E j, n : entry' = [entry EXCEPT ![j].cache = TRUE, ![j].size = n]
      PROVE  \A k \in Keys : /\ entry'[k].state = entry[k].state /\ entry'[k].closing = entry[k].closing
                             /\ entry'[k].users = entry[k].users
  <2>1. CASE \E j, n : entry' = [entry EXCEPT ![j].info = TRUE, ![j].size = n]
      BY <1>1, <2>1 DEF EntryType
  <2>2. CASE \E j, n : entry' = [entry EXCEPT ![j].cache = TRUE, ![j].size = n]
      BY <1>1, <2>2 DEF EntryType
  <2>3. CASE \E j, b : entry' = [entry EXCEPT ![j].root = b]
      BY <1>1, <2>3 DEF EntryType
  <2>4. CASE \E j, b : entry' = [entry EXCEPT ![j].prepared = b]
      BY <1>1, <2>4 DEF EntryType
  <2> QED BY <1>3, <2>1, <2>2, <2>3, <2>4
<1>4. CASE PublishInfo(t)
  <2>1. \E j, n : entry' = [entry EXCEPT ![j].info = TRUE, ![j].size = n]
      BY <1>4 DEF PublishInfo
  <2> QED BY <1>2, <1>3, <2>1, LivesOn
<1>5. CASE \E k \in Keys : TakeCache(t, k)
  <2>1. \E j, n : entry' = [entry EXCEPT ![j].cache = TRUE, ![j].size = n]
      BY <1>5 DEF TakeCache
  <2> QED BY <1>2, <1>3, <2>1, LivesOn
<1>6. CASE PublishReady(t) \/ UndoPrep(t) \/ PrepWorkerFails(t) \/ (\E m \in Nat : PrepWorkerEnds(t, m))
  <2>1. \/ \E j, b : entry' = [entry EXCEPT ![j].root = b]
        \/ \E j, b : entry' = [entry EXCEPT ![j].prepared = b]
      BY <1>6 DEF PublishReady, UndoPrep, PrepWorkerFails, PrepWorkerEnds
  <2> QED BY <1>2, <1>3, <2>1, LivesOn
<1>7. CASE \/ \E m \in Nat : OpenWorkerEnds(t, m)
           \/ OpenWorkerFails(t) \/ ClosedDuringOpen(t) \/ EndOpen(t)
           \/ \E k \in Keys : SkipPrep(t, k) \/ WantPrep(t, k)
           \/ TakePrep(t) \/ TimeoutPrep(t) \/ FindPrepared(t)
           \/ EndPrep(t) \/ StartQuery(t) \/ EndView(t) \/ EndQuery(t)
  <2>1. entry' = entry
      BY <1>7 DEF OpenWorkerEnds, OpenWorkerFails, ClosedDuringOpen, EndOpen, SkipPrep, WantPrep,
         TakePrep, TimeoutPrep, FindPrepared, EndPrep, StartQuery, EndView, EndQuery, store
  <2> QED BY <1>2, <1>3, <2>1, LivesOn
<1> QED BY <1>4, <1>5, <1>6, <1>7

\* Expiry and eviction.
LEMMA DroppingLives ==
    ASSUME NEW t \in Callers,
           \/ \E D \in SUBSET Keys : \/ ReservePrep(t, D) \/ RefusePrep(t, D)
                                     \/ ReserveView(t, D) \/ RefuseView(t, D)
                                     \/ \E n : RefuseOpen(t, n, D)
           \/ Status(t) \/ ReaperSweeps
    PROVE  \A k \in Keys : Life(k)
<1>1. UNCHANGED pins
    BY DEF ReservePrep, RefusePrep, ReserveView, RefuseView, RefuseOpen, Status, ReaperSweeps, thread
<1>2. \E D \in SUBSET Idle : entry' = Dropped(entry, D)
    BY ReserveDropsIdle, ExpirableIdle
    DEF ReservePrep, RefusePrep, ReserveView, RefuseView, RefuseOpen, Status, ReaperSweeps
<1> QED BY <1>1, <1>2, LivesDropped

\* A session is built and opened, or discarded.
LEMMA BuildingLives ==
    ASSUME LeaseInv, NEW t \in Callers,
           \/ \E k \in Keys, a \in BOOLEAN, D \in SUBSET Keys : \E n : BeginOpen(t, k, n, a, D)
           \/ CommitOpen(t) \/ UndoOpen(t)
    PROVE  \A k \in Keys : Life(k)
<1>1. entry \in [Keys -> EntryType]
    BY DEF LeaseInv, CoreInv, TypeOK
<1>2. \A k \in Keys : Holders(k)' = Holders(k)
    BY DEF BeginOpen, CommitOpen, UndoOpen, Holders
<1>3. \A k \in Keys : entry[k].state # "open" => entry[k].users = 0 /\ ~entry[k].closing
    BY FS_EmptySet DEF LeaseInv, CoreInv, PinnedIsOpen
<1>4. ASSUME NEW j \in Keys, NEW n, NEW a \in BOOLEAN, NEW D \in SUBSET Keys, BeginOpen(t, j, n, a, D)
      PROVE  \A k \in Keys : Life(k)
  <2>1. D \subseteq Idle /\ entry[j].state = "free"
        /\ entry' = Dropped([entry EXCEPT ![j].state = "building", ![j].artifact = a], D)
      BY <1>4, ReserveDropsIdle DEF BeginOpen
  <2>2. j \notin D
      BY <2>1 DEF Idle, Open
  <2>3. Builds(j)
      BY <1>1, <1>2, <1>3, <2>1, <2>2 DEF Builds, Dropped, EntryType
  <2>4. \A k \in Keys \ {j} : k \in D => Removed(k)
      BY <1>2, <2>1 DEF Removed, Dropped
  <2>5. \A k \in Keys \ {j} : k \notin D => Sits(k)
      BY <1>1, <1>2, <2>1 DEF Sits, Dropped, EntryType
  <2> QED BY <2>3, <2>4, <2>5 DEF Life
<1>5. ASSUME CommitOpen(t) \/ UndoOpen(t) PROVE \A k \in Keys : Life(k)
  <2>1. cur[t] \in Keys /\ entry[cur[t]].state = "building"
      BY <1>5 DEF CommitOpen, UndoOpen, LeaseInv, CoreInv, CallsOK, Building
  <2>2. \A k \in Keys : k # cur[t] => Sits(k)
      BY <1>1, <1>2, <1>5, <2>1 DEF CommitOpen, UndoOpen, Sits, Dropped, EntryType
  <2>3. entry'[cur[t]].state \in {"open", "gone"} /\ entry'[cur[t]].users = 0 /\ ~entry'[cur[t]].closing
      BY <1>1, <1>3, <1>5, <2>1 DEF CommitOpen, UndoOpen, Dropped, EntryType, Gone, Blank
  <2>4. \A k \in Keys : k = cur[t] => Builds(k)
      BY <1>2, <2>1, <2>3 DEF Builds
  <2> QED BY <2>2, <2>4 DEF Life
<1> QED BY <1>4, <1>5

\* A query pins open sessions that are not closing.
LEMMA PinningLives ==
    ASSUME LeaseInv, NEW t \in Callers, NEW K, Pin(t, K)
    PROVE  \A k \in Keys : Life(k)
<1>1. entry \in [Keys -> EntryType]
    BY DEF LeaseInv, CoreInv, TypeOK
<1>2. /\ pins[t] = {} /\ pins \in [Callers -> SUBSET Keys] /\ pins' = [pins EXCEPT ![t] = K]
      /\ K \subseteq Open \ Expirable /\ (K # {} => ~closed) /\ \A k \in K : ~entry[k].closing
    BY DEF Pin, Pinnable, LeaseInv, CoreInv, CallsOK, TypeOK
<1>3. \A k \in Keys : IF k \in K THEN Holders(k)' = Holders(k) \cup {t} /\ t \notin Holders(k)
                      ELSE Holders(k)' = Holders(k)
    BY <1>2 DEF Holders
<1>4. \A k \in Keys : k \in Expirable => Removed(k)
    BY <1>2, <1>3, ExpirableIdle DEF Pin, Removed
<1>5. \A k \in Keys : k \in K => Acquired(k)
    BY <1>1, <1>2, <1>3 DEF Pin, Acquired, EntryType, Open
<1>6. \A k \in Keys : k \notin K /\ k \notin Expirable => Sits(k)
    BY <1>3 DEF Pin, Sits
<1> QED BY <1>4, <1>5, <1>6 DEF Life

\* A query releases one of them; the last one of a closing session removes it.
LEMMA ReleasingLives ==
    ASSUME LeaseInv, NEW t \in Callers, NEW k \in Keys, Release(t, k)
    PROVE  \A j \in Keys : Life(j)
<1>1. entry \in [Keys -> EntryType] /\ pins \in [Callers -> SUBSET Keys]
    BY DEF LeaseInv, CoreInv, TypeOK
<1>2. /\ t \in Holders(k) /\ Holders(k)' = Holders(k) \ {t}
      /\ \A j \in Keys \ {k} : Holders(j)' = Holders(j)
    BY <1>1 DEF Release, Holders
<1>3. entry[k].state = "open"
    BY <1>2 DEF LeaseInv, CoreInv, PinnedIsOpen
<1>4. CASE entry[k].closing /\ entry[k].users = 1
  <2>1. entry' = Dropped(entry, {k})
      BY <1>4 DEF Release
  <2>2. Left(k)
      BY <1>2, <1>3, <1>4, <2>1 DEF Left, Dropped
  <2>3. \A j \in Keys \ {k} : Sits(j)
      BY <1>2, <2>1 DEF Sits, Dropped
  <2> QED BY <2>2, <2>3 DEF Life
<1>5. CASE ~(entry[k].closing /\ entry[k].users = 1)
  <2>1. entry' = [entry EXCEPT ![k].users = @ - 1, ![k].stale = FALSE]
      BY <1>5 DEF Release
  <2>2. Left(k)
      BY <1>1, <1>2, <1>3, <1>5, <2>1 DEF Left, EntryType
  <2>3. \A j \in Keys \ {k} : Sits(j)
      BY <1>1, <1>2, <2>1 DEF Sits
  <2> QED BY <2>2, <2>3 DEF Life
<1> QED BY <1>4, <1>5

\* close removes an idle session and marks one in use.
LEMMA ClosingLives ==
    ASSUME LeaseInv, NEW t \in Callers, NEW k \in Keys, Close(t, k)
    PROVE  \A j \in Keys : Life(j)
<1>1. entry \in [Keys -> EntryType]
    BY DEF LeaseInv, CoreInv, TypeOK
<1>2. \A j \in Keys : Holders(j)' = Holders(j)
    BY DEF Close, Holders, thread
<1>3. k \in Open /\ k \notin Expirable
    BY DEF Close
<1>4. CASE entry[k].users = 0
  <2>1. entry' = Dropped(entry, Expirable \cup {k}) /\ UNCHANGED pins
      BY <1>4 DEF Close, thread
  <2>2. Expirable \cup {k} \subseteq Idle
      BY <1>3, <1>4, ExpirableIdle DEF Idle
  <2> QED BY <2>1, <2>2, LivesDropped
<1>5. CASE entry[k].users # 0
  <2>1. entry' = Dropped([entry EXCEPT ![k].closing = TRUE], Expirable)
      BY <1>5 DEF Close
  <2>2. Doomed(k)
      BY <1>1, <1>2, <1>3, <1>5, <2>1 DEF Doomed, Dropped, EntryType, Open
  <2>3. \A j \in Keys \ {k} : j \in Expirable => Removed(j)
      BY <1>2, <2>1, ExpirableIdle DEF Removed, Dropped
  <2>4. \A j \in Keys \ {k} : j \notin Expirable => Sits(j)
      BY <1>1, <1>2, <2>1 DEF Sits, Dropped
  <2> QED BY <2>2, <2>3, <2>4 DEF Life
<1> QED BY <1>4, <1>5

\* Shutdown does so with every session.
LEMMA BackgroundLives ==
    ASSUME LeaseInv, (\E k \in Keys : GoStale(k)) \/ ReaperStops \/ ShutdownBegins \/ ShutdownCloses
                     \/ UNCHANGED vars
    PROVE  \A j \in Keys : Life(j)
<1>1. entry \in [Keys -> EntryType] /\ \A j \in Keys : Holders(j)' = Holders(j)
    BY DEF LeaseInv, CoreInv, TypeOK, GoStale, ReaperStops, ShutdownBegins, ShutdownCloses, vars,
       Holders, thread
<1>2. ASSUME ShutdownCloses PROVE \A j \in Keys : Life(j)
  <2>1. \A j \in Keys : j \in Idle => Removed(j)
      BY <1>1, <1>2 DEF ShutdownCloses, Removed
  <2>2. \A j \in Keys : j \in Open /\ j \notin Idle => Doomed(j)
      BY <1>1, <1>2 DEF ShutdownCloses, Doomed, Idle, Open, EntryType
  <2>3. \A j \in Keys : j \notin Open => Sits(j)
      BY <1>1, <1>2, ExpirableIdle DEF ShutdownCloses, Sits
  <2> QED BY <2>1, <2>2, <2>3 DEF Life
<1>3. ASSUME NEW k \in Keys, GoStale(k) PROVE \A j \in Keys : Life(j)
    BY <1>1, <1>3, LivesOn DEF GoStale, thread, EntryType
<1>4. ASSUME ReaperStops \/ ShutdownBegins \/ UNCHANGED vars PROVE \A j \in Keys : Life(j)
    BY <1>4, LivesOn DEF ReaperStops, ShutdownBegins, vars, store, thread
<1> QED BY <1>2, <1>3, <1>4

\* Every step is, for each session, a step of its life.
LEMMA Lives ==
    ASSUME LeaseInv, [Next]_vars
    PROVE  \A k \in Keys : Life(k)
<1>1. CoreInv
    BY DEF LeaseInv
<1>2. ASSUME NEW t \in Callers, Advance(t) PROVE \A k \in Keys : Life(k)
  <2>1. 0..hold[t] \subseteq Nat
      BY <1>1 DEF CoreInv, TypeOK
  <2> QED BY <1>1, <1>2, <2>1, QuietLives, DroppingLives, BuildingLives, ReleasingLives DEF Advance
<1>3. ASSUME NEW t \in Callers, Call(t) PROVE \A k \in Keys : Life(k)
  <2>1. CASE \E k \in Keys, a \in BOOLEAN, D \in SUBSET Keys : \E n : BeginOpen(t, k, n, a, D)
      BY <2>1, BuildingLives
  <2>2. CASE Status(t) \/ \E D \in SUBSET Keys : \/ ReserveView(t, D) \/ RefuseView(t, D)
                                               \/ \E n : RefuseOpen(t, n, D)
      BY <2>2, DroppingLives
  <2>3. CASE \E k \in Keys : TakeCache(t, k)
      BY <1>1, <2>3, QuietLives
  <2>4. CASE \E K : Pin(t, K)
      BY <2>4, PinningLives
  <2>5. CASE \E k \in Keys : Close(t, k)
      BY <2>5, ClosingLives
  <2> QED BY <1>3, <2>1, <2>2, <2>3, <2>4, <2>5 DEF Call, BeginQuery, BeginArchiveQuery
<1>4. ASSUME ReaperSweeps PROVE \A k \in Keys : Life(k)
    BY <1>4, LivesDropped, ExpirableIdle DEF ReaperSweeps, thread
<1>5. ASSUME Background \/ UNCHANGED vars PROVE \A k \in Keys : Life(k)
    BY <1>4, <1>5, BackgroundLives DEF Background
<1> QED BY <1>2, <1>3, <1>5 DEF Next, Stopped

\* Every step keeps LeaseInv.
LEMMA LeaseStep == LeaseInv /\ [Next]_vars => LeaseInv'
<1> SUFFICES ASSUME LeaseInv, [Next]_vars PROVE LeaseInv'
    OBVIOUS
<1>1. CoreInv' /\ entry \in [Keys -> EntryType]
    BY CoreStep DEF LeaseInv, CoreInv, TypeOK
<1>2. \A k \in Keys : Left(k) => entry[k].users # 0
    BY HoldersFinite, FS_EmptySet DEF Left, LeaseInv, CoreInv, PinnedIsOpen
<1>3. \A k \in Keys : entry[k].users \in Nat
    BY <1>1 DEF EntryType
<1>4. \A k \in Keys : entry'[k].closing => entry'[k].state = "open" /\ entry'[k].users # 0
    BY <1>2, <1>3, Lives DEF Life, Sits, Removed, Builds, Acquired, Left, Doomed, LeaseInv, Gone, Blank
<1> QED BY <1>1, <1>4 DEF LeaseInv

\* LeaseInv is inductive.
THEOREM LeaseInvariant == Spec => []LeaseInv
BY LeaseInit, LeaseStep, PTL DEF Spec

\* A session that is closing, or whose store is closed, gains no query.
THEOREM NoQueryIsLate == Spec => NoLateQuery
<1>1. ASSUME LeaseInv, [Next]_vars
      PROVE  \A k \in Keys : (closed \/ entry[k].closing) => entry'[k].users <= entry[k].users
  <2>1. \A k \in Keys : entry[k].users \in Nat
      BY <1>1 DEF LeaseInv, CoreInv, TypeOK, EntryType
  <2>2. \A k \in Keys : entry[k].state # "open" => entry[k].users = 0
      BY <1>1, FS_EmptySet DEF LeaseInv, CoreInv, PinnedIsOpen
  <2> QED
      BY <1>1, <2>1, <2>2, Lives DEF Life, Sits, Removed, Builds, Acquired, Left, Doomed, Gone, Blank
<1>2. LeaseInv /\ [Next]_vars =>
        [\A k \in Keys : (closed \/ entry[k].closing) => entry'[k].users <= entry[k].users]_vars
    BY <1>1
<1> QED BY LeaseInvariant, <1>2, PTL DEF Spec, NoLateQuery

\* A step of the store is a step of SessionLease.
LEMMA LeaseMoves ==
    ASSUME LeaseInv, [Next]_vars
    PROVE  Lease!Next
<1>1. \A k \in Keys : /\ entry[k].users = Cardinality(Holders(k)) /\ IsFiniteSet(Holders(k))
                      /\ Holders(k) \subseteq Callers
                      /\ Holders(k) # {} => entry[k].state = "open"
    BY HoldersFinite DEF LeaseInv, CoreInv, PinnedIsOpen, Holders
<1>2. \A k \in Keys : k \in Idle => Holders(k) = {} /\ ~entry[k].closing /\ entry[k].state = "open"
    BY IdleUnheld DEF LeaseInv, CoreInv, Idle, Open
<1>3. \A k \in Keys : entry[k].users # 0 => Holders(k) # {}
    BY <1>1, FS_EmptySet
<1>4. \A k \in Keys : \A t \in Holders(k) : entry[k].users = 1 <=> Holders(k) = {t}
  <2> SUFFICES ASSUME NEW k \in Keys, NEW t \in Holders(k)
               PROVE  Cardinality(Holders(k)) = 1 <=> Holders(k) = {t}
      BY <1>1
  <2>1. Cardinality(Holders(k)) = 1 <=> \E x : Holders(k) = {x}
      BY <1>1, FS_Singleton
  <2> QED BY <2>1
<1> DEFINE State == [k \in Keys |-> IF entry[k].state = "open" /\ entry[k].closing
                                    THEN "closing" ELSE entry[k].state]
           Held == [k \in Keys |-> Holders(k)]
           Step(k) ==
              \/ <<State[k], State'[k]>> \in {<<"free", "building">>, <<"building", "open">>, <<"building", "gone">>}
                 /\ Held'[k] = Held[k]
              \/ State[k] = "open" /\ State'[k] = "open" /\ \E t \in Callers \ Held[k] : Held'[k] = Held[k] \cup {t}
              \/ State[k] = "open" /\ Held[k] = {} /\ State'[k] = "gone" /\ Held'[k] = {}
              \/ State[k] = "open" /\ Held[k] # {} /\ State'[k] = "closing" /\ Held'[k] = Held[k]
              \/ \E t \in Held[k] :
                    /\ Held'[k] = Held[k] \ {t}
                    /\ State'[k] = IF State[k] = "closing" /\ Held[k] = {t} THEN "gone" ELSE State[k]
              \/ State'[k] = State[k] /\ Held'[k] = Held[k]
<1>5. ASSUME NEW k \in Keys PROVE Step(k)
  <2>1. CASE Sits(k)
      BY <2>1 DEF Sits
  <2>2. CASE Removed(k)
      BY <1>2, <2>2 DEF Removed, Gone, Blank
  <2>3. CASE Builds(k)
      BY <2>3 DEF Builds
  <2>4. CASE Acquired(k)
      BY <2>4 DEF Acquired
  <2>5. CASE Left(k)
      BY <1>4, <2>5 DEF Left, Gone, Blank
  <2>6. CASE Doomed(k)
      BY <1>3, <2>6 DEF Doomed
  <2> QED BY <2>1, <2>2, <2>3, <2>4, <2>5, <2>6, Lives DEF Life
<1> QED BY <1>5 DEF Lease!Next, Lease!Build, Lease!Acquire, Lease!Remove, Lease!Doom, Lease!Leave, Lease!Same

\* The store implements the life of a session that its callers rely on.
THEOREM StoreImplementsLease == Spec => ImplementsLease
<1>1. Init => Lease!Init
    BY DEF Init, Lease!Init, Holders, Fresh, Blank
<1>2. LeaseInv /\ [Next]_vars => [Lease!Next]_Lease!lease
    BY LeaseMoves
<1> QED BY <1>1, <1>2, LeaseInvariant, PTL DEF Spec, ImplementsLease, Lease!Spec
===============================================================================
