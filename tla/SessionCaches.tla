---------------------------- MODULE SessionCaches ----------------------------
(***************************************************************************)
(* The caches of one open session in the server process: serialized pages  *)
(* (memory_cache.PageCache) and complete sets of reference sites on disk   *)
(* (reference_cache.ReferenceCache, filled by a worker through             *)
(* reference_spool.ReferenceSpool), as sessions._query_entry and           *)
(* grouped_references.grouped_reference_page use them.                     *)
(*                                                                         *)
(* Both caches are valid for one signature: the installed engine and the   *)
(* index files of the session.  The signature is taken again and again,    *)
(* never under a lock that the workers respect; index files appear and     *)
(* disappear while queries run.  An index file that is written again has a *)
(* new number (inode and times), an absent one is 0.                       *)
(*                                                                         *)
(* A page or a set is the query it answers and what its worker met.  A     *)
(* critical section of a cache lock is one action.                         *)
(***************************************************************************)
EXTENDS Integers, FiniteSets, SequencesExt, Totals

CONSTANTS
    Callers,    \* threads that serve queries of this session
    Selected,   \* selectors of reference queries
    Pages,      \* PageCache: MAX_ENTRIES
    PageBytes,  \* PageCache: MAX_BYTES
    Budget,     \* bytes reserved for the reference sets
    SetBytes,   \* min(MAX_ENTRY_BYTES, Budget): what a pending set reserves
    Chunks,     \* bound: flat pages that one grouped page is collected from
    MaxEvents,  \* bound: index files written, upgrades and failing removals
    None

ASSUME CacheAssumption ==
    /\ {Pages, Chunks} \subseteq Nat \ {0}
    /\ {PageBytes, Budget, SetBytes, MaxEvents} \subseteq Nat
    /\ SetBytes <= Budget
    /\ {"graph", "build"} \cap Selected = {}

\* get_call_graph and build_xref_index need index_lock.
Queries == Selected \cup {"graph", "build"}
Signature == [engine : 0..MaxEvents, xrefs : 0..MaxEvents, calls : 0..MaxEvents]
\* What a worker answered: from a scan or an index; restored, when it first
\* copied the index from the durable directory; built, when it wrote the index.
Result == [query : Queries, engine : 0..MaxEvents,
           via : {"scan", "index", "restored", "built"}]

ASSUME NoneAssumption ==
    None \notin Callers /\ None \notin Queries /\ None \notin Signature /\ None \notin Result

VARIABLES
    now,    \* the files that signature() looks at
    events, \* how many of the bounded events have happened
    pages,  \* PageCache: identity, pages (oldest first), used
    refs,   \* ReferenceCache: identity, entries (oldest first), used; and
            \* how many pending directories stay on disk without a query
    pend,   \* ReferenceCache.pending: up to SetBytes are on disk for each
    call    \* caller -> its query and how far it is

vars == <<now, events, pages, refs, pend, call>>

Idle == [pc |-> "idle", query |-> None, grouped |-> FALSE, id |-> None, result |-> None,
         at |-> None, hit |-> FALSE, changed |-> FALSE, chunk |-> 0,
         seen |-> {}, start |-> None]

Init ==
    /\ now = [engine |-> 0, xrefs |-> 0, calls |-> 0] /\ events = 0
    /\ pages = [id |-> None, list |-> <<>>, used |-> 0]
    /\ refs = [id |-> None, list |-> <<>>, used |-> 0, junk |-> 0]
    /\ pend = {}
    /\ call = [t \in Callers |-> Idle]

At(t, place) == call[t].pc = place
Goto(t, place) == call' = [call EXCEPT ![t].pc = place]
Query(t) == call[t].query

\* signature(); None when a file vanishes between exists() and stat().
Signatures ==
    {now} \cup IF \E t \in Callers : At(t, "install") THEN {None} ELSE {}

-----------------------------------------------------------------------------

\* Equal selectors share a stripe; everything that builds shares index_lock.
Stripe(q) == IF q \in Selected THEN q ELSE "index"
Inside(t) == call[t].pc \notin {"idle", "lock", "next", "done"}
Free(q) == \A u \in Callers : Inside(u) => Stripe(Query(u)) # Stripe(q)

\* A grouped query starts with the cursor's identity: the signature without
\* the index files.  Its flat pages are queries of their own.
Start(t, q) ==
    /\ At(t, "idle") /\ q \in Selected
    /\ call' = [call EXCEPT ![t] =
            [Idle EXCEPT !.pc = "lock", !.query = q, !.grouped = TRUE, !.start = now.engine]]
    /\ UNCHANGED <<now, events, pages, refs, pend>>

\* A query enters when it has its lock; a build does not look at the pages.
StartBuild(t) ==
    /\ At(t, "idle") /\ Free("build")
    /\ call' = [call EXCEPT ![t] = [Idle EXCEPT !.pc = "run", !.query = "build"]]
    /\ UNCHANGED <<now, events, pages, refs, pend>>

\* The query looks for its sets, a flat page of a grouped one at once.
Looks(t) == At(t, "read") \/ (At(t, "lock") /\ Free(Query(t)))

-----------------------------------------------------------------------------

\* PageCache._get: another identity empties the cache; a hit is moved to the end.
Current(id) == IF id = pages.id THEN pages ELSE [id |-> id, list |-> <<>>, used |-> 0]
Position(list, q) == CHOOSE i \in DOMAIN list : list[i].result.query = q
Has(list, q) == \E i \in DOMAIN list : list[i].result.query = q

PageHit(t, q) ==
    \E id \in Signatures \ {None} :
        LET cache == Current(id)
            i == Position(cache.list, q)
        IN  /\ At(t, "idle") /\ Free(q) /\ q # "build" /\ Has(cache.list, q)
            /\ pages' = [cache EXCEPT !.list = Append(RemoveAt(@, i), @[i])]
            /\ call' = [call EXCEPT ![t] = [Idle EXCEPT !.pc = "done", !.query = q, !.at = id,
                                            !.hit = TRUE, !.result = cache.list[i].result]]
            /\ UNCHANGED <<now, events, refs, pend>>

PageMiss(t, q) ==
    \E id \in Signatures :
        /\ At(t, "idle") /\ Free(q) /\ q # "build" /\ (id = None \/ ~Has(Current(id).list, q))
        /\ pages' = Current(id)
        /\ call' = [call EXCEPT ![t] = [Idle EXCEPT !.query = q, !.id = id,
                                        !.pc = IF q \in Selected THEN "read" ELSE "run"]]
        /\ UNCHANGED <<now, events, refs, pend>>

\* PageCache._put.  Mutant: the signature is not taken again.
KeepAlways(id, r) == id # None /\ r # None /\ r.via # "built"

\* Not for a failed query, a one-shot provenance or a changed signature.
Keep(id, r) == id # None /\ r # None /\ r.via # "built" /\ id \in Signatures

Size(list) == Total([i \in DOMAIN list |-> list[i].size])
From(list, i) == SubSeq(list, i + 1, Len(list))

\* Mutant: a page is popped only once there is one too many.
PoppedLate(list, used, n) ==
    CHOOSE i \in 0..Len(list) :
        LET fits(j) == \/ j = Len(list)
                       \/ /\ used - Size(SubSeq(list, 1, j)) + n <= PageBytes
                          /\ Len(list) - j <= Pages
        IN  fits(i) /\ \A j \in 0..(i - 1) : ~fits(j)

\* How many of the oldest are popped until n more bytes and one more page fit.
Popped(list, used, n) ==
    CHOOSE i \in 0..Len(list) :
        LET fits(j) == \/ j = Len(list)
                       \/ /\ used - Size(SubSeq(list, 1, j)) + n <= PageBytes
                          /\ Len(list) - j < Pages
        IN  fits(i) /\ \A j \in 0..(i - 1) : ~fits(j)

\* Mutant: the bytes of popped pages still count.
StoreLeaks(page) ==
    LET rest == SelectSeq(pages.list, LAMBDA e : e.result.query # page.result.query)
    IN  [pages EXCEPT !.list = Append(From(rest, Popped(rest, pages.used, page.size)), page),
                      !.used = @ + page.size]

\* A page replaces the one of the same query and is the last to be popped.
Store(page) ==
    LET old == {i \in DOMAIN pages.list : pages.list[i].result.query = page.result.query}
        rest == IF old = {} THEN pages.list ELSE RemoveAt(pages.list, CHOOSE i \in old : TRUE)
        used == pages.used - (Size(pages.list) - Size(rest))
        i == Popped(rest, used, page.size)
    IN  [pages EXCEPT !.list = Append(From(rest, i), page),
                      !.used = used - Size(SubSeq(rest, 1, i)) + page.size]

Put(t) ==
    /\ At(t, "put")
    /\ IF Keep(call[t].id, call[t].result)
       THEN \E n \in 1..PageBytes : pages' = Store([result |-> call[t].result, size |-> n])
       ELSE pages' = pages
    /\ call' = [call EXCEPT ![t] = Idle]
    /\ UNCHANGED <<now, events, refs, pend>>

-----------------------------------------------------------------------------

\* The lock of the reference cache is held while a set is read.
Unread == \A t \in Callers : ~At(t, "reading")

Entry(q, id) == {i \in DOMAIN refs.list : refs.list[i].key = <<q, id>>}

\* _drop of every entry, in turn, but those whose directory cannot be removed.
After(left, e, stay) == IF e.key \in stay THEN Append(left, e) ELSE left

Dropped(list, stay) ==
    LET left[n \in 0..Len(list)] ==
            IF n = 0 THEN <<>> ELSE After(left[n - 1], list[n], stay)
    IN  left[Len(list)]

\* ReferenceCache._key: another identity drops all entries.
Keyed(id) ==
    IF id = refs.id THEN {refs}
    ELSE {[refs EXCEPT !.id = id, !.list = Dropped(@, stay),
                       !.used = @ - (Size(refs.list) - Size(Dropped(refs.list, stay)))] :
            stay \in SUBSET {e.key : e \in ToSet(refs.list)}}
Kept(r) == IF r.id = refs.id THEN 0 ELSE Len(r.list)
Fails(n) == events' = events + n /\ events' <= MaxEvents

\* _reference_cache found no room for a cache.
NoSets(t) ==
    /\ Looks(t)
    /\ refs.id = None /\ pend = {}
    /\ Goto(t, "run")
    /\ UNCHANGED <<now, events, pages, refs, pend>>

ReadOpen(t) ==
    /\ Looks(t) /\ Unread
    /\ \E id \in Signatures : \E r \in Keyed(id) :
        /\ refs' = r /\ Fails(Kept(r))
        /\ call' = [call EXCEPT ![t].at = id,
            ![t].pc = IF id # None /\ <<Query(t), id>> \in {e.key : e \in ToSet(r.list)}
                      THEN "reading" ELSE "begin"]
    /\ UNCHANGED <<now, pages, pend>>

Returned(t) == IF call[t].grouped THEN "chunk" ELSE "put"

\* Mutant: the signature is not compared when the set has been read.
ReadUnchecked(t) ==
    /\ At(t, "reading")
    /\ \E i \in Entry(Query(t), call[t].at) :
        /\ refs' = [refs EXCEPT !.list = Append(RemoveAt(@, i), @[i])]
        /\ call' = [call EXCEPT ![t].result = refs.list[i].result, ![t].hit = TRUE,
                                ![t].at = now, ![t].pc = Returned(t)]
    /\ UNCHANGED <<now, events, pages, pend>>

\* _validate_read; the set becomes the last to be evicted.
ReadEnd(t) ==
    /\ At(t, "reading") /\ call[t].at \in Signatures
    /\ \E i \in Entry(Query(t), call[t].at) :
        /\ refs' = [refs EXCEPT !.list = Append(RemoveAt(@, i), @[i])]
        /\ call' = [call EXCEPT ![t].result = refs.list[i].result, ![t].hit = TRUE,
                                ![t].pc = Returned(t)]
    /\ UNCHANGED <<now, events, pages, pend>>

\* The file or the signature has changed, or the set is damaged: it is dropped
\* if that is possible.
ReadFails(t) ==
    /\ At(t, "reading")
    /\ \/ \E i \in Entry(Query(t), call[t].at) : Fails(0) /\
            refs' = [refs EXCEPT !.list = RemoveAt(@, i), !.used = @ - refs.list[i].size]
       \/ Fails(1) /\ refs' = refs
    /\ Goto(t, "begin")
    /\ UNCHANGED <<now, pages, pend>>

Reserved == SetBytes * Cardinality(pend)

\* Mutant: what other queries have reserved does not count.
FullAlone(used) == used + SetBytes > Budget

\* A pending set would not fit.
Full(used) == used + Reserved + SetBytes > Budget

\* Evicting the oldest sets until a pending one fits, or one cannot be removed.
Evictions(r) ==
    {[r EXCEPT !.list = From(@, i), !.used = @ - Size(SubSeq(r.list, 1, i))] : i \in
        {i \in 0..Len(r.list) : \A j \in 0..(i - 1) : Full(r.used - Size(SubSeq(r.list, 1, j)))}}

\* begin: a reservation and its directory, unless the set exists, is being
\* made, or does not fit.
Begin(t) ==
    /\ At(t, "begin") /\ Unread
    /\ \E id \in Signatures : \E k \in Keyed(id) :
        LET key == <<Query(t), id>>
            needed == id # None /\ key \notin {e.key : e \in ToSet(k.list)}
                                /\ key \notin {p.key : p \in pend}
        IN  \/ ~needed /\ refs' = k /\ pend' = pend /\ Fails(Kept(k))
            \/ /\ needed /\ refs' \in Evictions(k)
               /\ Fails(Kept(k) + IF Full(refs'.used) /\ refs'.list # <<>> THEN 1 ELSE 0)
               /\ pend' \in {pend} \cup
                    IF Full(refs'.used) THEN {}
                    ELSE {pend \cup {[key |-> key, owner |-> t, set |-> None]}}
    /\ Goto(t, "run")
    /\ UNCHANGED <<now, pages>>

-----------------------------------------------------------------------------

\* runner.query_dex_session: a worker of the engine installed at this moment.
Run(t) ==
    /\ At(t, "run")
    /\ call' = [call EXCEPT ![t].pc = "work", ![t].at = None,
            ![t].result = [query |-> Query(t), engine |-> now.engine, via |-> "scan"]]
    /\ UNCHANGED <<now, events, pages, refs, pend>>

Ticket(t) == {p \in pend : p.owner = t}

\* The worker answers; it may have spooled a complete set for its ticket.
Answer(t, via, spooled) ==
    LET r == [call[t].result EXCEPT !.via = via]
    IN  /\ call' = [call EXCEPT ![t].pc = "finish", ![t].result = r]
        /\ pend' = (pend \ Ticket(t)) \cup
                {[p EXCEPT !.set = IF spooled THEN r ELSE None] : p \in Ticket(t)}

Write(name) == events < MaxEvents /\ events' = events + 1 /\ now' = [now EXCEPT ![name] = events + 1]

\* A reference query reads the index, restores it, or scans and spools.
AnswerReference(t) ==
    /\ At(t, "work") /\ Query(t) \in Selected
    /\ \/ /\ now.xrefs # 0 /\ Answer(t, "index", FALSE)
          /\ UNCHANGED <<now, events>>
       \/ now.xrefs = 0 /\ Write("xrefs") /\ Answer(t, "restored", FALSE)
       \/ /\ now.xrefs = 0 /\ (\E spooled \in BOOLEAN : Answer(t, "scan", spooled))
          /\ UNCHANGED <<now, events>>
    /\ UNCHANGED <<pages, refs>>

\* A call graph reads an index, makes or restores the calls-only one, or scans.
AnswerGraph(t) ==
    /\ At(t, "work") /\ Query(t) = "graph"
    /\ \/ /\ now.xrefs # 0 \/ now.calls # 0
          /\ Answer(t, "index", FALSE) /\ UNCHANGED <<now, events>>
       \/ /\ now.xrefs = 0 /\ now.calls = 0 /\ Write("calls")
          /\ \E via \in {"restored", "built"} : Answer(t, via, FALSE)
       \/ /\ now.xrefs = 0 /\ now.calls = 0
          /\ Answer(t, "scan", FALSE) /\ UNCHANGED <<now, events>>
    /\ UNCHANGED <<pages, refs>>

\* The complete index: found, restored, or built after calls.sqlite is removed.
AnswerBuild(t) ==
    /\ At(t, "work") /\ Query(t) = "build"
    /\ \/ now.xrefs # 0 /\ Answer(t, "index", FALSE) /\ UNCHANGED <<now, events>>
       \/ now.xrefs = 0 /\ Write("xrefs") /\ Answer(t, "restored", FALSE)
       \/ /\ now.xrefs = 0 /\ now' = [now EXCEPT !.calls = 0]
          /\ Goto(t, "install") /\ UNCHANGED <<events, pend>>
    /\ UNCHANGED <<pages, refs>>

Install(t) ==
    /\ At(t, "install") /\ Write("xrefs") /\ Answer(t, "built", FALSE)
    /\ UNCHANGED <<pages, refs>>

\* The worker fails or is killed, or the call is cancelled.
Fail(t) ==
    /\ call[t].pc \in {"work", "install"}
    /\ call' = [call EXCEPT ![t].pc = "finish", ![t].result = None]
    /\ UNCHANGED <<now, events, pages, refs, pend>>

\* A failed query ends; nothing but a worker's answer is kept or collected.
Returns(t) ==
    call' = [call EXCEPT ![t] = IF @.result = None THEN Idle ELSE [@ EXCEPT !.pc = Returned(t)]]

\* finish: the receipt is there and the signature is that of begin.
Valid(t, p) == call[t].result # None /\ p.set # None /\ p.key[2] \in Signatures

Cleaned(p) == Fails(0) /\ pend' = pend \ {p} /\ refs' = refs
Jammed == Fails(1) /\ refs' = [refs EXCEPT !.junk = @ + 1]

\* Mutant: a directory that cannot be removed is forgotten.
ReleaseAlways(p) == Cleaned(p) \/ (Jammed /\ pend' = pend \ {p})

\* A directory that cannot be removed keeps its reservation.
Release(p) ==
    \/ Cleaned(p)
    \/ Jammed /\ pend' = (pend \ {p}) \cup {[p EXCEPT !.owner = None, !.set = None]}

Finish(t) ==
    /\ At(t, "finish") /\ Unread
    /\ \/ Ticket(t) = {} /\ UNCHANGED <<refs, pend, events>>
       \/ \E p \in Ticket(t), n \in 1..SetBytes : Valid(t, p)
            /\ refs' = [refs EXCEPT !.list = Append(@, [key |-> p.key, size |-> n,
                                                        result |-> p.set]),
                                    !.used = @ + n]
            /\ pend' = pend \ {p} /\ Fails(0)
       \/ \E p \in Ticket(t) : ~Valid(t, p) /\ Release(p)
    /\ Returns(t)
    /\ UNCHANGED <<now, pages>>

-----------------------------------------------------------------------------

Metadata(t) == {r.via : r \in call[t].seen}

\* grouped_reference_page has a flat page: it asks for another one, or it has
\* enough; an answer about other files than the first ends it.
Chunk(t) ==
    /\ At(t, "chunk")
    /\ LET r == call[t].result
           got == [call[t] EXCEPT !.result = None, !.at = None, !.hit = FALSE,
                                  !.chunk = @ + 1, !.seen = @ \cup {r}]
       IN  call' = [call EXCEPT ![t] =
                IF Metadata(t) # {} /\ r.via \notin Metadata(t)
                THEN [got EXCEPT !.pc = "done", !.changed = TRUE]
                ELSE [got EXCEPT !.pc = "next"]]
    /\ UNCHANGED <<now, events, pages, refs, pend>>

More(t) ==
    /\ At(t, "next") /\ call[t].chunk < Chunks
    /\ Goto(t, "lock")
    /\ UNCHANGED <<now, events, pages, refs, pend>>

\* Mutant: the cursor's identity is not compared at the end.
GroupedUnchecked(t) ==
    /\ At(t, "next")
    /\ Goto(t, "done")
    /\ UNCHANGED <<now, events, pages, refs, pend>>

\* Session store: the preparation must still be that of the cursor.
Grouped(t) ==
    /\ At(t, "next")
    /\ LET same == now.engine = call[t].start
       IN  call' = [call EXCEPT ![t].pc = "done", ![t].changed = ~same]
    /\ UNCHANGED <<now, events, pages, refs, pend>>

Return(t) ==
    /\ At(t, "done")
    /\ call' = [call EXCEPT ![t] = Idle]
    /\ UNCHANGED <<now, events, pages, refs, pend>>

\* The package is upgraded in place.
Upgrade ==
    /\ Write("engine")
    /\ UNCHANGED <<pages, refs, pend, call>>

Step(t) ==
    \/ \E q \in Queries : PageHit(t, q) \/ PageMiss(t, q) \/ Start(t, q)
    \/ StartBuild(t) \/ Put(t)
    \/ NoSets(t) \/ ReadOpen(t) \/ ReadEnd(t) \/ ReadFails(t) \/ Begin(t)
    \/ Run(t) \/ AnswerReference(t) \/ AnswerGraph(t) \/ AnswerBuild(t) \/ Install(t) \/ Fail(t)
    \/ Finish(t)
    \/ Chunk(t) \/ More(t) \/ Grouped(t) \/ Return(t)

Next ==
    \/ \E t \in Callers : Step(t)
    \/ Upgrade

Spec == Init /\ [][Next]_vars

-----------------------------------------------------------------------------

Places == {"idle", "lock", "read", "reading", "begin", "run", "work", "install",
           "finish", "put", "chunk", "next", "done"}
MaySign == Signature \cup {None}

\* Every variable has its type, and both counters of bytes are the sums that
\* they stand for.
TypeOK ==
    /\ now \in Signature /\ events \in 0..MaxEvents 
    /\ pages.id \in MaySign /\ refs.id \in MaySign
    /\ \A e \in ToSet(pages.list) : e.result \in Result /\ e.size \in 1..PageBytes
    /\ \A e \in ToSet(refs.list) : e.key \in Queries \X Signature /\ e.size \in 0..SetBytes
    /\ \A p \in pend : /\ p.key \in Selected \X Signature
                       /\ p.owner \in Callers \cup {None} /\ p.set \in Result \cup {None}
    /\ \A t \in Callers : /\ call[t].pc \in Places /\ call[t].query \in Queries \cup {None}
                          /\ {call[t].id, call[t].at} \subseteq MaySign
                          /\ call[t].result \in Result \cup {None}
    /\ pages.used = Size(pages.list) /\ refs.used = Size(refs.list)

Fresh(r, id) ==
    /\ r.engine = id.engine
    /\ r.via = "scan" => id.xrefs = 0
    /\ r.via # "scan" => id.xrefs # 0 \/ id.calls # 0

\* An answer from a cache is one that a worker could have given for the files
\* as they were when the cache was asked: it comes from the engine installed
\* then, and from a scan only if there was no index to use.
HitsCurrent ==
    \A t \in Callers : call[t].hit /\ call[t].pc \in {"put", "chunk", "done"} /\ ~call[t].changed
        => /\ call[t].result.query = Query(t)
           /\ Fresh(call[t].result, call[t].at)

\* What can be on disk for reference sets, complete, pending or impossible to
\* remove, stays within the bytes that the session has reserved for them, and
\* the pages in memory within their bytes and their number, one per query.
CachesBounded ==
    LET pending == {p \in pend : p.owner # None}
    IN  /\ Size(refs.list) + SetBytes * (Cardinality(pending) + refs.junk) <= Budget
        /\ Size(pages.list) <= PageBytes /\ Len(pages.list) <= Pages
        /\ \A i, j \in DOMAIN pages.list :
            i # j => pages.list[i].result.query # pages.list[j].result.query

\* A grouped page that is returned was collected from answers to one query, by
\* one engine, that all came from the same source.
GroupedConsistent ==
    \A t \in Callers : At(t, "done") /\ call[t].grouped /\ ~call[t].changed =>
        /\ \A r \in call[t].seen : r.query = Query(t) /\ r.engine = call[t].start
        /\ Cardinality(Metadata(t)) = 1

\* "Optional index creation" does not end a grouped query.
IndexCreationHarmless ==
    \A t \in Callers : call[t].changed => now.engine # call[t].start
=============================================================================
