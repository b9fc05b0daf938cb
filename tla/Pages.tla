------------------------------- MODULE Pages -------------------------------
(***************************************************************************)
(* How an answer is cut into pages, and what each page says of the next:   *)
(* native_page.py, page_result, reference_page.py, reference_groups.py and *)
(* grouped_references.py, the pages of archives and of CLI lines.  A page  *)
(* is a record of a status, its items, the total and the next offset.      *)
(* Bytes are counted in rows: Room rows fit into one response.             *)
(***************************************************************************)
EXTENDS Code

CONSTANTS
    PageSize,   \* settings.max_page_size
    Room,       \* rows that a response of max_output_bytes holds
    HeapRoom,   \* rows that the sorted page may keep in memory
    SpoolFrom   \* the capacity from which a sorted page is kept on disk

PagesAssumption == {PageSize, Room, HeapRoom, SpoolFrom} \subseteq Nat \ {0}
ASSUME PagesAssumption

Failure(code) == [status |-> code, items |-> <<>>, total |-> 0, next |-> None]

Answer(items, total) == [status |-> "ok", items |-> items, total |-> total, next |-> None]
Listed(rows, offset, limit) == Answer(Window(rows, offset, limit), Len(rows))

-----------------------------------------------------------------------------

\* SortedPage: the rows of one page, in the order of their keys.  The heap holds
\* the rows before the page too, within its budget; a deep page is spooled.
SortedPage(rows, offset, limit, key) ==
    LET cut(kept) == IF Len(kept) > HeapRoom THEN Failure("page_exceeds_budget")
                     ELSE Answer(Window(kept, offset, limit), Len(rows))
    IN  IF offset + limit > SpoolFrom THEN Listed(Sorted(rows, key), offset, limit)
        ELSE cut(Heap(rows, offset + limit, key))

\* page_result: the next page starts a limit later.
PageResult(answer, offset, limit) ==
    LET more == offset + Len(answer.items) < answer.total IN
    IF answer.status # "ok" THEN answer
    ELSE [answer EXCEPT !.next = IF more THEN offset + limit ELSE None]

\* archive_worker.page and LinePage: the next page starts after the last item.
CountedPage(answer, offset) ==
    LET end == offset + Len(answer.items) IN
    IF answer.status # "ok" THEN answer
    ELSE [answer EXCEPT !.next = IF end < answer.total THEN end ELSE None]

\* reference_page: a page that exceeds the response keeps the rows that fit and
\* continues after them.
ReferencePage(answer, offset) ==
    IF answer.status # "ok" \/ Len(answer.items) <= Room THEN answer
    ELSE [answer EXCEPT !.items = SubSeq(@, 1, Room), !.next = offset + Room]

\* runner._run_paged: lines until the response is full.
LinePage(lines, offset, limit) ==
    CountedPage(Listed(lines, offset, Least(limit, Room)), offset)

\* archive_worker._content: a chunk of bytes, and where the next one starts.
ContentPage(bytes, offset, limit) == CountedPage(Listed(bytes, offset, limit), offset)

-----------------------------------------------------------------------------

\* ReferenceGroups.offer: rows of one caller in one file form a group; a row
\* that would start one group too many, or does not fit, ends the page.
SameGroup(a, b) == a.entry = b.entry /\ a.caller = b.caller

Groups(rows) ==
    Cardinality({i \in DOMAIN rows : i = 1 \/ ~SameGroup(rows[i - 1], rows[i])})

Accepts(rows, limit) == Groups(rows) <= limit /\ Len(rows) <= Room

\* The rows of a chunk that a grouped page takes after those it holds.
Collect(held, chunk, limit) ==
    LET taken == {n \in 0..Len(chunk) : Accepts(held \o SubSeq(chunk, 1, n), limit)}
        most == CHOOSE n \in taken : \A m \in taken : m <= n
    IN  held \o SubSeq(chunk, 1, most)
=============================================================================
