------------------------------- MODULE Lists -------------------------------
(***************************************************************************)
(* Lists as the readers and pages of the program use them: comprehensions, *)
(* sorted(s, key=...), the bounded heap of a sorted page, and running sums.*)
(* Every recursion is a function on a prefix of the list, so that theorems *)
(* can be stated of it.                                                    *)
(***************************************************************************)
EXTENDS Integers, FiniteSets, SequencesExt

Least(a, b) == IF a < b THEN a ELSE b

\* What a reader takes from a file is a list of what occurs in it.
IsSequence(s) == s \in Seq(ToSet(s))
NoRepeats(s) == Cardinality(ToSet(s)) = Len(s)

\* s[:n]
First(s, n) == SubSeq(s, 1, Least(n, Len(s)))

\* rows[offset:offset + limit]
Window(rows, offset, limit) == SubSeq(rows, offset + 1, Least(offset + limit, Len(rows)))

\* The concatenation of what each element of a sequence yields.
Each(s, Yield(_)) == FlattenSeq([i \in DOMAIN s |-> Yield(s[i])])

\* The elements of a sequence that are chosen, in their order.
Only(s, chosen) ==
    LET kept[n \in 0..Len(s)] ==
            IF n = 0 THEN <<>>
            ELSE IF s[n] \in chosen THEN Append(kept[n - 1], s[n]) ELSE kept[n - 1]
    IN  kept[Len(s)]

\* Those that pass a test.
Where(s, Test(_)) == Only(s, {x \in ToSet(s) : Test(x)})

\* Keys are pairs of numbers, compared as tuples are.
Precedes(a, b) == a[1] < b[1] \/ (a[1] = b[1] /\ a[2] < b[2])

\* The place that a stable sort gives to an element: before the first that sorts after it.
Place(s, x, key) ==
    LET later == {i \in DOMAIN s : Precedes(key[x], key[s[i]])} IN
    IF later = {} THEN Len(s) + 1 ELSE Min(later)

Inserted(s, x, key) == InsertAt(s, Place(s, x, key), x)

\* sorted(s, key=...), which is stable.
Sorted(s, key) ==
    LET sorted[n \in 0..Len(s)] == IF n = 0 THEN <<>> ELSE Inserted(sorted[n - 1], s[n], key)
    IN  sorted[Len(s)]

SortedBy(s, Number(_)) == Sorted(s, [x \in ToSet(s) |-> <<Number(x), 0>>])

\* The elements of a set in the order of their numbers, no two of which are equal.
Ascending(S, Number(_)) ==
    [i \in 1..Cardinality(S) |-> CHOOSE x \in S : Cardinality({y \in S : Number(y) < Number(x)}) = i - 1]

\* SortedPage.add: what the heap keeps of the rows offered so far; a row that
\* sorts after all of a full heap is dropped.
Offer(kept, row, capacity, key) == First(Inserted(kept, row, key), capacity)

Heap(rows, capacity, key) ==
    LET heap[n \in 0..Len(rows)] ==
            IF n = 0 THEN <<>> ELSE Offer(heap[n - 1], rows[n], capacity, key)
    IN  heap[Len(rows)]

\* The offset at which line n of a text starts, from the lengths of its lines.
LengthOf(lines, n) ==
    LET length[k \in 0..Len(lines)] == IF k = 0 THEN 0 ELSE length[k - 1] + lines[k]
    IN  length[Least(n, Len(lines))]
=============================================================================
