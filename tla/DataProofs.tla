----------------------------- MODULE DataProofs -----------------------------
(***************************************************************************)
(* Lemmas about the data of the models, for every proof to cite.           *)
(* Total: it is a natural number, changes by the difference when one value *)
(* changes, grows with its function, is zero where every value is, is that *)
(* of its function's support, adds up over a partition and does not depend *)
(* on what the elements are called.                                        *)
(* Lists: what a recursion along a list returns, for any list.  What holds *)
(* of the empty list, and of one element more, holds of all of them        *)
(* (AlongSequences), so each recursive function is first shown to go on    *)
(* from the elements before the last (OnlyAppend, FlatAppend, SortedAppend,*)
(* HeapAppend), and then to keep, to order or to cut (OnlySet, FlatSet,    *)
(* SortedOrdered, SortedSame, HeapFirst, OnlyJoined).                      *)
(***************************************************************************)
EXTENDS Totals, Lists, FiniteSetTheorems, SequenceTheorems, TLAPS

\* A column of n cells has n elements.
LEMMA ColumnSize ==
    ASSUME NEW x, NEW n \in Nat
    PROVE  IsFiniteSet(Column(x, n)) /\ Cardinality(Column(x, n)) = n
<1>1. IsFiniteSet({x}) /\ Cardinality({x}) = 1
    BY FS_Singleton
<1>2. IsFiniteSet(1..n) /\ Cardinality(1..n) = n
    BY FS_Interval
<1>3. \A X, Y : IsFiniteSet(X) /\ IsFiniteSet(Y) =>
            /\ IsFiniteSet(X \X Y)
            /\ Cardinality(X \X Y) = Cardinality(X) * Cardinality(Y)
    BY FS_Product, Zenon
<1>4. IsFiniteSet(Column(x, n))
    BY <1>1, <1>2, <1>3, Zenon DEF Column
<1>5. Cardinality(Column(x, n)) = Cardinality({x}) * Cardinality(1..n)
    BY <1>1, <1>2, <1>3, Zenon DEF Column
<1> QED BY <1>1, <1>2, <1>4, <1>5

\* A function on a finite set has finitely many cells.
LEMMA CellsFinite ==
    ASSUME NEW S, IsFiniteSet(S), NEW f \in [S -> Nat]
    PROVE  IsFiniteSet(Cells(f)) /\ Total(f) \in Nat
<1> DEFINE columns == {Column(x, f[x]) : x \in S}
           column == [x \in S |-> Column(x, f[x])]
<1>1. column \in Surjection(S, columns)
    BY DEF Surjection
<1>2. IsFiniteSet(columns)
    BY <1>1, FS_Surjection
<1>3. \A c \in columns : IsFiniteSet(c)
    BY ColumnSize
<1>4. IsFiniteSet(UNION columns)
    BY <1>2, <1>3, FS_UNION
<1>5. Cells(f) = UNION columns
    BY DEF Cells
<1> QED BY <1>4, <1>5, FS_CardinalityType DEF Total

\* Changing one value changes the total by the difference.
LEMMA TotalUpdate ==
    ASSUME NEW S, IsFiniteSet(S), NEW f \in [S -> Nat], NEW x \in S, NEW v \in Nat
    PROVE  Total([f EXCEPT ![x] = v]) = Total(f) - f[x] + v
<1> DEFINE g == [f EXCEPT ![x] = v]
           rest == UNION {Column(y, f[y]) : y \in S \ {x}}
<1>1. Cells(f) = rest \cup Column(x, f[x])
    BY DEF Cells
<1>2. Cells(g) = rest \cup Column(x, v)
  <2>1. DOMAIN g = S /\ g[x] = v /\ \A y \in S \ {x} : g[y] = f[y]
      OBVIOUS
  <2>2. Cells(g) = UNION {Column(y, g[y]) : y \in S}
      BY <2>1 DEF Cells
  <2>3. {Column(y, g[y]) : y \in S} = {Column(y, f[y]) : y \in S \ {x}} \cup {Column(x, v)}
      BY <2>1
  <2> QED BY <2>2, <2>3
<1>3. \A n \in Nat : rest \cap Column(x, n) = {}
    BY DEF Column
<1>4. IsFiniteSet(rest)
  <2>1. IsFiniteSet(Cells(f))
      BY CellsFinite
  <2>2. rest \in SUBSET Cells(f)
      BY <1>1
  <2> QED BY <2>1, <2>2, FS_Subset
<1>5. \A n \in Nat : Cardinality(rest \cup Column(x, n)) = Cardinality(rest) + n
  <2> TAKE n \in Nat
  <2>1. IsFiniteSet(Column(x, n)) /\ Cardinality(Column(x, n)) = n
      BY ColumnSize
  <2>2. Cardinality(rest \cup Column(x, n))
            = Cardinality(rest) + n - Cardinality(rest \cap Column(x, n))
      BY <1>4, <2>1, FS_Union
  <2>3. Cardinality(rest \cap Column(x, n)) = 0
      BY <1>3, FS_EmptySet
  <2>4. Cardinality(rest) \in Nat
      BY <1>4, FS_CardinalityType
  <2> QED BY <2>2, <2>3, <2>4
<1>6. Total(f) = Cardinality(rest) + f[x] /\ Total(g) = Cardinality(rest) + v
    BY <1>1, <1>2, <1>5 DEF Total
<1>7. Cardinality(rest) \in Nat /\ f[x] \in Nat
    BY <1>4, FS_CardinalityType
<1> QED BY <1>6, <1>7

\* A function that is smaller everywhere has a smaller total.
LEMMA TotalMonotone ==
    ASSUME NEW S, IsFiniteSet(S), NEW f \in [S -> Nat], NEW g \in [S -> Nat],
           \A x \in S : g[x] <= f[x]
    PROVE  Total(g) <= Total(f)
<1>1. \A x \in S : Column(x, g[x]) \subseteq Column(x, f[x])
    BY DEF Column
<1>2. Cells(g) \in SUBSET Cells(f)
    BY <1>1 DEF Cells
<1> QED BY <1>2, CellsFinite, FS_Subset DEF Total

\* A function that is zero everywhere has total zero.
LEMMA TotalZero ==
    ASSUME NEW S, NEW f \in [S -> Nat], \A x \in S : f[x] = 0
    PROVE  Total(f) = 0
<1>1. \A x \in S : Column(x, f[x]) = {}
    BY DEF Column
<1>2. Cells(f) = {}
    BY <1>1 DEF Cells
<1> QED BY <1>2, FS_EmptySet DEF Total

\* A total is that of the values where the function is not zero.
LEMMA TotalSupport ==
    ASSUME NEW S, NEW f \in [S -> Nat], NEW T \in SUBSET S, \A x \in S \ T : f[x] = 0
    PROVE  /\ [x \in T |-> f[x]] \in [T -> Nat]
           /\ Total(f) = Total([x \in T |-> f[x]])
<1> DEFINE g == [x \in T |-> f[x]]
<1>1. \A x \in S \ T : Column(x, f[x]) = {}
    BY DEF Column
<1>2. Cells(f) = UNION {Column(x, f[x]) : x \in S}
    BY DEF Cells
<1>3. Cells(g) = UNION {Column(x, f[x]) : x \in T}
    BY DEF Cells
<1>4. Cells(f) = Cells(g)
    BY <1>1, <1>2, <1>3
<1> QED BY <1>4 DEF Total

\* The total grows by what is put where the function was zero.
LEMMA TotalGain ==
    ASSUME NEW S, NEW H \in SUBSET S, IsFiniteSet(H), NEW f \in [S -> Nat],
           \A y \in S \ H : f[y] = 0, NEW x \in S, f[x] = 0, NEW v \in Nat
    PROVE  Total([f EXCEPT ![x] = v]) = Total(f) + v
<1> DEFINE T == H \cup {x}
           g == [f EXCEPT ![x] = v]
           f1 == [y \in T |-> f[y]]
           g1 == [y \in T |-> g[y]]
<1>1. T \in SUBSET S /\ x \in T /\ g \in [S -> Nat]
    OBVIOUS
<1>2. IsFiniteSet(T)
    BY FS_AddElement
<1>3. \A y \in S \ T : f[y] = 0 /\ g[y] = 0
    OBVIOUS
<1>4. g1 = [f1 EXCEPT ![x] = v] /\ f1[x] = 0
    OBVIOUS
<1> HIDE DEF g, T
<1>5. Total(f) = Total(f1) /\ f1 \in [T -> Nat]
    BY <1>1, <1>3, TotalSupport
<1>6. Total(g) = Total(g1)
    BY <1>1, <1>3, TotalSupport
<1> HIDE DEF f1, g1
<1>7. Total([f1 EXCEPT ![x] = v]) = Total(f1) - f1[x] + v
  <2>1. \A F \in [T -> Nat], y \in T, w \in Nat :
            Total([F EXCEPT ![y] = w]) = Total(F) - F[y] + w
      BY <1>2, TotalUpdate
  <2> QED BY <1>1, <1>5, <2>1
<1>8. Total(f1) \in Nat
    BY <1>2, <1>5, CellsFinite
<1> QED BY <1>4, <1>5, <1>6, <1>7, <1>8 DEF g
\* A finite set with a natural number for each element.
Weights(S, f) == IsFiniteSet(S) /\ f \in [S -> Nat]

\* f on S is g on a part A of it and h on the rest B.
Split(S, f, A, g, B, h) ==
    /\ Weights(S, f) /\ Weights(A, g) /\ Weights(B, h)
    /\ S = A \cup B /\ A \cap B = {}
    /\ \A x \in A : g[x] = f[x]
    /\ \A x \in B : h[x] = f[x]

\* f on T is g on S with the elements renamed by h.
Renaming(S, g, T, f, h) ==
    /\ Weights(S, g) /\ Weights(T, f)
    /\ h \in Bijection(S, T)
    /\ \A x \in S : f[h[x]] = g[x]

\* The total over a set is that over a part of it and that over the rest.
LEMMA TotalSplit ==
    ASSUME NEW S, NEW f, NEW A, NEW g, NEW B, NEW h, Split(S, f, A, g, B, h)
    PROVE  Total(f) = Total(g) + Total(h)
<1>1. /\ IsFiniteSet(A) /\ IsFiniteSet(B) /\ S = A \cup B /\ A \cap B = {}
      /\ f \in [S -> Nat] /\ g \in [A -> Nat] /\ h \in [B -> Nat]
      /\ (\A x \in A : g[x] = f[x]) /\ (\A x \in B : h[x] = f[x])
    BY DEF Split, Weights
<1>2. IsFiniteSet(Cells(g)) /\ Total(g) \in Nat /\ IsFiniteSet(Cells(h)) /\ Total(h) \in Nat
    BY <1>1, CellsFinite
<1>3. Cells(f) = Cells(g) \cup Cells(h)
  <2>1. Cells(f) = UNION {Column(x, f[x]) : x \in S}
      BY <1>1 DEF Cells
  <2>2. Cells(g) = UNION {Column(x, f[x]) : x \in A}
      BY <1>1 DEF Cells
  <2>3. Cells(h) = UNION {Column(x, f[x]) : x \in B}
      BY <1>1 DEF Cells
  <2>4. {Column(x, f[x]) : x \in S} = {Column(x, f[x]) : x \in A} \cup {Column(x, f[x]) : x \in B}
      BY <1>1
  <2> QED BY <2>1, <2>2, <2>3, <2>4
<1>4. Cells(g) \cap Cells(h) = {}
    BY <1>1 DEF Cells, Column
<1>5. Cardinality(Cells(f)) = Cardinality(Cells(g)) + Cardinality(Cells(h))
                                - Cardinality(Cells(g) \cap Cells(h))
    BY <1>2, <1>3, FS_Union
<1>6. Cardinality(Cells(g) \cap Cells(h)) = 0
    BY <1>4, FS_EmptySet
<1> QED BY <1>2, <1>5, <1>6 DEF Total

\* A single value is the total.
LEMMA TotalSingle ==
    ASSUME NEW x, NEW n \in Nat
    PROVE  Weights({x}, [y \in {x} |-> n]) /\ Total([y \in {x} |-> n]) = n
<1>1. Cells([y \in {x} |-> n]) = Column(x, n)
    BY DEF Cells
<1> QED BY <1>1, ColumnSize, FS_Singleton DEF Total, Weights

\* The total does not change when the elements of the domain are renamed.
LEMMA TotalRenamed ==
    ASSUME NEW S, NEW g, NEW T, NEW f, NEW h, Renaming(S, g, T, f, h)
    PROVE  Total(f) = Total(g)
<1>0. /\ IsFiniteSet(S) /\ g \in [S -> Nat] /\ f \in [T -> Nat]
      /\ h \in Bijection(S, T) /\ \A x \in S : f[h[x]] = g[x]
    BY DEF Renaming, Weights
<1> DEFINE move == [c \in Cells(g) |-> <<h[c[1]], c[2]>>]
<1>1. /\ h \in [S -> T] /\ \A y \in T : \E x \in S : h[x] = y
      /\ \A x, y \in S : h[x] = h[y] => x = y
    BY <1>0 DEF Bijection, Injection, Surjection, IsInjective
<1>2. \A c : c \in Cells(g) <=> \E x \in S : \E k \in 1..g[x] : c = <<x, k>>
    BY <1>0 DEF Cells, Column
<1>3. \A c : c \in Cells(f) <=> \E y \in T : \E k \in 1..f[y] : c = <<y, k>>
    BY <1>0 DEF Cells, Column
<1>4. move \in [Cells(g) -> Cells(f)]
  <2>1. ASSUME NEW c \in Cells(g)
        PROVE  <<h[c[1]], c[2]>> \in Cells(f)
    <3>1. PICK x \in S : \E k \in 1..g[x] : c = <<x, k>>
        BY <1>2
    <3>2. PICK k \in 1..g[x] : c = <<x, k>>
        BY <3>1
    <3>3. h[x] \in T /\ k \in 1..f[h[x]] /\ c[1] = x /\ c[2] = k
        BY <1>0, <1>1, <3>2
    <3>4. <<h[x], k>> \in Cells(f)
        BY <1>3, <3>3
    <3> QED BY <3>3, <3>4
  <2> QED BY <2>1
<1>5. \A c, d \in Cells(g) : move[c] = move[d] => c = d
  <2>1. ASSUME NEW c \in Cells(g), NEW d \in Cells(g), move[c] = move[d]
        PROVE  c = d
    <3>1. PICK x \in S : \E k \in 1..g[x] : c = <<x, k>>
        BY <1>2
    <3>2. PICK y \in S : \E n \in 1..g[y] : d = <<y, n>>
        BY <1>2
    <3>3. move[c] = <<h[c[1]], c[2]>> /\ move[d] = <<h[d[1]], d[2]>>
        OBVIOUS
    <3>4. c = <<x, c[2]>> /\ d = <<y, d[2]>> /\ c[1] = x /\ d[1] = y
        BY <3>1, <3>2
    <3>5. h[x] = h[y] /\ c[2] = d[2]
        BY <2>1, <3>3, <3>4
    <3>6. x = y
        BY <1>1, <3>5
    <3> QED BY <3>4, <3>5, <3>6
  <2> QED BY <2>1
<1>6. \A d \in Cells(f) : \E c \in Cells(g) : move[c] = d
  <2>1. ASSUME NEW d \in Cells(f)
        PROVE  \E c \in Cells(g) : move[c] = d
    <3>1. PICK y \in T : \E k \in 1..f[y] : d = <<y, k>>
        BY <1>3
    <3>2. PICK k \in 1..f[y] : d = <<y, k>>
        BY <3>1
    <3>3. PICK x \in S : h[x] = y
        BY <1>1
    <3>4. k \in 1..g[x]
        BY <1>0, <3>2, <3>3
    <3>5. <<x, k>> \in Cells(g)
        BY <1>2, <3>4
    <3>6. move[<<x, k>>] = d
        BY <3>2, <3>3, <3>5
    <3> QED BY <3>5, <3>6
  <2> QED BY <2>1
<1> HIDE DEF move
<1>7. move \in Bijection(Cells(g), Cells(f))
    BY <1>4, <1>5, <1>6 DEF Bijection, Injection, Surjection, IsInjective
<1>8. IsFiniteSet(Cells(g))
    BY <1>0, CellsFinite
<1> QED BY <1>7, <1>8, FS_Bijection DEF Total, ExistsBijection

\* Every set of natural numbers that is not empty has a least element: what a
\* proof by induction comes down to.
LEMMA LeastNatural ==
    ASSUME NEW S \in SUBSET Nat, S # {}
    PROVE  \E n \in S : \A m \in S : n <= m
<1>1. IsWellFoundedOn(OpToRel(<, Nat), Nat)
    BY NatLessThanWellFounded
<1>2. PICK n \in S : \A m \in S : <<m, n>> \notin OpToRel(<, Nat)
    BY <1>1, WFMin
<1>3. \A m \in S : ~(m < n)
    BY <1>2 DEF OpToRel
<1> QED BY <1>3

-----------------------------------------------------------------------------
(***************************************************************************)
(* Numbers, recursive functions and sequences.                             *)
(***************************************************************************)

\* What holds of 0 and passes from a number to the next, up to n, holds up to n.
LEMMA UpTo ==
    ASSUME NEW n \in Nat, NEW S, 0 \in S,
           \A k \in 0..(n - 1) : k \in S => k + 1 \in S
    PROVE  0..n \subseteq S
<1> DEFINE Bad == {k \in 0..n : k \notin S}
<1>1. SUFFICES ASSUME Bad # {} PROVE FALSE
    OBVIOUS
<1>2. PICK k \in Bad : \A j \in Bad : k <= j
  <2>1. Bad \in SUBSET Nat
      OBVIOUS
  <2> HIDE DEF Bad
  <2> QED BY <1>1, <2>1, LeastNatural
<1>3. k \in Nat /\ k # 0 /\ k - 1 \in 0..(n - 1) /\ k - 1 \notin Bad /\ k - 1 + 1 = k
    BY <1>2
<1>4. k - 1 \in S
    BY <1>3
<1> QED BY <1>2, <1>3, <1>4

\* A recursion on 0..n, by a step on a set of values, and its function.
Recursive(T, base, n, step) == base \in T /\ n \in Nat /\ step \in [(1..n) \X T -> T]

Computes(f, T, base, n, step) ==
    f \in [0..n -> T] /\ f[0] = base /\ \A k \in 1..n : f[k] = step[<<k, f[k - 1]>>]

\* There is one.
LEMMA Recursion ==
    ASSUME NEW T, NEW base, NEW n, NEW step, Recursive(T, base, n, step)
    PROVE  \E f : Computes(f, T, base, n, step)
<1> DEFINE Steps(m, f) == f[0] = base /\ \A k \in 1..m : f[k] = step[<<k, f[k - 1]>>]
           S == {m \in 0..n : \E f \in [0..m -> T] : Steps(m, f)}
<1>0. base \in T /\ n \in Nat /\ step \in [(1..n) \X T -> T]
    BY DEF Recursive
<1>1. 0 \in S
  <2> DEFINE f == [k \in 0..0 |-> base]
  <2>1. f \in [0..0 -> T] /\ f[0] = base /\ 1..0 = {} /\ 0 \in 0..n
      BY <1>0
  <2>2. 0 \in 0..n /\ Steps(0, f)
    <3> HIDE DEF f
    <3> QED BY <2>1
  <2> HIDE DEF f, Steps
  <2> QED BY <2>1, <2>2
<1>2. \A m \in 0..(n - 1) : m \in S => m + 1 \in S
  <2> TAKE m \in 0..(n - 1)
  <2> HAVE m \in S
  <2>1. PICK f \in [0..m -> T] : Steps(m, f)
      OBVIOUS
  <2> DEFINE g == [k \in 0..(m + 1) |-> IF k <= m THEN f[k] ELSE step[<<m + 1, f[m]>>]]
  <2>2. m \in Nat /\ m + 1 \in 1..n /\ f[m] \in T
      BY <1>0
  <2>3. step[<<m + 1, f[m]>>] \in T
      BY <1>0, <2>2
  <2>4. g \in [0..(m + 1) -> T]
      BY <2>2, <2>3
  <2>5. g[0] = base
      BY <2>1, <2>2
  <2>6. \A k \in 1..(m + 1) : g[k] = step[<<k, g[k - 1]>>]
    <3> TAKE k \in 1..(m + 1)
    <3>1. g[k - 1] = f[k - 1]
        BY <2>2
    <3>2. CASE k <= m
        BY <2>1, <2>2, <3>1, <3>2
    <3>3. CASE ~(k <= m)
      <4>1. k = m + 1 /\ k - 1 = m /\ g[k] = step[<<m + 1, f[m]>>]
          BY <2>2, <3>3
      <4> HIDE DEF g
      <4> QED BY <3>1, <4>1
    <3> QED BY <3>2, <3>3
  <2> HIDE DEF g
  <2>7. m + 1 \in 0..n
      BY <1>0, <2>2
  <2> QED BY <2>4, <2>5, <2>6, <2>7
<1>3. n \in S
  <2> HIDE DEF S
  <2>1. 0..n \subseteq S
      BY <1>0, <1>1, <1>2, UpTo
  <2>2. n \in 0..n
      BY <1>0
  <2> QED BY <2>1, <2>2
<1> QED BY <1>3 DEF Computes

-----------------------------------------------------------------------------
(***************************************************************************)
(* Lists without repeats, and what Only and First keep of one.             *)
(***************************************************************************)

Once(s) == \A i, j \in 1..Len(s) : s[i] = s[j] => i = j

\* No element comes twice exactly if there are as many as there are places.
LEMMA OnceCounted ==
    ASSUME NEW E, NEW s \in Seq(E)
    PROVE  /\ IsFiniteSet(ToSet(s))
           /\ NoRepeats(s) <=> Once(s)
           /\ Once(s) => Cardinality(ToSet(s)) = Len(s)
<1>1. Len(s) \in Nat /\ DOMAIN s = 1..Len(s) /\ s \in [1..Len(s) -> E]
    BY LenProperties
<1>2. s \in Surjection(1..Len(s), ToSet(s))
    BY <1>1 DEF Surjection, ToSet
<1>3. IsFiniteSet(1..Len(s)) /\ Cardinality(1..Len(s)) = Len(s)
    BY <1>1, FS_Interval
<1>4. /\ IsFiniteSet(ToSet(s))
      /\ Cardinality(ToSet(s)) = Cardinality(1..Len(s)) <=> s \in Injection(1..Len(s), ToSet(s))
    BY <1>2, <1>3, FS_Surjection
<1>5. s \in Injection(1..Len(s), ToSet(s)) <=> Once(s)
    BY <1>1, <1>2 DEF Injection, Surjection, IsInjective, Once
<1> QED BY <1>3, <1>4, <1>5 DEF NoRepeats

\* Elements of a sequence.
LEMMA Elements ==
    ASSUME NEW E, NEW s \in Seq(E)
    PROVE  /\ Len(s) \in Nat /\ DOMAIN s = 1..Len(s)
           /\ ToSet(s) = {s[i] : i \in 1..Len(s)} /\ ToSet(s) \subseteq E
           /\ \A i \in 1..Len(s) : s[i] \in ToSet(s) /\ s[i] \in E
           /\ s \in Seq(ToSet(s))
<1>1. Len(s) \in Nat /\ DOMAIN s = 1..Len(s) /\ s \in [1..Len(s) -> E]
    BY LenProperties
<1>2. s \in [1..Len(s) -> ToSet(s)]
    BY <1>1 DEF ToSet
<1>3. s \in Seq(ToSet(s))
    BY <1>1, <1>2, SeqDef
<1> QED BY <1>1, <1>3 DEF ToSet

\* One element more.
LEMMA Appended ==
    ASSUME NEW E, NEW s \in Seq(E), NEW e \in E
    PROVE  /\ Append(s, e) \in Seq(E) /\ Len(Append(s, e)) = Len(s) + 1
           /\ \A i \in 1..Len(s) : Append(s, e)[i] = s[i]
           /\ Append(s, e)[Len(s) + 1] = e
           /\ ToSet(Append(s, e)) = ToSet(s) \cup {e}
           /\ Once(s) /\ e \notin ToSet(s) => Once(Append(s, e))
<1>1. /\ Append(s, e) \in Seq(E) /\ Len(Append(s, e)) = Len(s) + 1
      /\ \A i \in 1..Len(s) : Append(s, e)[i] = s[i]
      /\ Append(s, e)[Len(s) + 1] = e
    BY AppendProperties
<1> DEFINE t == Append(s, e)
<1> HIDE DEF t
<1>2. /\ Len(s) \in Nat /\ ToSet(s) = {s[i] : i \in 1..Len(s)} /\ ToSet(t) = {t[i] : i \in 1..Len(t)}
      /\ Len(t) = Len(s) + 1 /\ t[Len(s) + 1] = e /\ \A i \in 1..Len(s) : t[i] = s[i]
    BY <1>1, Elements DEF t
<1>3. ToSet(t) = ToSet(s) \cup {e}
  <2>1. \A x \in ToSet(t) : x \in ToSet(s) \cup {e}
    <3> TAKE x \in ToSet(t)
    <3>1. PICK i \in 1..Len(t) : x = t[i]
        BY <1>2
    <3>2. i \in 1..Len(s) \/ i = Len(s) + 1
        BY <1>2
    <3> QED BY <1>2, <3>1, <3>2
  <2>2. \A x \in ToSet(s) : x \in ToSet(t)
    <3> TAKE x \in ToSet(s)
    <3>1. PICK i \in 1..Len(s) : x = s[i]
        BY <1>2
    <3>2. i \in 1..Len(t) /\ t[i] = x
        BY <1>2, <3>1
    <3> QED BY <1>2, <3>2
  <2>3. e \in ToSet(t)
      BY <1>2
  <2> QED BY <2>1, <2>2, <2>3
<1>4. ASSUME Once(s), e \notin ToSet(s) PROVE Once(t)
  <2>1. SUFFICES ASSUME NEW i \in 1..Len(t), NEW j \in 1..Len(t), t[i] = t[j] PROVE i = j
      BY DEF Once
  <2>2. CASE i = Len(s) + 1 /\ j = Len(s) + 1
      BY <2>2
  <2>3. CASE i \in 1..Len(s) /\ j \in 1..Len(s)
      BY <1>2, <1>4, <2>1, <2>3 DEF Once
  <2>4. CASE i \in 1..Len(s) /\ j = Len(s) + 1
      BY <1>2, <1>4, <2>1, <2>4
  <2>5. CASE j \in 1..Len(s) /\ i = Len(s) + 1
      BY <1>2, <1>4, <2>1, <2>5
  <2> QED BY <1>2, <2>2, <2>3, <2>4, <2>5
<1> QED BY <1>1, <1>3, <1>4 DEF t

\* Only keeps the chosen elements, and keeps them apart.
LEMMA OnlyKeeps ==
    ASSUME NEW E, NEW s \in Seq(E), NEW chosen, Once(s)
    PROVE  /\ Only(s, chosen) \in Seq(E) /\ Once(Only(s, chosen))
           /\ ToSet(Only(s, chosen)) = ToSet(s) \cap chosen
<1> DEFINE n == Len(s)
           Put(k, kept) == IF s[k] \in chosen THEN Append(kept, s[k]) ELSE kept
           step == [p \in (1..n) \X Seq(E) |-> Put(p[1], p[2])]
<1>1. /\ n \in Nat /\ ToSet(s) = {s[i] : i \in 1..n}
      /\ \A i \in 1..n : s[i] \in E
    BY Elements
<1> HIDE DEF n
<1>2. step \in [(1..n) \X Seq(E) -> Seq(E)]
  <2>1. \A p \in (1..n) \X Seq(E) : Put(p[1], p[2]) \in Seq(E)
      BY <1>1, Appended
  <2> HIDE DEF Put
  <2> QED BY <2>1
<1>3. PICK f \in [0..n -> Seq(E)] : f[0] = <<>> /\ \A k \in 1..n : f[k] = step[<<k, f[k - 1]>>]
  <2> DEFINE T == Seq(E)
             base == <<>>
  <2>1. Recursive(T, base, n, step)
    <3> HIDE DEF step
    <3> QED BY <1>1, <1>2 DEF Recursive
  <2> HIDE DEF step, T, base
  <2>2. \E f : Computes(f, T, base, n, step)
      BY <2>1, Recursion
  <2> QED BY <2>2 DEF T, base, Computes
<1>4. \A k \in 1..n : f[k - 1] \in Seq(E) /\ f[k] = Put(k, f[k - 1])
  <2> TAKE k \in 1..n
  <2>1. k - 1 \in 0..n
      BY <1>1
  <2>2. f[k - 1] \in Seq(E)
      BY <1>3, <2>1
  <2>3. <<k, f[k - 1]>> \in (1..n) \X Seq(E)
      BY <2>2
  <2>4. step[<<k, f[k - 1]>>] = Put(k, f[k - 1])
    <3> HIDE DEF Put
    <3> QED BY <2>3
  <2> HIDE DEF Put, step
  <2> QED BY <1>3, <2>2, <2>4
<1> DEFINE Kept(g) == g = [k \in 0..n |-> IF k = 0 THEN <<>>
                                ELSE IF s[k] \in chosen THEN Append(g[k - 1], s[k]) ELSE g[k - 1]]
<1>5. Kept(f)
  <2>1. \A k \in 0..n : f[k] = IF k = 0 THEN <<>>
                                ELSE IF s[k] \in chosen THEN Append(f[k - 1], s[k]) ELSE f[k - 1]
    <3> TAKE k \in 0..n
    <3>1. CASE k = 0
        BY <1>3, <3>1
    <3>2. CASE k # 0
      <4>1. k \in 1..n
          BY <1>1, <3>2
      <4> QED BY <1>4, <3>2, <4>1
    <3> QED BY <3>1, <3>2
  <2>2. f = [k \in 0..n |-> f[k]]
      BY <1>3
  <2> QED BY <2>1, <2>2
<1> DEFINE kept == CHOOSE g : Kept(g)
<1>6. Kept(kept)
  <2> HIDE DEF Kept
  <2> QED BY <1>5
<1>7. Only(s, chosen) = kept[n]
    BY DEF Only, n
<1> HIDE DEF kept
<1> DEFINE Upto(k) == {s[i] : i \in 1..k}
           Good(k) == kept[k] \in Seq(E) /\ Once(kept[k]) /\ ToSet(kept[k]) = Upto(k) \cap chosen
           G == {k \in 0..n : Good(k)}
<1>8. kept[0] = <<>> /\ \A k \in 1..n : kept[k] = Put(k, kept[k - 1])
  <2>1. \A k \in 0..n : kept[k] = IF k = 0 THEN <<>>
                ELSE IF s[k] \in chosen THEN Append(kept[k - 1], s[k]) ELSE kept[k - 1]
      BY <1>6
  <2>2. 0 \in 0..n /\ \A k \in 1..n : k \in 0..n /\ k # 0
      BY <1>1
  <2> QED BY <2>1, <2>2
<1>9. 0 \in G
  <2>1. <<>> \in Seq(E) /\ Once(<<>>) /\ ToSet(<<>>) = {} /\ Upto(0) = {}
      BY DEF Once, ToSet
  <2>2. Good(0)
    <3> HIDE DEF Upto
    <3> QED BY <1>8, <2>1
  <2> HIDE DEF Good
  <2> QED BY <1>1, <2>2
<1>10. \A k \in 0..(n - 1) : k \in G => k + 1 \in G
  <2> TAKE k \in 0..(n - 1)
  <2> HAVE k \in G
  <2>1. Good(k) /\ k \in Nat /\ k + 1 \in 1..n /\ k + 1 - 1 = k /\ s[k + 1] \in E
      BY <1>1
  <2>2. kept[k + 1] = Put(k + 1, kept[k])
      BY <1>8, <2>1
  <2>3. Upto(k + 1) = Upto(k) \cup {s[k + 1]}
    <3>1. 1..(k + 1) = (1..k) \cup {k + 1}
        BY <2>1
    <3> QED BY <3>1
  <2>4. s[k + 1] \notin Upto(k)
      BY <1>1, <2>1 DEF Once, n
  <2> DEFINE was == kept[k]
             e == s[k + 1]
             before == Upto(k)
  <2>5. was \in Seq(E) /\ Once(was) /\ ToSet(was) = before \cap chosen /\ e \in E /\ e \notin before
      BY <2>1, <2>4
  <2>6. kept[k + 1] = IF e \in chosen THEN Append(was, e) ELSE was
      BY <2>2
  <2>7. Upto(k + 1) = before \cup {e}
      BY <2>3
  <2> HIDE DEF was, e, before
  <2>8. Append(was, e) \in Seq(E) /\ ToSet(Append(was, e)) = ToSet(was) \cup {e} /\ Once(Append(was, e))
      BY <2>5, Appended
  <2>9. kept[k + 1] \in Seq(E) /\ Once(kept[k + 1]) /\ ToSet(kept[k + 1]) = (before \cup {e}) \cap chosen
      BY <2>5, <2>6, <2>8
  <2> HIDE DEF Upto
  <2>10. Good(k + 1)
      BY <2>7, <2>9
  <2> HIDE DEF Good
  <2> QED BY <2>1, <2>10
<1>11. Good(n)
  <2> HIDE DEF Good
  <2>1. 0..n \subseteq G
    <3> HIDE DEF G
    <3> QED BY <1>1, <1>9, <1>10, UpTo
  <2>2. n \in 0..n
      BY <1>1
  <2> QED BY <2>1, <2>2
<1> QED BY <1>1, <1>7, <1>11

\* The first elements of a sequence.
LEMMA FirstKeeps ==
    ASSUME NEW E, NEW s \in Seq(E), NEW n \in Nat
    PROVE  /\ First(s, n) \in Seq(E) /\ Len(First(s, n)) \in Nat
           /\ Len(First(s, n)) <= n /\ Len(First(s, n)) <= Len(s)
           /\ ToSet(First(s, n)) \subseteq ToSet(s)
           /\ Once(s) => Once(First(s, n))
           /\ Len(First(s, n)) < n => First(s, n) = s
<1> DEFINE m == Least(n, Len(s))
           t == First(s, n)
<1>1. Len(s) \in Nat /\ \A i \in 1..Len(s) : s[i] \in E
    BY Elements
<1>2. m \in Nat /\ m <= n /\ m <= Len(s) /\ (m < n => m = Len(s))
    BY <1>1 DEF Least
<1> HIDE DEF m
<1>3. t \in Seq(E) /\ Len(t) = m /\ \A i \in 1..m : t[i] = s[i]
  <2>1. t = SubSeq(s, 1, m)
      BY DEF First, m
  <2>2. /\ SubSeq(s, 1, m) \in Seq(E) /\ Len(SubSeq(s, 1, m)) = m
        /\ \A i \in 1..m : SubSeq(s, 1, m)[i] = s[i]
      BY <1>1, <1>2, SubSeqProperties
  <2> QED BY <2>1, <2>2
<1>4. m = Len(s) => t = s
  <2>1. t = SubSeq(s, 1, m)
      BY DEF First, m
  <2> QED BY <2>1, SubSeqFull
<1> HIDE DEF t
<1>5. ToSet(t) = {t[i] : i \in 1..m} /\ ToSet(s) = {s[i] : i \in 1..Len(s)}
    BY <1>3, Elements
<1>6. ToSet(t) \subseteq ToSet(s)
    BY <1>1, <1>2, <1>3, <1>5
<1>7. Once(s) => Once(t)
    BY <1>1, <1>2, <1>3 DEF Once
<1> QED BY <1>2, <1>3, <1>4, <1>6, <1>7 DEF t

-----------------------------------------------------------------------------
(***************************************************************************)
(* The sites without a target complete the answer.                         *)
(***************************************************************************)

\* The concatenation of sequences is a sequence.
LEMMA Flattened ==
    ASSUME NEW E, NEW seqs \in Seq(Seq(E))
    PROVE  FlattenSeq(seqs) \in Seq(E)
<1>1. Len(seqs) \in Nat /\ \A i \in 1..Len(seqs) : seqs[i] \in Seq(E)
    BY Elements
<1>2. CASE Len(seqs) = 0
  <2>1. FlattenSeq(seqs) = seqs
      BY <1>2 DEF FlattenSeq
  <2>2. seqs = <<>>
      BY <1>2, EmptySeq
  <2> QED BY <2>1, <2>2
<1>3. CASE Len(seqs) # 0
  <2> DEFINE n == Len(seqs) - 1
             T == Seq(E)
             base == seqs[1]
             step == [p \in (1..n) \X T |-> p[2] \o seqs[p[1] + 1]]
  <2>1. n \in Nat /\ 1 \in 1..Len(seqs) /\ base \in T /\ \A k \in 1..n : k + 1 \in 1..Len(seqs)
      BY <1>1, <1>3
  <2>2. step \in [(1..n) \X T -> T]
    <3>1. \A p \in (1..n) \X T : p[2] \o seqs[p[1] + 1] \in T
        BY <1>1, <2>1, ConcatProperties
    <3> HIDE DEF T, n
    <3> QED BY <3>1
  <2>3. PICK f : Computes(f, T, base, n, step)
    <3> HIDE DEF T, n, base, step
    <3>1. Recursive(T, base, n, step)
        BY <2>1, <2>2 DEF Recursive
    <3> QED BY <3>1, Recursion
  <2>4. /\ f \in [0..n -> T] /\ f[0] = base
        /\ \A k \in 1..n : f[k - 1] \in T /\ f[k] = f[k - 1] \o seqs[k + 1]
    <3>1. f \in [0..n -> T] /\ f[0] = base /\ \A k \in 1..n : f[k] = step[<<k, f[k - 1]>>]
      <4> HIDE DEF T, n, base, step
      <4> QED BY <2>3 DEF Computes
    <3>2. ASSUME NEW k \in 1..n PROVE f[k - 1] \in T /\ f[k] = f[k - 1] \o seqs[k + 1]
      <4>1. k - 1 \in 0..n
          BY <2>1
      <4>2. f[k - 1] \in T
        <5> HIDE DEF T, n
        <5> QED BY <3>1, <4>1
      <4>3. <<k, f[k - 1]>> \in (1..n) \X T
        <5> HIDE DEF T, n
        <5> QED BY <4>2
      <4> HIDE DEF T, n
      <4> QED BY <3>1, <4>2, <4>3
    <3> HIDE DEF T, n, base, step
    <3> QED BY <3>1, <3>2
  <2> HIDE DEF step
  <2> DEFINE N == Len(seqs)
             Flat(h) == h = [i \in 1..N |-> IF i = 1 THEN seqs[i] ELSE h[i - 1] \o seqs[i]]
             g == [i \in 1..N |-> f[i - 1]]
  <2>5. Flat(g)
    <3>1. \A i \in 1..N : g[i] = IF i = 1 THEN seqs[i] ELSE g[i - 1] \o seqs[i]
      <4> TAKE i \in 1..N
      <4>1. g[i] = f[i - 1]
          OBVIOUS
      <4>2. CASE i = 1
          BY <2>4, <4>1, <4>2
      <4>3. CASE i # 1
        <5>1. i - 1 \in 1..n /\ i - 1 \in 1..N /\ (i - 1) + 1 = i
            BY <1>1, <4>3
        <5>2. g[i - 1] = f[(i - 1) - 1]
            BY <5>1
        <5>3. f[i - 1] = f[(i - 1) - 1] \o seqs[(i - 1) + 1]
            BY <2>4, <5>1
        <5> HIDE DEF g
        <5> QED BY <4>1, <4>3, <5>1, <5>2, <5>3
      <4> QED BY <4>2, <4>3
    <3>2. g = [i \in 1..N |-> g[i]]
        OBVIOUS
    <3> HIDE DEF g
    <3> QED BY <3>1, <3>2
  <2> DEFINE flatten == CHOOSE h : Flat(h)
  <2>6. Flat(flatten)
    <3> HIDE DEF Flat, g
    <3> QED BY <2>5
  <2>7. FlattenSeq(seqs) = flatten[N]
      BY <1>3 DEF FlattenSeq
  <2> HIDE DEF flatten
  <2>8. \A i \in 1..N : flatten[i] = IF i = 1 THEN seqs[i] ELSE flatten[i - 1] \o seqs[i]
      BY <2>6
  <2> DEFINE S == {k \in 0..n : flatten[k + 1] \in Seq(E)}
  <2>9. 0 \in S
      BY <2>1, <2>8
  <2>10. \A k \in 0..(n - 1) : k \in S => k + 1 \in S
    <3> TAKE k \in 0..(n - 1)
    <3> HAVE k \in S
    <3>1. (k + 1) + 1 \in 1..N /\ (k + 1) + 1 # 1 /\ (k + 1) + 1 - 1 = k + 1 /\ k + 1 \in 0..n
        BY <2>1
    <3>2. flatten[(k + 1) + 1] = flatten[k + 1] \o seqs[(k + 1) + 1]
      <4>1. PICK j : j = (k + 1) + 1
          OBVIOUS
      <4>2. j \in 1..N /\ j # 1 /\ j - 1 = k + 1
          BY <3>1, <4>1
      <4>3. flatten[j] = flatten[j - 1] \o seqs[j]
          BY <2>8, <4>2
      <4> QED BY <4>1, <4>2, <4>3
    <3>3. seqs[(k + 1) + 1] \in Seq(E) /\ flatten[k + 1] \in Seq(E)
        BY <1>1, <3>1
    <3>4. flatten[(k + 1) + 1] \in Seq(E)
        BY <3>2, <3>3, ConcatProperties
    <3> QED BY <3>1, <3>4
  <2>11. n \in S
    <3>1. 0..n \subseteq S
      <4> HIDE DEF S, n
      <4> QED BY <2>1, <2>9, <2>10, UpTo
    <3>2. n \in 0..n
        BY <2>1
    <3> QED BY <3>1, <3>2
  <2>12. n + 1 = N
      BY <1>1
  <2> QED BY <2>7, <2>11, <2>12
<1> QED BY <1>2, <1>3

-----------------------------------------------------------------------------
(***************************************************************************)
(* Lists: sequences of whatever is in them, and arguments along one.       *)
(***************************************************************************)

\* What holds of the empty sequence and of one element more holds of all.
LEMMA AlongSequences ==
    ASSUME NEW E, NEW Good, <<>> \in Good,
           \A t \in Seq(E) : t \in Good => \A e \in E : Append(t, e) \in Good
    PROVE  Seq(E) \subseteq Good
<1> SUFFICES ASSUME NEW s \in Seq(E) PROVE s \in Good
    OBVIOUS
<1> DEFINE upto(k) == SubSeq(s, 1, k)
           S == {k \in 0..Len(s) : upto(k) \in Good}
<1>1. Len(s) \in Nat /\ \A i \in 1..Len(s) : s[i] \in E
    BY Elements
<1>2. 0 \in S
  <2>1. upto(0) = <<>>
      BY SubSeqEmpty
  <2> HIDE DEF upto
  <2> QED BY <1>1, <2>1
<1>3. \A k \in 0..(Len(s) - 1) : k \in S => k + 1 \in S
  <2> TAKE k \in 0..(Len(s) - 1)
  <2> HAVE k \in S
  <2>1. /\ k \in Nat /\ k + 1 \in 1..Len(s) /\ 1 \in 1..Len(s) /\ k + 1 - 1 = k /\ s[k + 1] \in E
        /\ k + 1 \in 1..Len(s) /\ k \in 0..Len(s) /\ k + 1 \in 0..Len(s)
      BY <1>1
  <2>2. upto(k) \in Seq(E)
    <3>1. \A i \in 1..k : s[i] \in E
        BY <1>1, <2>1
    <3> QED BY <2>1, <3>1, SubSeqProperties
  <2>3. upto(k + 1) = upto(k) \o <<s[k + 1]>>
      BY <2>1, SubSeqRecursiveSecond
  <2>4. upto(k + 1) = Append(upto(k), s[k + 1])
    <3> HIDE DEF upto
    <3> QED BY <2>1, <2>2, <2>3, AppendIsConcat
  <2>5. upto(k) \in Good
      OBVIOUS
  <2> HIDE DEF upto
  <2>6. Append(upto(k), s[k + 1]) \in Good
      BY <2>1, <2>2, <2>5
  <2> QED BY <2>1, <2>4, <2>6
<1>4. Len(s) \in S
  <2> HIDE DEF S
  <2>1. 0..Len(s) \subseteq S
      BY <1>1, <1>2, <1>3, UpTo
  <2> QED BY <1>1, <2>1
<1> QED BY <1>4, SubSeqFull, ZenonT(60)

\* Two functions that start alike and go on alike are alike.
Alongside(f, g, n) == n \in Nat /\ f[0] = g[0] /\ \A k \in 1..n : f[k - 1] = g[k - 1] => f[k] = g[k]

\* They are equal everywhere.
LEMMA GoOnAlike ==
    ASSUME NEW n, NEW f, NEW g, Alongside(f, g, n)
    PROVE  \A k \in 0..n : f[k] = g[k]
<1> USE DEF Alongside
<1> DEFINE S == {k \in 0..n : f[k] = g[k]}
<1>1. \A k \in 0..(n - 1) : k \in S => k + 1 \in S
  <2> TAKE k \in 0..(n - 1)
  <2> HAVE k \in S
  <2>1. k + 1 \in 1..n /\ k + 1 - 1 = k
      OBVIOUS
  <2>2. f[(k + 1) - 1] = g[(k + 1) - 1]
      BY <2>1
  <2>3. f[k + 1] = g[k + 1]
      BY <2>1, <2>2
  <2> QED BY <2>1, <2>3
<1>2. 0 \in S
    OBVIOUS
<1>3. 0..n \subseteq S
  <2> HIDE DEF S
  <2> QED BY <1>1, <1>2, UpTo
<1> QED BY <1>3

\* A sequence of elements of a set is one.
LEMMA Sequences ==
    ASSUME NEW E, NEW s \in Seq(E)
    PROVE  IsSequence(s) /\ ToSet(s) \subseteq E
    BY Elements DEF IsSequence

\* Its parts.
LEMMA SequenceParts ==
    ASSUME NEW s, IsSequence(s)
    PROVE  /\ s \in Seq(ToSet(s)) /\ Len(s) \in Nat /\ DOMAIN s = 1..Len(s)
           /\ ToSet(s) = {s[i] : i \in 1..Len(s)}
           /\ \A i \in 1..Len(s) : s[i] \in ToSet(s)
           /\ s = [i \in 1..Len(s) |-> s[i]]
<1>1. s \in Seq(ToSet(s))
    BY DEF IsSequence
<1>2. s \in [1..Len(s) -> ToSet(s)]
    BY <1>1, LenProperties
<1> QED BY <1>1, <1>2, Elements

\* A function on 1..n is one.
LEMMA Numbered ==
    ASSUME NEW n \in Nat, NEW s, s = [i \in 1..n |-> s[i]]
    PROVE  IsSequence(s) /\ Len(s) = n /\ DOMAIN s = 1..n /\ ToSet(s) = {s[i] : i \in 1..n}
<1>1. s \in [1..n -> ToSet(s)]
    BY DEF ToSet
<1>2. s \in Seq(ToSet(s))
    BY <1>1, SeqDef
<1>3. Len(s) = n
  <2>1. DOMAIN s = 1..Len(s) /\ Len(s) \in Nat
      BY <1>2, LenProperties
  <2> QED BY <1>1, <2>1
<1> QED BY <1>2, <1>3 DEF IsSequence, ToSet

\* The empty sequence, and that of one element.
LEMMA ShortSequences ==
    /\ IsSequence(<<>>) /\ Len(<<>>) = 0 /\ ToSet(<<>>) = {}
    /\ \A x : IsSequence(<<x>>) /\ Len(<<x>>) = 1 /\ ToSet(<<x>>) = {x} /\ <<x>>[1] = x
<1>1. <<>> \in Seq({}) /\ ToSet(<<>>) = {}
    BY DEF ToSet
<1>2. ASSUME NEW x PROVE <<x>> \in Seq({x}) /\ ToSet(<<x>>) = {x}
    BY DEF ToSet
<1> QED BY <1>1, <1>2 DEF IsSequence

\* Two of the same length with the same elements are the same.
LEMMA SameSequence ==
    ASSUME NEW s, IsSequence(s), NEW t, IsSequence(t), Len(s) = Len(t),
           \A i \in 1..Len(s) : s[i] = t[i]
    PROVE  s = t
<1>1. s = [i \in 1..Len(s) |-> s[i]]
    BY SequenceParts
<1>2. t = [i \in 1..Len(t) |-> t[i]]
    BY SequenceParts
<1>3. [i \in 1..Len(s) |-> s[i]] = [i \in 1..Len(t) |-> t[i]]
    OBVIOUS
<1> QED BY <1>1, <1>2, <1>3

\* One after the other.
LEMMA ConcatSequence ==
    ASSUME NEW s, IsSequence(s), NEW t, IsSequence(t)
    PROVE  /\ IsSequence(s \o t) /\ Len(s \o t) = Len(s) + Len(t)
           /\ ToSet(s \o t) = ToSet(s) \cup ToSet(t)
           /\ \A i \in 1..Len(s) : (s \o t)[i] = s[i]
           /\ \A i \in 1..Len(t) : (s \o t)[Len(s) + i] = t[i]
<1> DEFINE E == ToSet(s) \cup ToSet(t)
           u == s \o t
<1>1. s \in Seq(E) /\ t \in Seq(E)
  <2>1. \A r : IsSequence(r) /\ ToSet(r) \subseteq E => r \in Seq(E)
    <3> HIDE DEF E
    <3> QED BY SequenceParts, SeqDef
  <2> QED BY <2>1
<1> HIDE DEF E
<1>2. /\ u \in Seq(E) /\ Len(u) = Len(s) + Len(t)
      /\ \A i \in 1..(Len(s) + Len(t)) : u[i] = IF i <= Len(s) THEN s[i] ELSE t[i - Len(s)]
    BY <1>1, ConcatProperties
<1>3. Len(s) \in Nat /\ Len(t) \in Nat
    BY SequenceParts
<1> HIDE DEF u
<1>4. \A i \in 1..Len(s) : i \in 1..Len(u) /\ u[i] = s[i]
    BY <1>2, <1>3
<1>5. \A i \in 1..Len(t) : Len(s) + i \in 1..Len(u) /\ u[Len(s) + i] = t[i]
  <2> TAKE i \in 1..Len(t)
  <2>1. Len(s) + i \in 1..Len(u) /\ ~(Len(s) + i <= Len(s)) /\ Len(s) + i - Len(s) = i
      BY <1>2, <1>3
  <2>2. PICK j : j = Len(s) + i
      OBVIOUS
  <2>3. u[j] = IF j <= Len(s) THEN s[j] ELSE t[j - Len(s)]
      BY <1>2, <2>1, <2>2
  <2> QED BY <2>1, <2>2, <2>3
<1>6. IsSequence(u) /\ ToSet(u) = {u[i] : i \in 1..Len(u)}
    BY <1>2, Sequences, SequenceParts
<1>7. ToSet(u) = ToSet(s) \cup ToSet(t)
  <2>1. ToSet(s) = {s[i] : i \in 1..Len(s)} /\ ToSet(t) = {t[i] : i \in 1..Len(t)}
      BY SequenceParts
  <2>2. ASSUME NEW x \in ToSet(u) PROVE x \in ToSet(s) \cup ToSet(t)
    <3>1. PICK i \in 1..Len(u) : x = u[i]
        BY <1>6
    <3>2. CASE i <= Len(s)
        BY <1>2, <1>3, <2>1, <3>1, <3>2
    <3>3. CASE ~(i <= Len(s))
      <4>1. i - Len(s) \in 1..Len(t) /\ u[i] = t[i - Len(s)]
          BY <1>2, <1>3, <3>1, <3>3
      <4> QED BY <2>1, <3>1, <4>1
    <3> QED BY <3>2, <3>3
  <2>3. ToSet(s) \cup ToSet(t) \subseteq ToSet(u)
      BY <1>4, <1>5, <1>6, <2>1
  <2> QED BY <2>2, <2>3
<1> QED BY <1>2, <1>4, <1>5, <1>6, <1>7 DEF u

-----------------------------------------------------------------------------
(***************************************************************************)
(* Only and FlattenSeq, from the front of a list to its end.               *)
(***************************************************************************)

\* The values of a recursion along the numbers up to one, as a function.
Values(f, n, T, base, step) ==
    /\ f \in [0..n -> T] /\ f[0] = base
    /\ \A k \in 1..n : f[k - 1] \in T /\ f[k] = step[<<k, f[k - 1]>>]
    /\ f = [k \in 0..n |-> f[k]]

\* Every recursion has such values.
LEMMA Recursed ==
    ASSUME NEW n, NEW T, NEW base, NEW step, Recursive(T, base, n, step)
    PROVE  \E f : Values(f, n, T, base, step)
<1>1. PICK f : Computes(f, T, base, n, step)
    BY Recursion
<1>2. f \in [0..n -> T] /\ f[0] = base /\ \A k \in 1..n : f[k] = step[<<k, f[k - 1]>>]
    BY <1>1 DEF Computes
<1>3. \A k \in 1..n : f[k - 1] \in T
  <2>1. \A k \in 1..n : k - 1 \in 0..n
      BY DEF Recursive
  <2> QED BY <1>2, <2>1
<1> QED BY <1>2, <1>3 DEF Values

\* What is kept of the first elements of a sequence.
Keeping(kept, s, chosen, T) ==
    /\ kept \in [0..Len(s) -> T] /\ kept[0] = <<>>
    /\ \A k \in 1..Len(s) : kept[k] = IF s[k] \in chosen THEN Append(kept[k - 1], s[k]) ELSE kept[k - 1]

\* Only is the last of them.
LEMMA OnlyRuns ==
    ASSUME NEW E, NEW s \in Seq(E), NEW chosen
    PROVE  \E kept : Keeping(kept, s, chosen, Seq(E)) /\ Only(s, chosen) = kept[Len(s)]
<1> DEFINE n == Len(s)
           T == Seq(E)
           Put(k, t) == IF s[k] \in chosen THEN Append(t, s[k]) ELSE t
           step == [p \in (1..n) \X T |-> Put(p[1], p[2])]
           base == <<>>
<1>1. n \in Nat /\ base \in T /\ \A i \in 1..n : s[i] \in E
    BY Elements
<1>2. step \in [(1..n) \X T -> T]
  <2>1. \A k \in 1..n, t \in T : Put(k, t) \in T
      BY <1>1, Appended
  <2> HIDE DEF T, Put, n
  <2> QED BY <2>1
<1>3. \A k \in 1..n, t \in T : step[<<k, t>>] = Put(k, t)
  <2> HIDE DEF Put, T, n
  <2> QED OBVIOUS
<1>4. PICK f : Values(f, n, T, base, step)
  <2> HIDE DEF n, T, step, base
  <2>1. Recursive(T, base, n, step)
      BY <1>1, <1>2 DEF Recursive
  <2> QED BY <2>1, Recursed
<1>5. \A k \in 1..n : f[k] = Put(k, f[k - 1])
  <2> HIDE DEF n, T, step, Put
  <2> QED BY <1>3, <1>4 DEF Values
<1> DEFINE Kept(g) == g = [k \in 0..n |-> IF k = 0 THEN <<>>
                                ELSE IF s[k] \in chosen THEN Append(g[k - 1], s[k]) ELSE g[k - 1]]
<1>6. Kept(f)
  <2>1. \A k \in 0..n : f[k] = IF k = 0 THEN <<>> ELSE Put(k, f[k - 1])
    <3>1. \A k \in 0..n : k = 0 \/ k \in 1..n
        BY <1>1
    <3> HIDE DEF n, T, step, Put
    <3> QED BY <1>4, <1>5, <3>1 DEF Values
  <2>2. f = [k \in 0..n |-> f[k]]
    <3> HIDE DEF n, T, step
    <3> QED BY <1>4 DEF Values
  <2> HIDE DEF step, T, n
  <2> QED BY <2>1, <2>2
<1> DEFINE kept == CHOOSE g : Kept(g)
<1>7. Kept(kept)
  <2> HIDE DEF Kept
  <2> QED BY <1>6
<1>8. Only(s, chosen) = kept[n]
    BY DEF Only
<1> HIDE DEF kept
<1>9. kept[0] = base /\ \A k \in 1..n : kept[k] = Put(k, kept[k - 1])
  <2>1. 0 \in 0..n /\ \A k \in 1..n : k \in 0..n /\ k # 0
      BY <1>1
  <2> HIDE DEF n
  <2> QED BY <1>7, <2>1
<1>10. \A k \in 0..n : kept[k] = f[k]
  <2> HIDE DEF n, T, Put, step, Kept
  <2>1. Alongside(kept, f, n)
      BY <1>1, <1>4, <1>5, <1>9 DEF Alongside, Values
  <2> QED BY <2>1, GoOnAlike
<1>11. kept \in [0..n -> T]
  <2>1. kept = [k \in 0..n |-> kept[k]]
    <3> HIDE DEF n
    <3> QED BY <1>7
  <2> HIDE DEF n, T, Put, step, Kept
  <2> QED BY <1>4, <1>10, <2>1 DEF Values
<1> QED BY <1>8, <1>9, <1>11 DEF Keeping

\* One element more is kept, or is not.
AppendKept(s, e, chosen) ==
    Only(Append(s, e), chosen) = IF e \in chosen THEN Append(Only(s, chosen), e) ELSE Only(s, chosen)

\* So Only goes on from the elements before.
LEMMA OnlyAppend ==
    ASSUME NEW E, NEW s \in Seq(E), NEW e \in E, NEW chosen
    PROVE  Only(s, chosen) \in Seq(E) /\ AppendKept(s, e, chosen)
<1> DEFINE t == Append(s, e)
           n == Len(s)
           T == Seq(E)
<1>1. n \in Nat /\ t \in Seq(E) /\ Len(t) = n + 1 /\ t[n + 1] = e /\ \A i \in 1..n : t[i] = s[i]
    BY Elements, Appended
<1>2. PICK f : Keeping(f, s, chosen, T) /\ Only(s, chosen) = f[n]
    BY OnlyRuns
<1> HIDE DEF t
<1>3. PICK g : Keeping(g, t, chosen, T) /\ Only(t, chosen) = g[n + 1]
    BY <1>1, OnlyRuns
<1>4. /\ f \in [0..n -> T] /\ f[0] = <<>>
      /\ \A k \in 1..n : f[k] = IF s[k] \in chosen THEN Append(f[k - 1], s[k]) ELSE f[k - 1]
    BY <1>2 DEF Keeping
<1>5. /\ g[0] = <<>>
      /\ \A k \in 1..(n + 1) : g[k] = IF t[k] \in chosen THEN Append(g[k - 1], t[k]) ELSE g[k - 1]
    BY <1>1, <1>3 DEF Keeping
<1> HIDE DEF n, T
<1>6. \A k \in 0..n : f[k] = g[k]
  <2>1. \A k \in 1..n : f[k - 1] = g[k - 1] => f[k] = g[k]
    <3> TAKE k \in 1..n
    <3>1. k \in 1..(n + 1)
        BY <1>1
    <3> QED BY <1>1, <1>4, <1>5, <3>1
  <2>2. Alongside(f, g, n)
      BY <1>1, <1>4, <1>5, <2>1 DEF Alongside
  <2> QED BY <2>2, GoOnAlike
<1>7. n + 1 \in 1..(n + 1) /\ (n + 1) - 1 = n /\ n \in 0..n
    BY <1>1
<1>8. g[n + 1] = IF e \in chosen THEN Append(g[n], e) ELSE g[n]
  <2>1. PICK j : j = n + 1
      OBVIOUS
  <2>2. g[j] = IF t[j] \in chosen THEN Append(g[j - 1], t[j]) ELSE g[j - 1]
      BY <1>5, <1>7, <2>1
  <2> QED BY <1>1, <1>7, <2>1, <2>2
<1> QED BY <1>2, <1>3, <1>4, <1>6, <1>7, <1>8 DEF t, T, AppendKept

\* Nothing is kept of nothing.
LEMMA OnlyNone == \A chosen : Only(<<>>, chosen) = <<>>
<1> TAKE chosen
<1>1. <<>> \in Seq({}) /\ Len(<<>>) = 0
    OBVIOUS
<1>2. PICK f : Keeping(f, <<>>, chosen, Seq({})) /\ Only(<<>>, chosen) = f[Len(<<>>)]
    BY <1>1, OnlyRuns
<1> QED BY <1>1, <1>2 DEF Keeping

\* What has been joined of the first sequences.
Joining(h, seqs, E) ==
    \A i \in 1..Len(seqs) :
        h[i] \in Seq(E) /\ h[i] = IF i = 1 THEN seqs[i] ELSE h[i - 1] \o seqs[i]

\* FlattenSeq is the last of them.
LEMMA FlatRuns ==
    ASSUME NEW E, NEW seqs \in Seq(Seq(E)), Len(seqs) # 0
    PROVE  \E h : Joining(h, seqs, E) /\ FlattenSeq(seqs) = h[Len(seqs)]
<1>0. Len(seqs) \in Nat /\ \A i \in 1..Len(seqs) : seqs[i] \in Seq(E)
    BY Elements
<1> DEFINE n == Len(seqs) - 1
           T == Seq(E)
           base == seqs[1]
           step == [p \in (1..n) \X T |-> p[2] \o seqs[p[1] + 1]]
<1>1. n \in Nat /\ 1 \in 1..Len(seqs) /\ base \in T /\ \A k \in 1..n : k + 1 \in 1..Len(seqs)
    BY <1>0
<1>2. step \in [(1..n) \X T -> T]
  <2>1. \A p \in (1..n) \X T : p[2] \o seqs[p[1] + 1] \in T
      BY <1>0, <1>1, ConcatProperties
  <2> HIDE DEF T, n
  <2> QED BY <2>1
<1>3. PICK f : Computes(f, T, base, n, step)
  <2> HIDE DEF T, n, base, step
  <2>1. Recursive(T, base, n, step)
      BY <1>1, <1>2 DEF Recursive
  <2> QED BY <2>1, Recursion
<1>4. /\ f \in [0..n -> T] /\ f[0] = base
      /\ \A k \in 1..n : f[k - 1] \in T /\ f[k] = f[k - 1] \o seqs[k + 1]
  <2>1. f \in [0..n -> T] /\ f[0] = base /\ \A k \in 1..n : f[k] = step[<<k, f[k - 1]>>]
    <3> HIDE DEF T, n, base, step
    <3> QED BY <1>3 DEF Computes
  <2>2. ASSUME NEW k \in 1..n PROVE f[k - 1] \in T /\ f[k] = f[k - 1] \o seqs[k + 1]
    <3>1. k - 1 \in 0..n
        BY <1>1
    <3>2. f[k - 1] \in T
      <4> HIDE DEF T, n
      <4> QED BY <2>1, <3>1
    <3>3. <<k, f[k - 1]>> \in (1..n) \X T
      <4> HIDE DEF T, n
      <4> QED BY <3>2
    <3> HIDE DEF T, n
    <3> QED BY <2>1, <3>2, <3>3
  <2> HIDE DEF T, n, base, step
  <2> QED BY <2>1, <2>2
<1> HIDE DEF step
<1> DEFINE N == Len(seqs)
           Flat(h) == h = [i \in 1..N |-> IF i = 1 THEN seqs[i] ELSE h[i - 1] \o seqs[i]]
           g == [i \in 1..N |-> f[i - 1]]
<1>5. Flat(g)
  <2>1. \A i \in 1..N : g[i] = IF i = 1 THEN seqs[i] ELSE g[i - 1] \o seqs[i]
    <3> TAKE i \in 1..N
    <3>1. g[i] = f[i - 1]
        OBVIOUS
    <3>2. CASE i = 1
        BY <1>4, <3>1, <3>2
    <3>3. CASE i # 1
      <4>1. i - 1 \in 1..n /\ i - 1 \in 1..N /\ (i - 1) + 1 = i
          BY <1>0, <3>3
      <4>2. g[i - 1] = f[(i - 1) - 1]
          BY <4>1
      <4>3. f[i - 1] = f[(i - 1) - 1] \o seqs[(i - 1) + 1]
          BY <1>4, <4>1
      <4> HIDE DEF g
      <4> QED BY <3>1, <3>3, <4>1, <4>2, <4>3
    <3> QED BY <3>2, <3>3
  <2>2. g = [i \in 1..N |-> g[i]]
      OBVIOUS
  <2> HIDE DEF g
  <2> QED BY <2>1, <2>2
<1> DEFINE flatten == CHOOSE h : Flat(h)
<1>6. Flat(flatten)
  <2> HIDE DEF Flat, g
  <2> QED BY <1>5
<1>7. FlattenSeq(seqs) = flatten[N]
    BY DEF FlattenSeq
<1> HIDE DEF flatten
<1>8. \A i \in 1..N : flatten[i] = IF i = 1 THEN seqs[i] ELSE flatten[i - 1] \o seqs[i]
    BY <1>6
<1> DEFINE S == {k \in 0..n : flatten[k + 1] \in Seq(E)}
<1>9. 0 \in S
    BY <1>1, <1>8
<1>10. \A k \in 0..(n - 1) : k \in S => k + 1 \in S
  <2> TAKE k \in 0..(n - 1)
  <2> HAVE k \in S
  <2>1. (k + 1) + 1 \in 1..N /\ (k + 1) + 1 # 1 /\ (k + 1) + 1 - 1 = k + 1 /\ k + 1 \in 0..n
      BY <1>1
  <2>2. flatten[(k + 1) + 1] = flatten[k + 1] \o seqs[(k + 1) + 1]
    <3>1. PICK j : j = (k + 1) + 1
        OBVIOUS
    <3>2. j \in 1..N /\ j # 1 /\ j - 1 = k + 1
        BY <2>1, <3>1
    <3>3. flatten[j] = flatten[j - 1] \o seqs[j]
        BY <1>8, <3>2
    <3> QED BY <3>1, <3>2, <3>3
  <2>3. seqs[(k + 1) + 1] \in Seq(E) /\ flatten[k + 1] \in Seq(E)
      BY <1>0, <2>1
  <2>4. flatten[(k + 1) + 1] \in Seq(E)
      BY <2>2, <2>3, ConcatProperties
  <2> QED BY <2>1, <2>4
<1>11. \A i \in 1..N : flatten[i] \in Seq(E)
  <2>1. 0..n \subseteq S
    <3> HIDE DEF S, n
    <3> QED BY <1>1, <1>9, <1>10, UpTo
  <2>2. \A i \in 1..N : i - 1 \in 0..n /\ (i - 1) + 1 = i
      BY <1>0
  <2> HIDE DEF n, N
  <2> QED BY <2>1, <2>2
<1> QED BY <1>7, <1>8, <1>11 DEF Joining

\* Nothing joined is nothing, and one sequence more comes after the others.
LEMMA FlatNone == FlattenSeq(<<>>) = <<>>
    BY DEF FlattenSeq

\* So FlattenSeq goes on from the sequences before.
LEMMA FlatAppend ==
    ASSUME NEW E, NEW ss \in Seq(Seq(E)), NEW t \in Seq(E)
    PROVE  FlattenSeq(ss) \in Seq(E) /\ FlattenSeq(Append(ss, t)) = FlattenSeq(ss) \o t
<1> DEFINE u == Append(ss, t)
           n == Len(ss)
<1>1. /\ n \in Nat /\ u \in Seq(Seq(E)) /\ Len(u) = n + 1 /\ u[n + 1] = t
      /\ \A i \in 1..n : u[i] = ss[i] /\ ss[i] \in Seq(E)
  <2> DEFINE S == Seq(E)
  <2>1. ss \in Seq(S) /\ t \in S
      OBVIOUS
  <2> HIDE DEF S
  <2>2. n \in Nat /\ u \in Seq(S) /\ Len(u) = n + 1 /\ u[n + 1] = t /\ \A i \in 1..n : u[i] = ss[i] /\ ss[i] \in S
      BY <2>1, Elements, Appended
  <2> QED BY <2>2 DEF S
<1> HIDE DEF u
<1>2. PICK g : Joining(g, u, E) /\ FlattenSeq(u) = g[n + 1]
  <2>1. Len(u) # 0
      BY <1>1
  <2> QED BY <1>1, <2>1, FlatRuns
<1>3. \A i \in 1..(n + 1) : g[i] \in Seq(E) /\ g[i] = IF i = 1 THEN u[i] ELSE g[i - 1] \o u[i]
    BY <1>1, <1>2 DEF Joining
<1>4. CASE n = 0
  <2>1. ss = <<>>
      BY <1>4, EmptySeq
  <2>2. FlattenSeq(u) = t
      BY <1>1, <1>2, <1>3, <1>4
  <2>3. <<>> \o t = t /\ <<>> \in Seq(E)
      BY ConcatEmptySeq
  <2> QED BY <2>1, <2>2, <2>3, FlatNone DEF u
<1>5. CASE n # 0
  <2>1. PICK h : Joining(h, ss, E) /\ FlattenSeq(ss) = h[n]
      BY <1>5, FlatRuns
  <2>2. \A i \in 1..n : h[i] \in Seq(E) /\ h[i] = IF i = 1 THEN ss[i] ELSE h[i - 1] \o ss[i]
      BY <2>1 DEF Joining
  <2> HIDE DEF n
  <2> DEFINE f == [k \in 0..(n - 1) |-> h[k + 1]]
             e == [k \in 0..(n - 1) |-> g[k + 1]]
  <2>3. f[0] = h[1] /\ e[0] = g[1] /\ h[1] = ss[1] /\ g[1] = u[1] /\ u[1] = ss[1]
      BY <1>1, <1>3, <1>5, <2>2
  <2>4. ASSUME NEW k \in 1..(n - 1), f[k - 1] = e[k - 1] PROVE f[k] = e[k]
    <3>1. /\ k + 1 \in 1..n /\ k + 1 \in 1..(n + 1) /\ k + 1 # 1 /\ (k + 1) - 1 = k /\ (k - 1) + 1 = k
          /\ k \in 0..(n - 1) /\ k - 1 \in 0..(n - 1)
        BY <1>1, <1>5
    <3>2. f[k] = h[k + 1] /\ e[k] = g[k + 1] /\ f[k - 1] = h[k] /\ e[k - 1] = g[k]
        BY <3>1
    <3>3. PICK j : j = k + 1
        OBVIOUS
    <3>4. h[j] = h[j - 1] \o ss[j] /\ g[j] = g[j - 1] \o u[j] /\ u[j] = ss[j] /\ j - 1 = k
        BY <1>1, <1>3, <2>2, <3>1, <3>3
    <3> HIDE DEF f, e
    <3> QED BY <2>4, <3>2, <3>3, <3>4
  <2>5. \A k \in 0..(n - 1) : f[k] = e[k]
    <3>1. Alongside(f, e, n - 1)
      <4>1. n - 1 \in Nat
          BY <1>1, <1>5
      <4> HIDE DEF f, e
      <4> QED BY <2>3, <2>4, <4>1 DEF Alongside
    <3> HIDE DEF f, e
    <3> QED BY <3>1, GoOnAlike
  <2>6. g[n] = h[n] /\ h[n] \in Seq(E)
    <3>1. n - 1 \in 0..(n - 1) /\ (n - 1) + 1 = n /\ n \in 1..n
        BY <1>1, <1>5
    <3> QED BY <2>2, <2>5, <3>1
  <2>7. g[n + 1] = g[n] \o t
    <3>1. PICK j : j = n + 1
        OBVIOUS
    <3>2. j \in 1..(n + 1) /\ j # 1 /\ j - 1 = n
        BY <1>1, <1>5, <3>1
    <3>3. g[j] = g[j - 1] \o u[j]
        BY <1>3, <3>2
    <3> QED BY <1>1, <3>1, <3>2, <3>3
  <2> QED BY <1>2, <2>1, <2>6, <2>7 DEF u
<1> QED BY <1>4, <1>5

\* What is kept is a sequence over the same set.
LEMMA OnlyTyped ==
    ASSUME NEW E, NEW s \in Seq(E), NEW chosen
    PROVE  Only(s, chosen) \in Seq(E)
<1>1. PICK kept : Keeping(kept, s, chosen, Seq(E)) /\ Only(s, chosen) = kept[Len(s)]
    BY OnlyRuns
<1>2. Len(s) \in 0..Len(s)
    BY Elements
<1> QED BY <1>1, <1>2 DEF Keeping

\* Appending to what is joined.
LEMMA AppendConcat ==
    ASSUME NEW E, NEW s \in Seq(E), NEW t \in Seq(E), NEW e \in E
    PROVE  s \o Append(t, e) = Append(s \o t, e)
<1>1. <<e>> \in Seq(E) /\ s \o t \in Seq(E)
    BY ConcatProperties
<1>2. Append(t, e) = t \o <<e>> /\ Append(s \o t, e) = (s \o t) \o <<e>>
    BY <1>1, AppendIsConcat
<1> QED BY <1>1, <1>2, ConcatAssociative

\* What is kept of two lists is what is kept of each.
LEMMA OnlyConcat ==
    ASSUME NEW E, NEW s \in Seq(E), NEW t \in Seq(E), NEW chosen
    PROVE  Only(s \o t, chosen) = Only(s, chosen) \o Only(t, chosen)
<1> DEFINE Good == {r \in Seq(E) : Only(s \o r, chosen) = Only(s, chosen) \o Only(r, chosen)}
<1>1. <<>> \in Good
  <2>1. s \o <<>> = s /\ Only(s, chosen) \o <<>> = Only(s, chosen) /\ <<>> \in Seq(E)
    <3>1. Only(s, chosen) \in Seq(E)
        BY OnlyTyped
    <3> QED BY <3>1, ConcatEmptySeq
  <2> QED BY <2>1, OnlyNone
<1>2. ASSUME NEW r \in Seq(E), r \in Good, NEW e \in E PROVE Append(r, e) \in Good
  <2>1. s \o Append(r, e) = Append(s \o r, e) /\ s \o r \in Seq(E) /\ Append(r, e) \in Seq(E)
      BY AppendConcat, ConcatProperties, AppendProperties
  <2>2. /\ Only(s, chosen) \in Seq(E) /\ Only(r, chosen) \in Seq(E)
        /\ AppendKept(r, e, chosen) /\ AppendKept(s \o r, e, chosen)
      BY <2>1, OnlyAppend
  <2>3. Only(s, chosen) \o Append(Only(r, chosen), e) = Append(Only(s, chosen) \o Only(r, chosen), e)
      BY <2>2, AppendConcat
  <2>4. Only(s \o r, chosen) = Only(s, chosen) \o Only(r, chosen)
      BY <1>2
  <2> QED BY <2>1, <2>2, <2>3, <2>4 DEF AppendKept
<1>3. Seq(E) \subseteq Good
  <2> HIDE DEF Good
  <2> QED BY <1>1, <1>2, AlongSequences
<1> QED BY <1>3

\* What is kept is a sequence of the elements that are chosen.
LEMMA OnlySet ==
    ASSUME NEW E, NEW s \in Seq(E), NEW chosen
    PROVE  Only(s, chosen) \in Seq(E) /\ ToSet(Only(s, chosen)) = ToSet(s) \cap chosen
<1> DEFINE Good == {r \in Seq(E) : ToSet(Only(r, chosen)) = ToSet(r) \cap chosen}
<1>1. <<>> \in Good
    BY OnlyNone, ShortSequences
<1>2. ASSUME NEW r \in Seq(E), r \in Good, NEW e \in E PROVE Append(r, e) \in Good
  <2>1. /\ Only(r, chosen) \in Seq(E) /\ Append(r, e) \in Seq(E)
        /\ AppendKept(r, e, chosen)
      BY OnlyAppend, AppendProperties
  <2>2. ToSet(Append(r, e)) = ToSet(r) \cup {e} /\ ToSet(Append(Only(r, chosen), e)) = ToSet(Only(r, chosen)) \cup {e}
      BY <2>1, Appended
  <2>3. ToSet(Only(r, chosen)) = ToSet(r) \cap chosen
      BY <1>2
  <2> QED BY <2>1, <2>2, <2>3 DEF AppendKept
<1>3. Seq(E) \subseteq Good
  <2> HIDE DEF Good
  <2> QED BY <1>1, <1>2, AlongSequences
<1>4. Only(s, chosen) \in Seq(E)
    BY OnlyTyped
<1> QED BY <1>3, <1>4

\* What is kept of a list, as a list of its own elements.
LEMMA OnlySequence ==
    ASSUME NEW s, IsSequence(s), NEW chosen
    PROVE  /\ IsSequence(Only(s, chosen)) /\ ToSet(Only(s, chosen)) = ToSet(s) \cap chosen
           /\ Only(s, chosen) \in Seq(ToSet(s))
    BY OnlySet, Sequences DEF IsSequence

\* It depends on which elements of the list are chosen alone.
LEMMA OnlySame ==
    ASSUME NEW E, NEW s \in Seq(E), NEW chosen, NEW other, ToSet(s) \cap chosen = ToSet(s) \cap other
    PROVE  Only(s, chosen) = Only(s, other)
<1> DEFINE Meets(r) == ToSet(r) \cap chosen = ToSet(r) \cap other
           Good == {r \in Seq(E) : Meets(r) => Only(r, chosen) = Only(r, other)}
<1>1. <<>> \in Good
    BY OnlyNone
<1>2. ASSUME NEW r \in Seq(E), r \in Good, NEW e \in E PROVE Append(r, e) \in Good
  <2>1. /\ Append(r, e) \in Seq(E) /\ ToSet(Append(r, e)) = ToSet(r) \cup {e}
        /\ AppendKept(r, e, chosen) /\ AppendKept(r, e, other)
      BY OnlyAppend, Appended
  <2>2. SUFFICES ASSUME Meets(Append(r, e)) PROVE Only(Append(r, e), chosen) = Only(Append(r, e), other)
      BY <2>1
  <2>3. Meets(r) /\ (e \in chosen <=> e \in other)
      BY <2>1, <2>2
  <2>4. Only(r, chosen) = Only(r, other)
      BY <1>2, <2>3
  <2> QED BY <2>1, <2>3, <2>4 DEF AppendKept
<1>3. Seq(E) \subseteq Good
  <2> HIDE DEF Good
  <2> QED BY <1>1, <1>2, AlongSequences
<1> QED BY <1>3

\* What is joined holds what is in any of the sequences.
LEMMA FlatSet ==
    ASSUME NEW E, NEW ss \in Seq(Seq(E))
    PROVE  /\ FlattenSeq(ss) \in Seq(E)
           /\ ToSet(FlattenSeq(ss)) = UNION {ToSet(r) : r \in ToSet(ss)}
<1> DEFINE S == Seq(E)
           In(rr) == UNION {ToSet(r) : r \in ToSet(rr)}
           Good == {rr \in Seq(S) : FlattenSeq(rr) \in Seq(E) /\ ToSet(FlattenSeq(rr)) = In(rr)}
<1>1. <<>> \in Good
  <2>1. <<>> \in Seq(S) /\ <<>> \in Seq(E) /\ FlattenSeq(<<>>) = <<>> /\ ToSet(<<>>) = {}
    <3> HIDE DEF S
    <3> QED BY FlatNone, ShortSequences, EmptySeq
  <2>2. In(<<>>) = {}
      BY <2>1
  <2> HIDE DEF S, In
  <2> QED BY <2>1, <2>2
<1>2. ASSUME NEW rr \in Seq(S), rr \in Good, NEW t \in S PROVE Append(rr, t) \in Good
  <2>1. FlattenSeq(rr) \in Seq(E) /\ FlattenSeq(Append(rr, t)) = FlattenSeq(rr) \o t
      BY FlatAppend
  <2>2. Append(rr, t) \in Seq(S) /\ ToSet(Append(rr, t)) = ToSet(rr) \cup {t}
    <3> HIDE DEF S
    <3> QED BY Appended
  <2>3. FlattenSeq(rr) \o t \in Seq(E) /\ ToSet(FlattenSeq(rr) \o t) = ToSet(FlattenSeq(rr)) \cup ToSet(t)
    <3>1. IsSequence(FlattenSeq(rr)) /\ IsSequence(t)
        BY <2>1, Sequences
    <3> QED BY <2>1, <3>1, ConcatSequence, ConcatProperties
  <2>4. In(Append(rr, t)) = In(rr) \cup ToSet(t)
      BY <2>2
  <2>5. ToSet(FlattenSeq(rr)) = In(rr)
      BY <1>2
  <2> HIDE DEF In, S
  <2> QED BY <2>1, <2>2, <2>3, <2>4, <2>5
<1>3. Seq(S) \subseteq Good
  <2> HIDE DEF Good, S
  <2> QED BY <1>1, <1>2, AlongSequences
<1> QED BY <1>3

\* Sequences of sequences, each of its own elements.
LEMMA FlatSequence ==
    ASSUME NEW ss, IsSequence(ss), \A r \in ToSet(ss) : IsSequence(r)
    PROVE  /\ IsSequence(FlattenSeq(ss)) /\ ss \in Seq(Seq(ToSet(FlattenSeq(ss))))
           /\ ToSet(FlattenSeq(ss)) = UNION {ToSet(r) : r \in ToSet(ss)}
<1> DEFINE E == UNION {ToSet(r) : r \in ToSet(ss)}
           S == Seq(E)
<1>1. \A r \in ToSet(ss) : r \in Seq(E)
  <2> TAKE r \in ToSet(ss)
  <2>1. r \in Seq(ToSet(r)) /\ ToSet(r) \subseteq E
      BY DEF IsSequence
  <2> HIDE DEF E
  <2> QED BY <2>1, SeqMonotonic
<1>2. ss \in Seq(Seq(E))
  <2>1. ToSet(ss) \subseteq S /\ ss \in Seq(ToSet(ss))
      BY <1>1 DEF IsSequence
  <2>2. ss \in Seq(S)
    <3> HIDE DEF S
    <3> QED BY <2>1, SeqMonotonic
  <2> QED BY <2>2
<1>3. FlattenSeq(ss) \in Seq(E) /\ ToSet(FlattenSeq(ss)) = E
    BY <1>2, FlatSet
<1> HIDE DEF E
<1>4. IsSequence(FlattenSeq(ss))
    BY <1>3, Sequences
<1> QED BY <1>2, <1>3, <1>4 DEF E

-----------------------------------------------------------------------------
(***************************************************************************)
(* Rows: what is made of the elements of a list that are chosen.           *)
(***************************************************************************)

\* The images of the elements that are in the domain of a function.
Mapped(s, im) == [i \in 1..Len(s) |-> im[s[i]]]
Image(s, im) == Mapped(Only(s, DOMAIN im), im)
Targets(im) == {im[x] : x \in DOMAIN im}

\* An image for each element.
LEMMA MappedSequence ==
    ASSUME NEW s, IsSequence(s), NEW im
    PROVE  /\ IsSequence(Mapped(s, im)) /\ Len(Mapped(s, im)) = Len(s)
           /\ \A i \in 1..Len(s) : Mapped(s, im)[i] = im[s[i]]
           /\ ToSet(Mapped(s, im)) = {im[x] : x \in ToSet(s)}
<1> DEFINE t == Mapped(s, im)
<1>1. Len(s) \in Nat /\ ToSet(s) = {s[i] : i \in 1..Len(s)}
    BY SequenceParts
<1>2. t = [i \in 1..Len(s) |-> t[i]] /\ \A i \in 1..Len(s) : t[i] = im[s[i]]
    BY DEF Mapped
<1> HIDE DEF t
<1>3. IsSequence(t) /\ Len(t) = Len(s) /\ ToSet(t) = {t[i] : i \in 1..Len(s)}
    BY <1>1, <1>2, Numbered
<1>4. ToSet(t) = {im[x] : x \in ToSet(s)}
    BY <1>1, <1>2, <1>3
<1> QED BY <1>2, <1>3, <1>4 DEF t

\* The images are a list over the targets.
LEMMA ImageSequence ==
    ASSUME NEW s, IsSequence(s), NEW im
    PROVE  /\ IsSequence(Image(s, im)) /\ Len(Image(s, im)) = Len(Only(s, DOMAIN im))
           /\ ToSet(Image(s, im)) = {im[x] : x \in ToSet(s) \cap DOMAIN im}
           /\ Image(s, im) \in Seq(Targets(im))
<1>1. IsSequence(Only(s, DOMAIN im)) /\ ToSet(Only(s, DOMAIN im)) = ToSet(s) \cap DOMAIN im
    BY OnlySequence
<1>2. /\ IsSequence(Image(s, im)) /\ Len(Image(s, im)) = Len(Only(s, DOMAIN im))
      /\ ToSet(Image(s, im)) = {im[x] : x \in ToSet(s) \cap DOMAIN im}
    BY <1>1, MappedSequence DEF Image
<1>3. Image(s, im) \in Seq(ToSet(Image(s, im))) /\ ToSet(Image(s, im)) \subseteq Targets(im)
    BY <1>2 DEF IsSequence, Targets
<1>4. Image(s, im) \in Seq(Targets(im))
    BY <1>3, SeqMonotonic
<1> QED BY <1>2, <1>4

\* Nothing has no image.
LEMMA ImageNone == \A im : Image(<<>>, im) = <<>>
<1> TAKE im
<1>1. IsSequence(Image(<<>>, im)) /\ Len(Image(<<>>, im)) = 0
  <2>1. Only(<<>>, DOMAIN im) = <<>> /\ Len(<<>>) = 0 /\ IsSequence(<<>>)
      BY OnlyNone, ShortSequences
  <2> QED BY <2>1, ImageSequence
<1> QED BY <1>1, EmptySeq DEF IsSequence

\* The images of two lists are those of the first, then those of the second.
LEMMA ImageConcat ==
    ASSUME NEW s, IsSequence(s), NEW t, IsSequence(t), NEW im
    PROVE  Image(s \o t, im) = Image(s, im) \o Image(t, im)
<1> DEFINE E == ToSet(s) \cup ToSet(t)
           k == Only(s, DOMAIN im)
           l == Only(t, DOMAIN im)
<1>1. s \in Seq(E) /\ t \in Seq(E)
    BY SeqMonotonic DEF IsSequence
<1>2. Only(s \o t, DOMAIN im) = k \o l
    BY <1>1, OnlyConcat
<1>3. IsSequence(k) /\ IsSequence(l)
    BY OnlySequence
<1> DEFINE u == k \o l
<1>4. /\ IsSequence(u) /\ Len(u) = Len(k) + Len(l)
      /\ \A i \in 1..Len(k) : u[i] = k[i]
      /\ \A i \in 1..Len(l) : u[Len(k) + i] = l[i]
    BY <1>3, ConcatSequence
<1> HIDE DEF k, l, u
<1> DEFINE a == Mapped(u, im)
           m == Mapped(k, im)
           n == Mapped(l, im)
           b == m \o n
<1>5. /\ IsSequence(a) /\ Len(a) = Len(u) /\ \A i \in 1..Len(u) : a[i] = im[u[i]]
      /\ IsSequence(m) /\ Len(m) = Len(k) /\ \A i \in 1..Len(k) : m[i] = im[k[i]]
      /\ IsSequence(n) /\ Len(n) = Len(l) /\ \A i \in 1..Len(l) : n[i] = im[l[i]]
    BY <1>3, <1>4, MappedSequence
<1> HIDE DEF a, m, n
<1>6. /\ IsSequence(b) /\ Len(b) = Len(k) + Len(l)
      /\ \A i \in 1..Len(k) : b[i] = m[i]
      /\ \A i \in 1..Len(l) : b[Len(k) + i] = n[i]
  <2>1. /\ IsSequence(b) /\ Len(b) = Len(m) + Len(n)
        /\ \A i \in 1..Len(m) : b[i] = m[i]
        /\ \A i \in 1..Len(n) : b[Len(m) + i] = n[i]
    <3>1. IsSequence(m) /\ IsSequence(n)
        BY <1>5
    <3> QED BY <3>1, ConcatSequence
  <2> HIDE DEF b
  <2> QED BY <1>5, <2>1
<1> HIDE DEF b
<1>7. ASSUME NEW i \in 1..Len(a) PROVE a[i] = b[i]
  <2>1. Len(k) \in Nat /\ Len(l) \in Nat
      BY <1>3, SequenceParts
  <2>2. CASE i <= Len(k)
    <3>1. i \in 1..Len(k) /\ i \in 1..Len(u)
        BY <1>4, <1>5, <2>1, <2>2
    <3> QED BY <1>4, <1>5, <1>6, <3>1
  <2>3. CASE ~(i <= Len(k))
    <3>1. PICK j \in 1..Len(l) : i = Len(k) + j
      <4>1. i - Len(k) \in 1..Len(l) /\ i = Len(k) + (i - Len(k))
          BY <1>4, <1>5, <2>1, <2>3
      <4> QED BY <4>1
    <3>2. u[i] = l[j] /\ b[i] = n[j] /\ i \in 1..Len(u)
        BY <1>4, <1>5, <1>6, <3>1
    <3> QED BY <1>5, <3>2
  <2> QED BY <2>2, <2>3
<1>8. a = b
    BY <1>4, <1>5, <1>6, <1>7, SameSequence
<1> QED BY <1>2, <1>8 DEF Image, a, b, u, m, n, k, l

\* The images of joined sequences are the images of each, joined.
Images(ss, im) == [i \in 1..Len(ss) |-> Image(ss[i], im)]

\* They are sequences over the targets.
LEMMA ImagesTyped ==
    ASSUME NEW E, NEW ss \in Seq(Seq(E)), NEW im
    PROVE  /\ Images(ss, im) \in Seq(Seq(Targets(im))) /\ Len(Images(ss, im)) = Len(ss)
           /\ \A i \in 1..Len(ss) : Images(ss, im)[i] = Image(ss[i], im)
<1> DEFINE t == Images(ss, im)
           S == Seq(Targets(im))
<1>1. Len(ss) \in Nat /\ \A i \in 1..Len(ss) : ss[i] \in Seq(E)
    BY Elements
<1>2. t = [i \in 1..Len(ss) |-> t[i]] /\ \A i \in 1..Len(ss) : t[i] = Image(ss[i], im)
    BY DEF Images
<1>3. \A i \in 1..Len(ss) : t[i] \in S
  <2> TAKE i \in 1..Len(ss)
  <2>1. IsSequence(ss[i])
      BY <1>1, Sequences
  <2> QED BY <1>2, <2>1, ImageSequence
<1> HIDE DEF t, S
<1>4. IsSequence(t) /\ Len(t) = Len(ss) /\ ToSet(t) \subseteq S
  <2>1. IsSequence(t) /\ Len(t) = Len(ss) /\ ToSet(t) = {t[i] : i \in 1..Len(ss)}
      BY <1>1, <1>2, Numbered
  <2> QED BY <1>3, <2>1
<1>5. t \in Seq(S)
    BY <1>4, SeqMonotonic DEF IsSequence
<1> QED BY <1>2, <1>4, <1>5 DEF t, S

\* Joining and taking images commute.
LEMMA ImageFlat ==
    ASSUME NEW E, NEW ss \in Seq(Seq(E)), NEW im
    PROVE  Image(FlattenSeq(ss), im) = FlattenSeq(Images(ss, im))
<1> DEFINE S == Seq(E)
           F == Targets(im)
           Good == {rr \in Seq(S) : Image(FlattenSeq(rr), im) = FlattenSeq(Images(rr, im))}
<1>1. <<>> \in Good
  <2>1. <<>> \in Seq(S) /\ Len(<<>>) = 0
    <3> HIDE DEF S
    <3> QED BY EmptySeq
  <2>2. Images(<<>>, im) = <<>>
    <3>1. Images(<<>>, im) \in Seq(Seq(F)) /\ Len(Images(<<>>, im)) = 0
      <4>1. <<>> \in Seq(Seq(E))
          BY EmptySeq
      <4> QED BY <2>1, <4>1, ImagesTyped
    <3> HIDE DEF F
    <3> QED BY <3>1, EmptySeq
  <2> HIDE DEF S
  <2> QED BY <2>1, <2>2, FlatNone, ImageNone
<1>2. ASSUME NEW rr \in Seq(S), rr \in Good, NEW t \in S PROVE Append(rr, t) \in Good
  <2>1. FlattenSeq(rr) \in Seq(E) /\ FlattenSeq(Append(rr, t)) = FlattenSeq(rr) \o t
      BY FlatAppend
  <2>2. /\ Append(rr, t) \in Seq(S) /\ Len(Append(rr, t)) = Len(rr) + 1 /\ Len(rr) \in Nat
        /\ \A i \in 1..Len(rr) : Append(rr, t)[i] = rr[i]
        /\ Append(rr, t)[Len(rr) + 1] = t
    <3> HIDE DEF S
    <3> QED BY Appended, Elements
  <2>3. Image(FlattenSeq(rr) \o t, im) = Image(FlattenSeq(rr), im) \o Image(t, im)
    <3>1. PICK f \in Seq(E) : f = FlattenSeq(rr)
        BY <2>1
    <3>2. IsSequence(f) /\ IsSequence(t)
        BY Sequences
    <3>3. Image(f \o t, im) = Image(f, im) \o Image(t, im)
        BY <3>2, ImageConcat
    <3> QED BY <3>1, <3>3
  <2>4. /\ Images(rr, im) \in Seq(Seq(F)) /\ Len(Images(rr, im)) = Len(rr)
        /\ \A i \in 1..Len(rr) : Images(rr, im)[i] = Image(rr[i], im)
      BY ImagesTyped
  <2>5. Image(t, im) \in Seq(F)
      BY Sequences, ImageSequence
  <2> DEFINE a == Images(Append(rr, t), im)
             b == Append(Images(rr, im), Image(t, im))
             G == Seq(F)
  <2>6. /\ a \in Seq(Seq(F)) /\ Len(a) = Len(rr) + 1
        /\ \A i \in 1..(Len(rr) + 1) : a[i] = Image(Append(rr, t)[i], im)
      BY <2>2, ImagesTyped
  <2>7. /\ b \in Seq(G) /\ Len(b) = Len(rr) + 1
        /\ \A i \in 1..Len(rr) : b[i] = Images(rr, im)[i]
        /\ b[Len(rr) + 1] = Image(t, im)
    <3>1. PICK r, v : r = Images(rr, im) /\ v = Image(t, im)
        OBVIOUS
    <3>2. r \in Seq(G) /\ v \in G /\ Len(r) = Len(rr)
        BY <2>4, <2>5, <3>1
    <3>3. /\ Append(r, v) \in Seq(G) /\ Len(Append(r, v)) = Len(r) + 1
          /\ \A i \in 1..Len(r) : Append(r, v)[i] = r[i]
          /\ Append(r, v)[Len(r) + 1] = v
      <4> HIDE DEF G
      <4> QED BY <3>2, Appended
    <3> QED BY <3>1, <3>2, <3>3
  <2>8. a = b
    <3>1. a \in Seq(G)
        BY <2>6
    <3>2. \A i \in 1..(Len(rr) + 1) : a[i] = b[i]
      <4> HIDE DEF a, b, S, G, F
      <4> TAKE i \in 1..(Len(rr) + 1)
      <4>1. CASE i = Len(rr) + 1
          BY <2>2, <2>6, <2>7, <4>1
      <4>2. CASE i # Len(rr) + 1
        <5>1. i \in 1..Len(rr)
            BY <2>2, <4>2
        <5> QED BY <2>2, <2>4, <2>6, <2>7, <5>1
      <4> QED BY <4>1, <4>2
    <3> HIDE DEF a, b, G
    <3> QED BY <2>6, <2>7, <3>1, <3>2, SeqEqual
  <2>9. FlattenSeq(b) = FlattenSeq(Images(rr, im)) \o Image(t, im)
      BY <2>4, <2>5, FlatAppend
  <2>10. Image(FlattenSeq(rr), im) = FlattenSeq(Images(rr, im))
      BY <1>2
  <2>11. Image(FlattenSeq(Append(rr, t)), im) = FlattenSeq(a)
    <3> HIDE DEF a, b, S, F
    <3> QED BY <2>1, <2>3, <2>8, <2>9, <2>10
  <2> QED BY <2>2, <2>11
<1>3. Seq(S) \subseteq Good
  <2> HIDE DEF Good, S
  <2> QED BY <1>1, <1>2, AlongSequences
<1> QED BY <1>3

-----------------------------------------------------------------------------
(***************************************************************************)
(* Sorting: sorted, the heap of a sorted page, and numbers in order.       *)
(***************************************************************************)

\* A set of numbers up to one has a least one.
LEMMA LeastIn ==
    ASSUME NEW n \in Nat, NEW S, S \subseteq 1..n, S # {}
    PROVE  Min(S) \in S /\ \A y \in S : Min(S) <= y
<1> DEFINE Below(k) == (\E x \in S : x <= k) => \E m \in S : \A y \in S : m <= y
           K == {k \in 0..n : Below(k)}
<1>1. 0 \in K
    OBVIOUS
<1>2. \A k \in 0..(n - 1) : k \in K => k + 1 \in K
  <2> TAKE k \in 0..(n - 1)
  <2> HAVE k \in K
  <2>1. Below(k + 1)
    <3>1. SUFFICES ASSUME NEW x \in S, x <= k + 1, ~\E z \in S : z <= k
                   PROVE  \E m \in S : \A y \in S : m <= y
        BY DEF K
    <3>2. \A y \in S : x <= y
        BY <3>1
    <3> QED BY <3>2
  <2> QED BY <2>1
<1>3. n \in K
  <2>1. 0..n \subseteq K
    <3> HIDE DEF K
    <3> QED BY <1>1, <1>2, UpTo
  <2> QED BY <2>1
<1>4. \E x \in S : x <= n
  <2>1. \A x \in S : x \in 1..n
      OBVIOUS
  <2>2. \A x \in 1..n : x <= n
      OBVIOUS
  <2> QED BY <2>1, <2>2
<1>5. \E m \in S : \A y \in S : m <= y
    BY <1>3, <1>4
<1> QED BY <1>5 DEF Min

\* Where an element is put, and the list with it.
LaterOf(s, x, key) == {i \in 1..Len(s) : Precedes(key[x], key[s[i]])}

PlacedAt(p, s, x, key) ==
    /\ p \in 1..(Len(s) + 1)
    /\ \A i \in 1..Len(s) : i < p => i \notin LaterOf(s, x, key)
    /\ p <= Len(s) => p \in LaterOf(s, x, key)

\* Place is such a place.
LEMMA PlaceIs ==
    ASSUME NEW E, NEW s \in Seq(E), NEW x, NEW key
    PROVE  PlacedAt(Place(s, x, key), s, x, key)
<1> DEFINE later == LaterOf(s, x, key)
<1>1. Len(s) \in Nat /\ DOMAIN s = 1..Len(s)
    BY Elements
<1>2. Place(s, x, key) = IF later = {} THEN Len(s) + 1 ELSE Min(later)
    BY <1>1 DEF Place, LaterOf
<1>3. later \subseteq 1..Len(s)
    BY DEF LaterOf
<1> HIDE DEF later
<1>4. CASE later = {}
    BY <1>1, <1>2, <1>4 DEF PlacedAt, later
<1>5. CASE later # {}
  <2>1. Min(later) \in later /\ \A y \in later : Min(later) <= y
      BY <1>1, <1>3, <1>5, LeastIn
  <2>2. PICK m : m = Min(later)
      OBVIOUS
  <2>3. m \in 1..(Len(s) + 1) /\ \A i \in 1..Len(s) : i < m => i \notin later
    <3>1. m \in 1..Len(s) /\ \A y \in later : m <= y
        BY <1>3, <2>1, <2>2
    <3>2. \A y \in later : y \in 1..Len(s)
        BY <1>3
    <3> QED BY <1>1, <3>1, <3>2
  <2>4. Place(s, x, key) = m /\ m \in later
      BY <1>2, <1>5, <2>1, <2>2
  <2> QED BY <2>3, <2>4 DEF PlacedAt, later
<1> QED BY <1>4, <1>5

\* One place only is such.
LEMMA OnePlace ==
    ASSUME NEW E, NEW s \in Seq(E), NEW x, NEW key, NEW p, NEW q, PlacedAt(p, s, x, key), PlacedAt(q, s, x, key)
    PROVE  p = q
<1>1. Len(s) \in Nat
    BY Elements
<1>2. p \in 1..(Len(s) + 1) /\ q \in 1..(Len(s) + 1)
    BY DEF PlacedAt
<1>3. ~(p < q)
    BY <1>1, <1>2 DEF PlacedAt
<1>4. ~(q < p)
    BY <1>1, <1>2 DEF PlacedAt
<1> QED BY <1>1, <1>2, <1>3, <1>4

InsertedAt(t, p, s, x) ==
    /\ Len(t) = Len(s) + 1 /\ t[p] = x
    /\ \A i \in 1..Len(s) : i < p => t[i] = s[i]
    /\ \A i \in 1..Len(s) : i >= p => t[i + 1] = s[i]

\* Inserted puts the element there.
LEMMA InsertIs ==
    ASSUME NEW E, NEW s \in Seq(E), NEW x \in E, NEW key
    PROVE  /\ Inserted(s, x, key) \in Seq(E)
           /\ InsertedAt(Inserted(s, x, key), Place(s, x, key), s, x)
<1>1. PICK p : p = Place(s, x, key)
    OBVIOUS
<1>2. Len(s) \in Nat /\ p \in 1..(Len(s) + 1) /\ \A i \in 1..Len(s) : s[i] \in E
    BY <1>1, PlaceIs, Elements DEF PlacedAt
<1>3. p \in Int /\ p - 1 \in Int /\ Len(s) \in Int /\ 1 \in Int
    BY <1>2
<1> DEFINE a == SubSeq(s, 1, p - 1)
           b == SubSeq(s, p, Len(s))
           m == a \o <<x>>
           t == m \o b
<1>4. a \in Seq(E) /\ Len(a) = p - 1 /\ \A i \in 1..(p - 1) : a[i] = s[i]
  <2>1. \A i \in 1..(p - 1) : s[i] \in E
      BY <1>2
  <2>2. /\ a \in Seq(E) /\ Len(a) = IF 1 <= p - 1 THEN p - 1 - 1 + 1 ELSE 0
        /\ \A i \in 1..(p - 1 - 1 + 1) : a[i] = s[1 + i - 1]
      BY <1>3, <2>1, SubSeqProperties
  <2> HIDE DEF a
  <2> QED BY <1>2, <2>2
<1>5. b \in Seq(E) /\ Len(b) = Len(s) - p + 1 /\ \A i \in 1..(Len(s) - p + 1) : b[i] = s[p + i - 1]
  <2>1. \A i \in p..Len(s) : s[i] \in E
      BY <1>2
  <2>2. /\ b \in Seq(E) /\ Len(b) = IF p <= Len(s) THEN Len(s) - p + 1 ELSE 0
        /\ \A i \in 1..(Len(s) - p + 1) : b[i] = s[p + i - 1]
      BY <1>3, <2>1, SubSeqProperties
  <2> HIDE DEF b
  <2> QED BY <1>2, <2>2
<1>6. Inserted(s, x, key) = t
    BY <1>1 DEF Inserted, InsertAt
<1> HIDE DEF a, b
<1>7. m \in Seq(E) /\ Len(m) = p /\ \A i \in 1..p : m[i] = IF i <= p - 1 THEN a[i] ELSE x
  <2>1. <<x>> \in Seq(E) /\ Len(<<x>>) = 1 /\ <<x>>[1] = x
      OBVIOUS
  <2>2. /\ m \in Seq(E) /\ Len(m) = Len(a) + 1
        /\ \A i \in 1..(Len(a) + 1) : m[i] = IF i <= Len(a) THEN a[i] ELSE <<x>>[i - Len(a)]
      BY <1>4, <2>1, ConcatProperties
  <2> HIDE DEF m
  <2>3. Len(a) + 1 = p
      BY <1>2, <1>4
  <2>4. ASSUME NEW i \in 1..p PROVE m[i] = IF i <= p - 1 THEN a[i] ELSE x
    <3>1. m[i] = IF i <= Len(a) THEN a[i] ELSE <<x>>[i - Len(a)]
        BY <2>2, <2>3
    <3>2. i <= p - 1 => i <= Len(a)
        BY <1>4
    <3>3. ~(i <= p - 1) => ~(i <= Len(a)) /\ i - Len(a) = 1
        BY <1>2, <1>4
    <3> QED BY <2>1, <3>1, <3>2, <3>3
  <2> QED BY <2>2, <2>3, <2>4
<1> HIDE DEF m
<1>8. t \in Seq(E) /\ Len(t) = Len(s) + 1 /\ \A i \in 1..(Len(s) + 1) : t[i] = IF i <= p THEN m[i] ELSE b[i - p]
  <2>1. /\ t \in Seq(E) /\ Len(t) = Len(m) + Len(b)
        /\ \A i \in 1..(Len(m) + Len(b)) : t[i] = IF i <= Len(m) THEN m[i] ELSE b[i - Len(m)]
      BY <1>5, <1>7, ConcatProperties
  <2> HIDE DEF t
  <2> QED BY <1>2, <1>5, <1>7, <2>1
<1> HIDE DEF t
<1>9. t[p] = x
    BY <1>2, <1>7, <1>8
<1>10. \A i \in 1..Len(s) : i < p => t[i] = s[i]
    BY <1>2, <1>4, <1>7, <1>8
<1>11. \A i \in 1..Len(s) : i >= p => t[i + 1] = s[i]
  <2> TAKE i \in 1..Len(s)
  <2> HAVE i >= p
  <2>1. PICK j : j = i + 1 - p
      OBVIOUS
  <2>2. i + 1 \in 1..(Len(s) + 1) /\ ~(i + 1 <= p) /\ j \in 1..(Len(s) - p + 1) /\ p + j - 1 = i
      BY <1>2, <2>1
  <2>3. t[i + 1] = b[j]
    <3>1. PICK k : k = i + 1
        OBVIOUS
    <3>2. k \in 1..(Len(s) + 1) /\ ~(k <= p) /\ j = k - p
        BY <1>2, <2>1, <2>2, <3>1
    <3>3. t[k] = b[k - p]
        BY <1>8, <3>2
    <3> QED BY <3>1, <3>2, <3>3
  <2> QED BY <1>5, <2>2, <2>3
<1> QED BY <1>1, <1>6, <1>8, <1>9, <1>10, <1>11 DEF InsertedAt

\* One element more is inserted.
LEMMA InsertTyped ==
    ASSUME NEW E, NEW s \in Seq(E), NEW x \in E, NEW key
    PROVE  /\ Inserted(s, x, key) \in Seq(E) /\ Len(Inserted(s, x, key)) = Len(s) + 1
           /\ ToSet(Inserted(s, x, key)) = ToSet(s) \cup {x}
<1> DEFINE t == Inserted(s, x, key)
<1>1. PICK p : p = Place(s, x, key)
    OBVIOUS
<1>2. /\ p \in 1..(Len(s) + 1) /\ Len(s) \in Nat /\ ToSet(s) = {s[i] : i \in 1..Len(s)}
    BY <1>1, PlaceIs, Elements DEF PlacedAt
<1>3. t \in Seq(E) /\ InsertedAt(t, p, s, x)
    BY <1>1, InsertIs
<1> HIDE DEF t
<1>4. /\ Len(t) = Len(s) + 1 /\ t[p] = x
      /\ \A i \in 1..Len(s) : i < p => t[i] = s[i]
      /\ \A i \in 1..Len(s) : i >= p => t[i + 1] = s[i]
    BY <1>3 DEF InsertedAt
<1>5. ToSet(t) = {t[i] : i \in 1..(Len(s) + 1)}
    BY <1>3, <1>4, Elements
<1>6. ASSUME NEW i \in 1..(Len(s) + 1) PROVE t[i] \in ToSet(s) \cup {x}
  <2>1. CASE i < p
      BY <1>2, <1>4, <2>1
  <2>2. CASE i = p
      BY <1>4, <2>2
  <2>3. CASE i > p
    <3>1. PICK j : j = i - 1
        OBVIOUS
    <3>2. j \in 1..Len(s) /\ j >= p /\ j + 1 = i
        BY <1>2, <2>3, <3>1
    <3>3. t[j + 1] = s[j]
        BY <1>4, <3>2
    <3> QED BY <1>2, <3>2, <3>3
  <2> QED BY <1>2, <2>1, <2>2, <2>3
<1>7. x \in ToSet(t)
    BY <1>2, <1>4, <1>5
<1>8. ASSUME NEW i \in 1..Len(s) PROVE s[i] \in ToSet(t)
  <2>1. CASE i < p
    <3>1. i \in 1..(Len(s) + 1)
        BY <1>2
    <3> QED BY <1>4, <1>5, <2>1, <3>1
  <2>2. CASE ~(i < p)
    <3>1. i + 1 \in 1..(Len(s) + 1) /\ i >= p
        BY <1>2, <2>2
    <3> QED BY <1>4, <1>5, <3>1
  <2> QED BY <2>1, <2>2
<1>9. ToSet(t) = ToSet(s) \cup {x}
    BY <1>2, <1>5, <1>6, <1>7, <1>8
<1> QED BY <1>3, <1>4, <1>9 DEF t

\* The lists that are sorted one after the other.
Sorting(sorted, s, key, T) ==
    /\ sorted \in [0..Len(s) -> T] /\ sorted[0] = <<>>
    /\ \A k \in 1..Len(s) : sorted[k] = Inserted(sorted[k - 1], s[k], key)

\* Sorted is the last of them.
LEMMA SortedRuns ==
    ASSUME NEW E, NEW s \in Seq(E), NEW key
    PROVE  \E sorted : Sorting(sorted, s, key, Seq(E)) /\ Sorted(s, key) = sorted[Len(s)]
<1> DEFINE n == Len(s)
           T == Seq(E)
           Put(k, t) == Inserted(t, s[k], key)
           step == [p \in (1..n) \X T |-> Put(p[1], p[2])]
           base == <<>>
<1>1. n \in Nat /\ base \in T /\ \A i \in 1..n : s[i] \in E
    BY Elements
<1>2. step \in [(1..n) \X T -> T]
  <2>1. \A k \in 1..n, t \in T : Put(k, t) \in T
      BY <1>1, InsertTyped
  <2> HIDE DEF T, Put, n
  <2> QED BY <2>1
<1>3. \A k \in 1..n, t \in T : step[<<k, t>>] = Put(k, t)
  <2> HIDE DEF Put, T, n
  <2> QED OBVIOUS
<1>4. PICK f : Values(f, n, T, base, step)
  <2> HIDE DEF n, T, step, base
  <2>1. Recursive(T, base, n, step)
      BY <1>1, <1>2 DEF Recursive
  <2> QED BY <2>1, Recursed
<1>5. \A k \in 1..n : f[k] = Put(k, f[k - 1])
  <2> HIDE DEF n, T, step, Put
  <2> QED BY <1>3, <1>4 DEF Values
<1> DEFINE Run(g) == g = [k \in 0..n |-> IF k = 0 THEN <<>> ELSE Inserted(g[k - 1], s[k], key)]
<1>6. Run(f)
  <2>1. \A k \in 0..n : f[k] = IF k = 0 THEN <<>> ELSE Put(k, f[k - 1])
    <3>1. \A k \in 0..n : k = 0 \/ k \in 1..n
        BY <1>1
    <3> HIDE DEF n, T, step, Put
    <3> QED BY <1>4, <1>5, <3>1 DEF Values
  <2>2. f = [k \in 0..n |-> f[k]]
    <3> HIDE DEF n, T, step
    <3> QED BY <1>4 DEF Values
  <2> HIDE DEF step, T, n
  <2> QED BY <2>1, <2>2
<1> DEFINE sorted == CHOOSE g : Run(g)
<1>7. Run(sorted)
  <2> HIDE DEF Run
  <2> QED BY <1>6
<1>8. Sorted(s, key) = sorted[n]
    BY DEF Sorted
<1> HIDE DEF sorted
<1>9. sorted[0] = base /\ \A k \in 1..n : sorted[k] = Put(k, sorted[k - 1])
  <2>1. 0 \in 0..n /\ \A k \in 1..n : k \in 0..n /\ k # 0
      BY <1>1
  <2> HIDE DEF n
  <2> QED BY <1>7, <2>1
<1>10. \A k \in 0..n : sorted[k] = f[k]
  <2> HIDE DEF n, T, Put, step, Run
  <2>1. Alongside(sorted, f, n)
      BY <1>1, <1>4, <1>5, <1>9 DEF Alongside, Values
  <2> QED BY <2>1, GoOnAlike
<1>11. sorted \in [0..n -> T]
  <2>1. sorted = [k \in 0..n |-> sorted[k]]
    <3> HIDE DEF n
    <3> QED BY <1>7
  <2> HIDE DEF n, T, Put, step, Run
  <2> QED BY <1>4, <1>10, <2>1 DEF Values
<1> QED BY <1>8, <1>9, <1>11 DEF Sorting

\* Nothing is sorted.
LEMMA SortedNone == \A key : Sorted(<<>>, key) = <<>>
<1> TAKE key
<1>1. <<>> \in Seq({}) /\ Len(<<>>) = 0
    OBVIOUS
<1>2. PICK f : Sorting(f, <<>>, key, Seq({})) /\ Sorted(<<>>, key) = f[Len(<<>>)]
    BY <1>1, SortedRuns
<1> QED BY <1>1, <1>2 DEF Sorting

\* Sorted inserts the last element into the others.
LEMMA SortedAppend ==
    ASSUME NEW E, NEW s \in Seq(E), NEW e \in E, NEW key
    PROVE  Sorted(s, key) \in Seq(E) /\ Sorted(Append(s, e), key) = Inserted(Sorted(s, key), e, key)
<1> DEFINE t == Append(s, e)
           n == Len(s)
           T == Seq(E)
<1>1. n \in Nat /\ t \in Seq(E) /\ Len(t) = n + 1 /\ t[n + 1] = e /\ \A i \in 1..n : t[i] = s[i]
    BY Elements, Appended
<1>2. PICK f : Sorting(f, s, key, T) /\ Sorted(s, key) = f[n]
    BY SortedRuns
<1> HIDE DEF t
<1>3. PICK g : Sorting(g, t, key, T) /\ Sorted(t, key) = g[n + 1]
    BY <1>1, SortedRuns
<1>4. /\ f \in [0..n -> T] /\ f[0] = <<>>
      /\ \A k \in 1..n : f[k] = Inserted(f[k - 1], s[k], key)
    BY <1>2 DEF Sorting
<1>5. g[0] = <<>> /\ \A k \in 1..(n + 1) : g[k] = Inserted(g[k - 1], t[k], key)
    BY <1>1, <1>3 DEF Sorting
<1> HIDE DEF n, T
<1>6. \A k \in 0..n : f[k] = g[k]
  <2>1. \A k \in 1..n : f[k - 1] = g[k - 1] => f[k] = g[k]
    <3>1. \A k \in 1..n : k \in 1..(n + 1)
        BY <1>1
    <3> QED BY <1>1, <1>4, <1>5, <3>1
  <2>2. Alongside(f, g, n)
      BY <1>1, <1>4, <1>5, <2>1 DEF Alongside
  <2> QED BY <2>2, GoOnAlike
<1>7. n + 1 \in 1..(n + 1) /\ (n + 1) - 1 = n /\ n \in 0..n
    BY <1>1
<1>8. g[n + 1] = Inserted(g[n], e, key)
  <2>1. PICK j : j = n + 1
      OBVIOUS
  <2>2. g[j] = Inserted(g[j - 1], t[j], key)
      BY <1>5, <1>7, <2>1
  <2> QED BY <1>1, <1>7, <2>1, <2>2
<1> QED BY <1>2, <1>3, <1>4, <1>6, <1>7, <1>8 DEF t, T

\* Sorting keeps the elements.
LEMMA SortedTyped ==
    ASSUME NEW E, NEW s \in Seq(E), NEW key
    PROVE  /\ Sorted(s, key) \in Seq(E) /\ Len(Sorted(s, key)) = Len(s)
           /\ ToSet(Sorted(s, key)) = ToSet(s)
<1> DEFINE Good == {r \in Seq(E) : /\ Sorted(r, key) \in Seq(E) /\ Len(Sorted(r, key)) = Len(r)
                                   /\ ToSet(Sorted(r, key)) = ToSet(r)}
<1>1. <<>> \in Good
  <2>1. <<>> \in Seq(E) /\ Sorted(<<>>, key) = <<>>
      BY SortedNone, EmptySeq
  <2> QED BY <2>1
<1>2. ASSUME NEW r \in Seq(E), r \in Good, NEW e \in E PROVE Append(r, e) \in Good
  <2>1. Sorted(r, key) \in Seq(E) /\ Len(Sorted(r, key)) = Len(r) /\ ToSet(Sorted(r, key)) = ToSet(r)
      BY <1>2
  <2>2. Sorted(Append(r, e), key) = Inserted(Sorted(r, key), e, key)
      BY SortedAppend
  <2>3. /\ Inserted(Sorted(r, key), e, key) \in Seq(E) /\ Len(Inserted(Sorted(r, key), e, key)) = Len(Sorted(r, key)) + 1
        /\ ToSet(Inserted(Sorted(r, key), e, key)) = ToSet(Sorted(r, key)) \cup {e}
      BY <2>1, InsertTyped
  <2>4. Append(r, e) \in Seq(E) /\ Len(Append(r, e)) = Len(r) + 1 /\ ToSet(Append(r, e)) = ToSet(r) \cup {e}
      BY Appended
  <2> QED BY <2>1, <2>2, <2>3, <2>4
<1>3. Seq(E) \subseteq Good
  <2> HIDE DEF Good
  <2> QED BY <1>1, <1>2, AlongSequences
<1> QED BY <1>3

\* Sorting keeps the elements of a list.
LEMMA SortedSequence ==
    ASSUME NEW s, IsSequence(s), NEW key
    PROVE  /\ IsSequence(Sorted(s, key)) /\ Len(Sorted(s, key)) = Len(s)
           /\ ToSet(Sorted(s, key)) = ToSet(s)
    BY SortedTyped, Sequences DEF IsSequence

\* A row is offered to a heap.
LEMMA OfferTyped ==
    ASSUME NEW E, NEW s \in Seq(E), NEW x \in E, NEW capacity \in Nat, NEW key
    PROVE  Offer(s, x, capacity, key) \in Seq(E)
<1>1. Inserted(s, x, key) \in Seq(E)
    BY InsertTyped
<1> QED BY <1>1, FirstKeeps DEF Offer

\* What a heap holds after each row.
Heaping(heap, s, capacity, key, T) ==
    /\ heap \in [0..Len(s) -> T] /\ heap[0] = <<>>
    /\ \A k \in 1..Len(s) : heap[k] = Offer(heap[k - 1], s[k], capacity, key)

\* Heap is the last of them.
LEMMA HeapRuns ==
    ASSUME NEW E, NEW s \in Seq(E), NEW capacity \in Nat, NEW key
    PROVE  \E heap : Heaping(heap, s, capacity, key, Seq(E)) /\ Heap(s, capacity, key) = heap[Len(s)]
<1> DEFINE n == Len(s)
           T == Seq(E)
           Put(k, t) == Offer(t, s[k], capacity, key)
           step == [p \in (1..n) \X T |-> Put(p[1], p[2])]
           base == <<>>
<1>1. n \in Nat /\ base \in T /\ \A i \in 1..n : s[i] \in E
    BY Elements
<1>2. step \in [(1..n) \X T -> T]
  <2>1. \A k \in 1..n, t \in T : Put(k, t) \in T
      BY <1>1, OfferTyped
  <2> HIDE DEF T, Put, n
  <2> QED BY <2>1
<1>3. \A k \in 1..n, t \in T : step[<<k, t>>] = Put(k, t)
  <2> HIDE DEF Put, T, n
  <2> QED OBVIOUS
<1>4. PICK f : Values(f, n, T, base, step)
  <2> HIDE DEF n, T, step, base
  <2>1. Recursive(T, base, n, step)
      BY <1>1, <1>2 DEF Recursive
  <2> QED BY <2>1, Recursed
<1>5. \A k \in 1..n : f[k] = Put(k, f[k - 1])
  <2> HIDE DEF n, T, step, Put
  <2> QED BY <1>3, <1>4 DEF Values
<1> DEFINE Run(g) == g = [k \in 0..n |-> IF k = 0 THEN <<>> ELSE Offer(g[k - 1], s[k], capacity, key)]
<1>6. Run(f)
  <2>1. \A k \in 0..n : f[k] = IF k = 0 THEN <<>> ELSE Put(k, f[k - 1])
    <3>1. \A k \in 0..n : k = 0 \/ k \in 1..n
        BY <1>1
    <3> HIDE DEF n, T, step, Put
    <3> QED BY <1>4, <1>5, <3>1 DEF Values
  <2>2. f = [k \in 0..n |-> f[k]]
    <3> HIDE DEF n, T, step
    <3> QED BY <1>4 DEF Values
  <2> HIDE DEF step, T, n
  <2> QED BY <2>1, <2>2
<1> DEFINE heap == CHOOSE g : Run(g)
<1>7. Run(heap)
  <2> HIDE DEF Run
  <2> QED BY <1>6
<1>8. Heap(s, capacity, key) = heap[n]
    BY DEF Heap
<1> HIDE DEF heap
<1>9. heap[0] = base /\ \A k \in 1..n : heap[k] = Put(k, heap[k - 1])
  <2>1. 0 \in 0..n /\ \A k \in 1..n : k \in 0..n /\ k # 0
      BY <1>1
  <2> HIDE DEF n
  <2> QED BY <1>7, <2>1
<1>10. \A k \in 0..n : heap[k] = f[k]
  <2> HIDE DEF n, T, Put, step, Run
  <2>1. Alongside(heap, f, n)
      BY <1>1, <1>4, <1>5, <1>9 DEF Alongside, Values
  <2> QED BY <2>1, GoOnAlike
<1>11. heap \in [0..n -> T]
  <2>1. heap = [k \in 0..n |-> heap[k]]
    <3> HIDE DEF n
    <3> QED BY <1>7
  <2> HIDE DEF n, T, Put, step, Run
  <2> QED BY <1>4, <1>10, <2>1 DEF Values
<1> QED BY <1>8, <1>9, <1>11 DEF Heaping

\* A heap to which nothing is offered is empty.
LEMMA HeapNone == \A capacity \in Nat : \A key : Heap(<<>>, capacity, key) = <<>>
<1> TAKE capacity \in Nat
<1> TAKE key
<1>1. <<>> \in Seq({}) /\ Len(<<>>) = 0
    OBVIOUS
<1>2. PICK f : Heaping(f, <<>>, capacity, key, Seq({})) /\ Heap(<<>>, capacity, key) = f[Len(<<>>)]
    BY <1>1, HeapRuns, ZenonT(60)
<1> QED BY <1>1, <1>2 DEF Heaping

\* Heap offers the last row to what it holds of the others.
LEMMA HeapAppend ==
    ASSUME NEW E, NEW s \in Seq(E), NEW e \in E, NEW capacity \in Nat, NEW key
    PROVE  Heap(s, capacity, key) \in Seq(E) /\ Heap(Append(s, e), capacity, key) = Offer(Heap(s, capacity, key), e, capacity, key)
<1> DEFINE t == Append(s, e)
           n == Len(s)
           T == Seq(E)
<1>1. n \in Nat /\ t \in Seq(E) /\ Len(t) = n + 1 /\ t[n + 1] = e /\ \A i \in 1..n : t[i] = s[i]
    BY Elements, Appended
<1>2. PICK f : Heaping(f, s, capacity, key, T) /\ Heap(s, capacity, key) = f[n]
    BY HeapRuns
<1> HIDE DEF t
<1>3. PICK g : Heaping(g, t, capacity, key, T) /\ Heap(t, capacity, key) = g[n + 1]
    BY <1>1, HeapRuns
<1>4. /\ f \in [0..n -> T] /\ f[0] = <<>>
      /\ \A k \in 1..n : f[k] = Offer(f[k - 1], s[k], capacity, key)
    BY <1>2 DEF Heaping
<1>5. g[0] = <<>> /\ \A k \in 1..(n + 1) : g[k] = Offer(g[k - 1], t[k], capacity, key)
    BY <1>1, <1>3 DEF Heaping
<1> HIDE DEF n, T
<1>6. \A k \in 0..n : f[k] = g[k]
  <2>1. \A k \in 1..n : f[k - 1] = g[k - 1] => f[k] = g[k]
    <3>1. \A k \in 1..n : k \in 1..(n + 1)
        BY <1>1
    <3> QED BY <1>1, <1>4, <1>5, <3>1
  <2>2. Alongside(f, g, n)
      BY <1>1, <1>4, <1>5, <2>1 DEF Alongside
  <2> QED BY <2>2, GoOnAlike
<1>7. n + 1 \in 1..(n + 1) /\ (n + 1) - 1 = n /\ n \in 0..n
    BY <1>1
<1>8. g[n + 1] = Offer(g[n], e, capacity, key)
  <2>1. PICK j : j = n + 1
      OBVIOUS
  <2>2. g[j] = Offer(g[j - 1], t[j], capacity, key)
      BY <1>5, <1>7, <2>1
  <2> QED BY <1>1, <1>7, <2>1, <2>2
<1> QED BY <1>2, <1>3, <1>4, <1>6, <1>7, <1>8 DEF t, T

\* The first of a sequence.
Firsts(f, E, s, n) ==
    f \in Seq(E) /\ Len(f) = Least(n, Len(s)) /\ \A i \in 1..Len(f) : f[i] = s[i]

\* First takes those.
LEMMA FirstIs ==
    ASSUME NEW E, NEW s \in Seq(E), NEW n \in Nat
    PROVE  Firsts(First(s, n), E, s, n)
<1>1. PICK m : m = Least(n, Len(s))
    OBVIOUS
<1>2. m \in Nat /\ m <= Len(s) /\ Len(s) \in Nat
    BY <1>1, Elements DEF Least
<1>3. \A i \in 1..m : s[i] \in E
    BY <1>2, Elements
<1> DEFINE f == SubSeq(s, 1, m)
<1>4. f \in Seq(E) /\ Len(f) = IF 1 <= m THEN m - 1 + 1 ELSE 0
    BY <1>2, <1>3, SubSeqProperties
<1>5. \A i \in 1..(m - 1 + 1) : f[i] = s[1 + i - 1]
    BY <1>2, <1>3, SubSeqProperties
<1> HIDE DEF f
<1>6. Len(f) = m /\ \A i \in 1..m : f[i] = s[i]
    BY <1>2, <1>4, <1>5
<1> QED BY <1>1, <1>4, <1>6 DEF First, Firsts, f

\* A row that is dropped from a full heap is none of the first: it does not matter
\* whether rows are dropped before another comes.
LEMMA OfferFirst ==
    ASSUME NEW E, NEW s \in Seq(E), NEW x \in E, NEW capacity \in Nat, NEW key
    PROVE  Offer(First(s, capacity), x, capacity, key) = First(Inserted(s, x, key), capacity)
<1> DEFINE r == First(s, capacity)
           a == Inserted(r, x, key)
           b == Inserted(s, x, key)
           p == Place(s, x, key)
           q == Place(r, x, key)
<1>1. PICK n : n = Len(s)
    OBVIOUS
<1>2. PICK m : m = Len(r)
    OBVIOUS
<1>3. /\ r \in Seq(E) /\ n \in Nat /\ m \in Nat /\ m <= n /\ m = IF capacity < n THEN capacity ELSE n
      /\ \A i \in 1..m : r[i] = s[i]
  <2>1. Firsts(r, E, s, capacity) /\ Len(s) \in Nat
      BY FirstIs, Elements
  <2> HIDE DEF r
  <2> QED BY <1>1, <1>2, <2>1 DEF Least, Firsts
<1>4. PlacedAt(p, s, x, key) /\ PlacedAt(q, r, x, key)
    BY <1>3, PlaceIs
<1>5. InsertedAt(b, p, s, x) /\ b \in Seq(E) /\ InsertedAt(a, q, r, x) /\ a \in Seq(E)
    BY <1>3, InsertIs
<1> HIDE DEF r, a, b, p, q
<1>6. q = IF p <= m THEN p ELSE m + 1
  <2>1. PICK l : l = IF p <= m THEN p ELSE m + 1
      OBVIOUS
  <2>2. \A i \in 1..m : i \in LaterOf(r, x, key) <=> i \in LaterOf(s, x, key)
      BY <1>1, <1>2, <1>3 DEF LaterOf
  <2>3. p \in 1..(n + 1) /\ (\A i \in 1..n : i < p => i \notin LaterOf(s, x, key)) /\ (p <= n => p \in LaterOf(s, x, key))
      BY <1>1, <1>4 DEF PlacedAt
  <2>4. l \in 1..(m + 1) /\ (\A i \in 1..m : i < l => i < p /\ i \in 1..n) /\ (l <= m => l = p /\ p <= n /\ l \in 1..m)
      BY <1>3, <2>1, <2>3
  <2>5. PlacedAt(l, r, x, key)
      BY <1>2, <2>2, <2>3, <2>4 DEF PlacedAt
  <2> QED BY <1>3, <1>4, <2>1, <2>5, OnePlace
<1>7. /\ Len(b) = n + 1 /\ b[p] = x /\ p \in 1..(n + 1)
      /\ \A i \in 1..n : i < p => b[i] = s[i]
      /\ \A i \in 1..n : i >= p => b[i + 1] = s[i]
    BY <1>1, <1>4, <1>5 DEF InsertedAt, PlacedAt
<1>8. /\ Len(a) = m + 1 /\ a[q] = x /\ q \in 1..(m + 1)
      /\ \A i \in 1..m : i < q => a[i] = r[i]
      /\ \A i \in 1..m : i >= q => a[i + 1] = r[i]
    BY <1>2, <1>4, <1>5 DEF InsertedAt, PlacedAt
<1> DEFINE u == First(a, capacity)
           v == First(b, capacity)
<1>9. PICK k : k = IF capacity < n + 1 THEN capacity ELSE n + 1
    OBVIOUS
<1>10. k \in Nat /\ k <= m + 1 /\ k <= n + 1 /\ (k = m + 1 => m = n)
    BY <1>3, <1>9
<1>11. v \in Seq(E) /\ Len(v) = k /\ \A i \in 1..k : v[i] = b[i]
  <2>1. Firsts(v, E, b, capacity)
      BY <1>5, FirstIs
  <2> HIDE DEF v
  <2> QED BY <1>7, <1>9, <2>1 DEF Least, Firsts
<1>12. u \in Seq(E) /\ Len(u) = k /\ \A i \in 1..k : u[i] = a[i]
  <2>1. Least(capacity, m + 1) = k
      BY <1>3, <1>9 DEF Least
  <2>2. Firsts(u, E, a, capacity)
      BY <1>5, FirstIs
  <2> HIDE DEF u
  <2> QED BY <1>8, <2>1, <2>2 DEF Firsts
<1>13. ASSUME NEW i \in 1..k PROVE a[i] = b[i]
  <2>1. CASE i < p
    <3>1. i < q /\ i \in 1..m /\ i \in 1..n
        BY <1>3, <1>6, <1>7, <1>10, <2>1
    <3> QED BY <1>3, <1>7, <1>8, <2>1, <3>1
  <2>2. CASE i = p
    <3>1. q = p
        BY <1>3, <1>6, <1>7, <1>10, <2>2
    <3> QED BY <1>7, <1>8, <2>2, <3>1
  <2>3. CASE i > p
    <3>1. PICK j : j = i - 1
        OBVIOUS
    <3>2. j + 1 = i /\ j \in 1..m /\ j \in 1..n /\ j >= p /\ q = p
        BY <1>3, <1>6, <1>7, <1>10, <2>3, <3>1
    <3>3. a[j + 1] = r[j] /\ b[j + 1] = s[j] /\ r[j] = s[j]
        BY <1>3, <1>7, <1>8, <3>2
    <3> QED BY <3>2, <3>3
  <2> QED BY <1>7, <1>10, <2>1, <2>2, <2>3
<1> HIDE DEF u, v
<1>14. u = v
    BY <1>11, <1>12, <1>13, SeqEqual
<1> QED BY <1>14 DEF Offer, u, v, a, b, r

\* A heap holds the first rows of the sorted list, as many as it may.
LEMMA HeapFirst ==
    ASSUME NEW E, NEW s \in Seq(E), NEW capacity \in Nat, NEW key
    PROVE  Heap(s, capacity, key) = First(Sorted(s, key), capacity)
<1> DEFINE Good == {r \in Seq(E) : Heap(r, capacity, key) = First(Sorted(r, key), capacity)}
<1>1. <<>> \in Good
  <2>1. <<>> \in Seq(E) /\ Len(<<>>) = 0
      BY EmptySeq
  <2>2. First(<<>>, capacity) \in Seq(E) /\ Len(First(<<>>, capacity)) = 0
    <3>1. Firsts(First(<<>>, capacity), E, <<>>, capacity)
        BY <2>1, FirstIs
    <3> QED BY <2>1, <3>1 DEF Least, Firsts
  <2>3. First(<<>>, capacity) = <<>>
      BY <2>2, EmptySeq
  <2> QED BY <2>1, <2>3, SortedNone, HeapNone
<1>2. ASSUME NEW r \in Seq(E), r \in Good, NEW e \in E PROVE Append(r, e) \in Good
  <2>1. Append(r, e) \in Seq(E)
      BY Appended
  <2>2. Sorted(r, key) \in Seq(E) /\ Sorted(Append(r, e), key) = Inserted(Sorted(r, key), e, key)
      BY SortedAppend
  <2>3. Heap(Append(r, e), capacity, key) = Offer(Heap(r, capacity, key), e, capacity, key)
      BY HeapAppend
  <2>4. Heap(r, capacity, key) = First(Sorted(r, key), capacity)
      BY <1>2
  <2>5. Offer(First(Sorted(r, key), capacity), e, capacity, key) = First(Inserted(Sorted(r, key), e, key), capacity)
      BY <2>2, OfferFirst
  <2> QED BY <2>1, <2>2, <2>3, <2>4, <2>5
<1>3. Seq(E) \subseteq Good
  <2> HIDE DEF Good
  <2> QED BY <1>1, <1>2, AlongSequences
<1> QED BY <1>3

\* Keys are pairs of numbers, and a list is in their order.
PairKeyed(key, S) == \A x \in S : key[x][1] \in Int /\ key[x][2] \in Int
Ordered(s, key) == \A i, j \in 1..Len(s) : i < j => ~Precedes(key[s[j]], key[s[i]])

\* An element inserted in its place keeps the order.
LEMMA InsertOrdered ==
    ASSUME NEW E, NEW s \in Seq(E), NEW x \in E, NEW key, PairKeyed(key, E), Ordered(s, key)
    PROVE  Ordered(Inserted(s, x, key), key)
<1>1. PICK p, n, t : p = Place(s, x, key) /\ n = Len(s) /\ t = Inserted(s, x, key)
    OBVIOUS
<1>2. PlacedAt(p, s, x, key) /\ InsertedAt(t, p, s, x) /\ n \in Nat /\ \A i \in 1..n : s[i] \in E
    BY <1>1, PlaceIs, InsertIs, Elements
<1>3. /\ Len(t) = n + 1 /\ t[p] = x /\ p \in 1..(n + 1)
      /\ \A i \in 1..n : i < p => t[i] = s[i]
      /\ \A i \in 1..n : i >= p => t[i + 1] = s[i]
    BY <1>1, <1>2 DEF PlacedAt, InsertedAt
<1>4. /\ \A i \in 1..n : i < p => ~Precedes(key[x], key[s[i]])
      /\ p <= n => Precedes(key[x], key[s[p]])
    BY <1>1, <1>2, <1>3 DEF PlacedAt, LaterOf
<1>5. \A i \in 1..(n + 1) : i > p => i - 1 \in 1..n /\ i - 1 >= p /\ t[i] = s[i - 1]
  <2> TAKE i \in 1..(n + 1)
  <2> HAVE i > p
  <2>1. PICK j : j = i - 1
      OBVIOUS
  <2>2. j \in 1..n /\ j >= p /\ j + 1 = i
      BY <1>2, <1>3, <2>1
  <2>3. t[j + 1] = s[j]
      BY <1>3, <2>2
  <2> QED BY <2>1, <2>2, <2>3
<1>6. \A i, j \in 1..n : i < j => ~Precedes(key[s[j]], key[s[i]])
    BY <1>1 DEF Ordered
<1>7. ASSUME NEW i \in 1..(n + 1), NEW j \in 1..(n + 1), i < j PROVE ~Precedes(key[t[j]], key[t[i]])
  <2>1. CASE j < p
      BY <1>2, <1>3, <1>6, <1>7, <2>1
  <2>2. CASE j = p
      BY <1>2, <1>3, <1>4, <1>7, <2>2
  <2>3. CASE j > p /\ i < p
    <3>1. i \in 1..n /\ t[i] = s[i] /\ j - 1 \in 1..n /\ t[j] = s[j - 1] /\ i < j - 1
        BY <1>2, <1>3, <1>5, <1>7, <2>3
    <3> QED BY <1>6, <3>1
  <2>4. CASE j > p /\ i = p
    <3>1. PICK l : l = j - 1
        OBVIOUS
    <3>2. l \in 1..n /\ l >= p /\ t[j] = s[l] /\ p \in 1..n
        BY <1>2, <1>3, <1>5, <2>4, <3>1
    <3>3. Precedes(key[x], key[s[p]]) /\ (l > p => ~Precedes(key[s[l]], key[s[p]]))
        BY <1>4, <1>6, <3>2
    <3>4. PICK a, b, c : a = key[x] /\ b = key[s[p]] /\ c = key[s[l]]
        OBVIOUS
    <3>5. a[1] \in Int /\ a[2] \in Int /\ b[1] \in Int /\ b[2] \in Int /\ c[1] \in Int /\ c[2] \in Int
        BY <1>2, <3>2, <3>4 DEF PairKeyed
    <3>6. Precedes(a, b) /\ (~Precedes(c, b) \/ c = b)
        BY <1>2, <3>2, <3>3, <3>4
    <3>7. ~Precedes(c, a)
        BY <3>5, <3>6 DEF Precedes
    <3> QED BY <1>3, <2>4, <3>2, <3>4, <3>7
  <2>5. CASE j > p /\ i > p
    <3>1. /\ i - 1 \in 1..n /\ t[i] = s[i - 1] /\ j - 1 \in 1..n /\ t[j] = s[j - 1] /\ i - 1 < j - 1
        BY <1>2, <1>3, <1>5, <1>7, <2>5
    <3> QED BY <1>6, <3>1
  <2> QED BY <1>2, <1>3, <2>1, <2>2, <2>3, <2>4, <2>5
<1> QED BY <1>1, <1>3, <1>7 DEF Ordered

\* Sorted puts a list in the order of its keys.
LEMMA SortedOrdered ==
    ASSUME NEW E, NEW s \in Seq(E), NEW key, PairKeyed(key, E)
    PROVE  Ordered(Sorted(s, key), key)
<1> DEFINE Good == {r \in Seq(E) : Ordered(Sorted(r, key), key)}
<1>1. <<>> \in Good
  <2>1. <<>> \in Seq(E) /\ Sorted(<<>>, key) = <<>> /\ Len(<<>>) = 0
      BY SortedNone, EmptySeq
  <2>2. Ordered(<<>>, key)
      BY <2>1 DEF Ordered
  <2> QED BY <2>1, <2>2
<1>2. ASSUME NEW r \in Seq(E), r \in Good, NEW e \in E PROVE Append(r, e) \in Good
  <2>1. Append(r, e) \in Seq(E)
      BY Appended
  <2>2. Sorted(r, key) \in Seq(E) /\ Sorted(Append(r, e), key) = Inserted(Sorted(r, key), e, key)
      BY SortedAppend
  <2>3. Ordered(Sorted(r, key), key)
      BY <1>2
  <2>4. Ordered(Inserted(Sorted(r, key), e, key), key)
      BY <2>2, <2>3, InsertOrdered
  <2> QED BY <2>1, <2>2, <2>4
<1>3. Seq(E) \subseteq Good
  <2> HIDE DEF Good
  <2> QED BY <1>1, <1>2, AlongSequences
<1> QED BY <1>3

\* Keys that order the elements alike sort them alike.
OrderAlike(key, other, S) ==
    \A x, y \in S : Precedes(key[x], key[y]) <=> Precedes(other[x], other[y])

\* Sorting depends on nothing else.
LEMMA SortedSame ==
    ASSUME NEW E, NEW s \in Seq(E), NEW key, NEW other, OrderAlike(key, other, E)
    PROVE  Sorted(s, key) = Sorted(s, other)
<1> DEFINE Good == {r \in Seq(E) : Sorted(r, key) = Sorted(r, other)}
<1>1. <<>> \in Good
    BY SortedNone, EmptySeq
<1>2. ASSUME NEW r \in Seq(E), r \in Good, NEW e \in E PROVE Append(r, e) \in Good
  <2>1. Append(r, e) \in Seq(E)
      BY Appended
  <2>2. Sorted(Append(r, e), key) = Inserted(Sorted(r, key), e, key)
      BY SortedAppend
  <2>3. Sorted(Append(r, e), other) = Inserted(Sorted(r, other), e, other)
      BY SortedAppend
  <2>4. PICK t : t = Sorted(r, key)
      OBVIOUS
  <2>5. t \in Seq(E) /\ t = Sorted(r, other)
      BY <1>2, <2>4, SortedTyped
  <2>6. Inserted(t, e, key) = Inserted(t, e, other)
    <3>1. \A i \in 1..Len(t) : t[i] \in E
        BY <2>5, Elements
    <3>2. LaterOf(t, e, key) = LaterOf(t, e, other)
        BY <3>1 DEF LaterOf, OrderAlike
    <3>3. PlacedAt(Place(t, e, key), t, e, key) /\ PlacedAt(Place(t, e, other), t, e, other)
        BY <2>5, PlaceIs
    <3>4. PlacedAt(Place(t, e, other), t, e, key)
        BY <3>2, <3>3 DEF PlacedAt
    <3>5. Place(t, e, key) = Place(t, e, other)
        BY <2>5, <3>3, <3>4, OnePlace
    <3> QED BY <3>5 DEF Inserted
  <2> QED BY <2>1, <2>2, <2>3, <2>4, <2>5, <2>6
<1>3. Seq(E) \subseteq Good
  <2> HIDE DEF Good
  <2> QED BY <1>1, <1>2, AlongSequences, SMTT(30)
<1> QED BY <1>3

\* In a list whose numbers ascend, an element has as many below it as come before it.
Ascends(t, num) ==
    /\ \A i \in 1..Len(t) : num[t[i]] \in Int
    /\ \A i, j \in 1..Len(t) : i < j => num[t[i]] < num[t[j]]

Below(t, num, x) == {y \in ToSet(t) : num[y] < num[x]}

\* So its elements are as many as it is long.
LEMMA AscendsOnce ==
    ASSUME NEW t, IsSequence(t), NEW num, Ascends(t, num)
    PROVE  /\ IsFiniteSet(ToSet(t)) /\ Cardinality(ToSet(t)) = Len(t) /\ Len(t) \in Nat
           /\ \A i \in 1..Len(t) : \A x \in ToSet(t) : Cardinality(Below(t, num, x)) = i - 1 <=> x = t[i]
<1>1. t \in Seq(ToSet(t)) /\ Len(t) \in Nat /\ ToSet(t) = {t[i] : i \in 1..Len(t)}
    BY SequenceParts
<1>2. Once(t)
  <2>1. \A i, j \in 1..Len(t) : ~(i < j) /\ ~(j < i) => i = j
      BY <1>1
  <2>2. ASSUME NEW i \in 1..Len(t), NEW j \in 1..Len(t), t[i] = t[j] PROVE ~(i < j)
    <3>1. num[t[i]] \in Int
        BY DEF Ascends
    <3>2. ~(num[t[i]] < num[t[j]])
        BY <2>2, <3>1
    <3> QED BY <3>2 DEF Ascends
  <2> QED BY <2>1, <2>2 DEF Once
<1>3. IsFiniteSet(ToSet(t)) /\ Cardinality(ToSet(t)) = Len(t)
    BY <1>1, <1>2, OnceCounted
<1>4. ASSUME NEW j \in 1..Len(t) PROVE Cardinality(Below(t, num, t[j])) = j - 1
  <2>1. PICK k, f : k = j - 1 /\ f = First(t, k)
      OBVIOUS
  <2>2. k \in Nat /\ k <= Len(t)
      BY <1>1, <2>1
  <2>3. Firsts(f, ToSet(t), t, k)
      BY <1>1, <2>1, <2>2, FirstIs
  <2>4. f \in Seq(ToSet(t)) /\ Len(f) = k /\ \A i \in 1..k : f[i] = t[i]
    <3>1. Least(k, Len(t)) = k
        BY <1>1, <2>2 DEF Least
    <3>2. f \in Seq(ToSet(t)) /\ Len(f) = Least(k, Len(t)) /\ \A i \in 1..Len(f) : f[i] = t[i]
        BY <2>3 DEF Firsts
    <3> QED BY <3>1, <3>2
  <2>5. Once(f)
      BY <1>1, <1>2, <2>1, <2>2, FirstKeeps
  <2>6. ToSet(f) = {t[i] : i \in 1..k}
    <3>1. ToSet(f) = {f[i] : i \in 1..Len(f)}
        BY <2>4, Elements
    <3> QED BY <2>4, <3>1
  <2>7. Below(t, num, t[j]) = ToSet(f)
    <3>1. \A i \in 1..Len(t) : num[t[i]] < num[t[j]] <=> i < j
      <4> TAKE i \in 1..Len(t)
      <4>1. num[t[i]] \in Int /\ num[t[j]] \in Int
          BY DEF Ascends
      <4>2. (i < j => num[t[i]] < num[t[j]]) /\ (j < i => num[t[j]] < num[t[i]])
          BY DEF Ascends
      <4>3. CASE i = j
          BY <4>1, <4>3
      <4>4. CASE i < j
          BY <4>2, <4>4
      <4>5. CASE j < i
        <5>1. PICK a, b : a = num[t[i]] /\ b = num[t[j]]
            OBVIOUS
        <5>2. a \in Int /\ b \in Int /\ b < a
            BY <4>1, <4>2, <4>5, <5>1
        <5>3. ~(a < b) /\ ~(i < j)
            BY <1>1, <4>5, <5>2
        <5> QED BY <5>1, <5>3
      <4> QED BY <1>1, <4>3, <4>4, <4>5
    <3>2. \A i \in 1..Len(t) : i < j <=> i \in 1..k
        BY <1>1, <2>1
    <3>3. Below(t, num, t[j]) = {y \in ToSet(t) : num[y] < num[t[j]]}
        BY DEF Below
    <3>4. \A i \in 1..k : i \in 1..Len(t)
        BY <1>1, <2>2
    <3> QED BY <1>1, <2>6, <3>1, <3>2, <3>3, <3>4
  <2>8. Cardinality(ToSet(f)) = k
      BY <2>4, <2>5, OnceCounted
  <2> QED BY <2>1, <2>7, <2>8
<1>5. ASSUME NEW i \in 1..Len(t), NEW x \in ToSet(t) PROVE Cardinality(Below(t, num, x)) = i - 1 <=> x = t[i]
  <2>1. PICK j \in 1..Len(t) : x = t[j]
      BY <1>1
  <2>2. Cardinality(Below(t, num, x)) = j - 1
      BY <1>4, <2>1
  <2>3. t[i] = t[j] <=> i = j
      BY <1>2 DEF Once
  <2>4. i - 1 = j - 1 <=> i = j
      BY <1>1
  <2> QED BY <2>1, <2>2, <2>3, <2>4
<1> QED BY <1>1, <1>3, <1>5

-----------------------------------------------------------------------------
(***************************************************************************)
(* Slices and windows of a list.                                           *)
(***************************************************************************)

Limits == Nat \ {0}

\* A slice of a sequence.
LEMMA SliceIs ==
    ASSUME NEW R, IsSequence(R), NEW o \in 0..Len(R), NEW e \in o..Len(R)
    PROVE  /\ SubSeq(R, o + 1, e) \in Seq(ToSet(R)) /\ Len(SubSeq(R, o + 1, e)) = e - o
           /\ \A i \in 1..(e - o) : SubSeq(R, o + 1, e)[i] = R[o + i]
<1>1. Len(R) \in Nat /\ \A i \in 1..Len(R) : R[i] \in ToSet(R)
    BY SequenceParts
<1>2. PICK m : m = o + 1
    OBVIOUS
<1>3. m \in Int /\ e \in Int /\ e - m + 1 = e - o /\ \A i \in m..e : R[i] \in ToSet(R)
    BY <1>1, <1>2
<1> DEFINE t == SubSeq(R, m, e)
<1>4. /\ t \in Seq(ToSet(R)) /\ Len(t) = IF m <= e THEN e - m + 1 ELSE 0
      /\ \A i \in 1..(e - m + 1) : t[i] = R[m + i - 1]
    BY <1>3, SubSeqProperties
<1> HIDE DEF t
<1>5. Len(t) = e - o
    BY <1>1, <1>2, <1>4
<1>6. \A i \in 1..(e - o) : t[i] = R[o + i]
  <2> TAKE i \in 1..(e - o)
  <2>1. m + i - 1 = o + i /\ i \in 1..(e - m + 1)
      BY <1>1, <1>2
  <2> QED BY <1>4, <2>1
<1> QED BY <1>2, <1>4, <1>5, <1>6 DEF t

\* Two slices next to each other.
LEMMA SlicesJoin ==
    ASSUME NEW R, IsSequence(R), NEW a \in 0..Len(R), NEW b \in a..Len(R), NEW c \in b..Len(R)
    PROVE  SubSeq(R, a + 1, b) \o SubSeq(R, b + 1, c) = SubSeq(R, a + 1, c)
<1>1. R \in Seq(ToSet(R)) /\ Len(R) \in Nat
    BY SequenceParts
<1>2. a + 1 \in 1..(Len(R) + 1) /\ b \in ((a + 1) - 1)..Len(R) /\ c \in b..Len(R)
    BY <1>1
<1> QED BY <1>1, <1>2, ConcatAdjacentSubSeq

\* A window is a slice, cut short by the end of the list alone.
LEMMA WindowIs ==
    ASSUME NEW R, IsSequence(R), NEW o \in 0..Len(R), NEW n \in Limits
    PROVE  \E e \in o..Len(R) :
            /\ Window(R, o, n) = SubSeq(R, o + 1, e) /\ Len(Window(R, o, n)) = e - o
            /\ e < Len(R) => e = o + n
<1>1. Len(R) \in Nat
    BY SequenceParts
<1>2. PICK e : e = Least(o + n, Len(R))
    OBVIOUS
<1>3. e \in o..Len(R) /\ (e < Len(R) => e = o + n)
    BY <1>1, <1>2 DEF Least, Limits
<1>4. Len(SubSeq(R, o + 1, e)) = e - o
    BY <1>3, SliceIs
<1> QED BY <1>2, <1>3, <1>4 DEF Window

\* The whole listing, when the limit is at least as long.
LEMMA WindowWhole ==
    ASSUME NEW R, IsSequence(R), NEW n \in Nat, n >= Len(R)
    PROVE  Window(R, 0, n) = R
<1>1. Len(R) \in Nat /\ R \in Seq(ToSet(R))
    BY SequenceParts
<1>2. Least(0 + n, Len(R)) = Len(R)
    BY <1>1 DEF Least
<1> QED BY <1>1, <1>2, SubSeqFull DEF Window

\* A slice of a slice from its start.
LEMMA SliceStart ==
    ASSUME NEW R, IsSequence(R), NEW o \in 0..Len(R), NEW e \in o..Len(R), NEW n \in 0..(e - o)
    PROVE  SubSeq(SubSeq(R, o + 1, e), 1, n) = SubSeq(R, o + 1, o + n)
<1>1. Len(R) \in Nat
    BY SequenceParts
<1>2. PICK c : c = o + n
    OBVIOUS
<1>3. c \in o..Len(R) /\ c \in o..e /\ c - o = n
    BY <1>1, <1>2
<1>4. PICK s : s = SubSeq(R, o + 1, e)
    OBVIOUS
<1>5. s \in Seq(ToSet(R)) /\ Len(s) = e - o /\ \A i \in 1..(e - o) : s[i] = R[o + i]
    BY <1>4, SliceIs
<1>6. IsSequence(s)
    BY <1>5, Sequences
<1>7. 0 \in 0..Len(s) /\ n \in 0..Len(s) /\ n - 0 = n
    BY <1>1, <1>5
<1>8. PICK t : t = SubSeq(s, 0 + 1, n)
    OBVIOUS
<1>9. t \in Seq(ToSet(s)) /\ Len(t) = n /\ \A i \in 1..n : t[i] = s[0 + i]
    BY <1>6, <1>7, <1>8, SliceIs
<1>10. PICK u : u = SubSeq(R, o + 1, c)
    OBVIOUS
<1>11. u \in Seq(ToSet(R)) /\ Len(u) = n /\ \A i \in 1..n : u[i] = R[o + i]
    BY <1>3, <1>10, SliceIs
<1>12. \A i \in 1..n : t[i] = u[i]
  <2> TAKE i \in 1..n
  <2>1. i \in 1..(e - o) /\ 0 + i = i
      BY <1>1
  <2> QED BY <1>5, <1>9, <1>11, <2>1
<1>13. IsSequence(t) /\ IsSequence(u)
    BY <1>9, <1>11, Sequences
<1>14. t = u
    BY <1>9, <1>11, <1>12, <1>13, SameSequence
<1> QED BY <1>2, <1>4, <1>8, <1>10, <1>14

\* The first rows are a slice; those of a window that they hold are the window.
LEMMA FirstSlice ==
    ASSUME NEW R, IsSequence(R), NEW n \in Nat
    PROVE  First(R, n) = SubSeq(R, 0 + 1, Least(n, Len(R))) /\ Least(n, Len(R)) \in 0..Len(R)
           /\ IsSequence(First(R, n)) /\ Len(First(R, n)) = Least(n, Len(R))
<1>1. Len(R) \in Nat
    BY SequenceParts
<1>2. PICK m : m = Least(n, Len(R))
    OBVIOUS
<1>3. m \in 0..Len(R) /\ 0 \in 0..Len(R) /\ m - 0 = m
    BY <1>1, <1>2 DEF Least
<1>4. SubSeq(R, 0 + 1, m) \in Seq(ToSet(R)) /\ Len(SubSeq(R, 0 + 1, m)) = m
    BY <1>3, SliceIs
<1>5. First(R, n) = SubSeq(R, 0 + 1, m)
    BY <1>2 DEF First
<1> QED BY <1>2, <1>3, <1>4, <1>5, Sequences

\* A heap that holds the rows of a window and those before it has the window.
LEMMA FirstWindow ==
    ASSUME NEW R, IsSequence(R), NEW o \in 0..Len(R), NEW n \in Limits
    PROVE  Window(First(R, o + n), o, n) = Window(R, o, n)
<1>1. Len(R) \in Nat /\ n \in Nat \ {0}
    BY SequenceParts DEF Limits
<1>2. PICK e : e = Least(o + n, Len(R))
    OBVIOUS
<1>3. e \in o..Len(R) /\ e \in 0..Len(R) /\ Least(o + n, e) = e /\ o \in 0..e /\ e \in o..e
    BY <1>1, <1>2 DEF Least
<1>4. PICK f : f = First(R, o + n)
    OBVIOUS
<1>a. PICK m : m = o + n
    OBVIOUS
<1>b. m \in Nat
    BY <1>1, <1>a
<1>5. f = SubSeq(R, 0 + 1, e) /\ IsSequence(f) /\ Len(f) = e
    BY <1>2, <1>4, <1>a, <1>b, FirstSlice
<1>6. \A i \in 1..(e - 0) : f[i] = R[0 + i]
    BY <1>3, <1>5, SliceIs
<1>7. PICK s : s = SubSeq(f, o + 1, e)
    OBVIOUS
<1>8. PICK t : t = SubSeq(R, o + 1, e)
    OBVIOUS
<1>9. s \in Seq(ToSet(f)) /\ Len(s) = e - o /\ \A i \in 1..(e - o) : s[i] = f[o + i]
  <2>1. o \in 0..Len(f) /\ e \in o..Len(f) /\ IsSequence(f)
      BY <1>3, <1>5
  <2> QED BY <1>7, <2>1, SliceIs
<1>10. t \in Seq(ToSet(R)) /\ Len(t) = e - o /\ \A i \in 1..(e - o) : t[i] = R[o + i]
    BY <1>3, <1>8, SliceIs
<1>11. \A i \in 1..(e - o) : s[i] = t[i]
  <2> TAKE i \in 1..(e - o)
  <2>1. PICK j : j = o + i
      OBVIOUS
  <2>2. j \in 1..(e - 0) /\ 0 + j = j
      BY <1>1, <1>3, <2>1
  <2> QED BY <1>6, <1>9, <1>10, <2>1, <2>2
<1>12. IsSequence(s) /\ IsSequence(t)
    BY <1>9, <1>10, Sequences
<1>13. s = t
    BY <1>9, <1>10, <1>11, <1>12, SameSequence
<1>14. Window(f, o, n) = s /\ Window(R, o, n) = t
    BY <1>2, <1>3, <1>5, <1>7, <1>8 DEF Window
<1> QED BY <1>4, <1>13, <1>14

-----------------------------------------------------------------------------
(***************************************************************************)
(* Lists that the elements of a list yield, and their images.              *)
(***************************************************************************)

\* A list made of the elements of another.
LEMMA MadeSequence ==
    ASSUME NEW s, IsSequence(s), NEW t, t = [i \in DOMAIN s |-> t[i]]
    PROVE  /\ IsSequence(t) /\ Len(t) = Len(s) /\ DOMAIN t = 1..Len(s)
           /\ ToSet(t) = {t[i] : i \in 1..Len(s)}
<1>1. Len(s) \in Nat /\ DOMAIN s = 1..Len(s)
    BY SequenceParts
<1> QED BY <1>1, Numbered

\* The lists that the elements of a list yield, one after the other.
Yields(t, s) == t = [i \in DOMAIN s |-> t[i]] /\ \A i \in 1..Len(s) : IsSequence(t[i])
Unites(S, t, n) == S = UNION {ToSet(t[i]) : i \in 1..n}

\* Joined, they are a list of what any of them holds.
LEMMA EachSequence ==
    ASSUME NEW s, IsSequence(s), NEW t, Yields(t, s)
    PROVE  /\ IsSequence(FlattenSeq(t)) /\ IsSequence(t) /\ Len(t) = Len(s)
           /\ \A r \in ToSet(t) : IsSequence(r)
           /\ Unites(ToSet(FlattenSeq(t)), t, Len(s))
<1>1. IsSequence(t) /\ Len(t) = Len(s) /\ ToSet(t) = {t[i] : i \in 1..Len(s)}
    BY MadeSequence DEF Yields
<1>2. \A r \in ToSet(t) : IsSequence(r)
    BY <1>1 DEF Yields
<1>3. IsSequence(FlattenSeq(t)) /\ ToSet(FlattenSeq(t)) = UNION {ToSet(r) : r \in ToSet(t)}
    BY <1>1, <1>2, FlatSequence
<1>4. Unites(ToSet(FlattenSeq(t)), t, Len(s))
    BY <1>1, <1>3 DEF Unites
<1> QED BY <1>1, <1>2, <1>3, <1>4

\* The same image, of the lists that two lists yield.
AlikeImages(t, im, r, jm, n) == \A i \in 1..n : Image(t[i], im) = Image(r[i], jm)

\* Lists whose parts have the same images have the same images.
LEMMA EachImages ==
    ASSUME NEW s, IsSequence(s), NEW t, Yields(t, s), NEW r, Yields(r, s),
           NEW im, NEW jm, AlikeImages(t, im, r, jm, Len(s))
    PROVE  Image(FlattenSeq(t), im) = Image(FlattenSeq(r), jm)
<1>1. IsSequence(t) /\ Len(t) = Len(s) /\ \A x \in ToSet(t) : IsSequence(x)
    BY EachSequence
<1>2. IsSequence(r) /\ Len(r) = Len(s) /\ \A x \in ToSet(r) : IsSequence(x)
    BY EachSequence
<1>3. Image(FlattenSeq(t), im) = FlattenSeq(Images(t, im))
    BY <1>1, FlatSequence, ImageFlat
<1>4. Image(FlattenSeq(r), jm) = FlattenSeq(Images(r, jm))
    BY <1>2, FlatSequence, ImageFlat
<1>5. Images(t, im) = Images(r, jm)
    BY <1>1, <1>2 DEF Images, AlikeImages
<1> QED BY <1>3, <1>4, <1>5

\* A list is that of its elements, one after the other.
Singles(s) == [i \in DOMAIN s |-> <<s[i]>>]

\* Joined, they are the list.
LEMMA SinglesFlat ==
    ASSUME NEW s, IsSequence(s)
    PROVE  FlattenSeq(Singles(s)) = s
<1>1. PICK E : E = ToSet(s)
    OBVIOUS
<1> DEFINE Good == {t \in Seq(E) : Singles(t) \in Seq(Seq(E)) /\ FlattenSeq(Singles(t)) = t}
<1>2. <<>> \in Good
  <2>1. Singles(<<>>) = <<>>
      BY DEF Singles
  <2>2. <<>> \in Seq(Seq(E)) /\ <<>> \in Seq(E)
      OBVIOUS
  <2>3. Singles(<<>>) \in Seq(Seq(E)) /\ FlattenSeq(Singles(<<>>)) = <<>>
      BY <2>1, <2>2, FlatNone
  <2> QED BY <2>2, <2>3
<1>3. \A t \in Seq(E) : t \in Good => \A e \in E : Append(t, e) \in Good
  <2> SUFFICES ASSUME NEW t \in Seq(E), t \in Good, NEW e \in E
               PROVE  Append(t, e) \in Good
      OBVIOUS
  <2>1. PICK u : u = Append(t, e)
      OBVIOUS
  <2>2. u \in Seq(E) /\ Len(u) = Len(t) + 1 /\ u[Len(t) + 1] = e /\ \A i \in 1..Len(t) : u[i] = t[i]
      BY <2>1
  <2>3. Len(t) \in Nat /\ DOMAIN t = 1..Len(t) /\ DOMAIN u = 1..(Len(t) + 1)
      BY <2>2
  <2>4. PICK r : r = Singles(t)
      OBVIOUS
  <2>5. r \in Seq(Seq(E)) /\ FlattenSeq(r) = t /\ Len(r) = Len(t) /\ \A i \in 1..Len(t) : r[i] = <<t[i]>>
      BY <2>3, <2>4 DEF Singles
  <2>6. PICK v : v = <<e>>
      OBVIOUS
  <2>7. v \in Seq(E)
      BY <2>6
  <2>8. Append(r, v) \in Seq(Seq(E)) /\ Len(Append(r, v)) = Len(t) + 1
      BY <2>5, <2>7, AppendProperties
  <2>9. \A i \in 1..(Len(t) + 1) : Append(r, v)[i] = <<u[i]>>
    <3>1. Append(r, v)[Len(t) + 1] = v
        BY <2>5, <2>7, AppendProperties
    <3>2. \A i \in 1..Len(t) : Append(r, v)[i] = r[i]
        BY <2>5, <2>7, AppendProperties
    <3>3. \A i \in 1..(Len(t) + 1) : i = Len(t) + 1 \/ i \in 1..Len(t)
        BY <2>3
    <3> QED BY <2>2, <2>5, <2>6, <3>1, <3>2, <3>3
  <2>10. Append(r, v) = [i \in 1..(Len(t) + 1) |-> Append(r, v)[i]]
      BY <2>8, LenProperties
  <2>11. Singles(u) = Append(r, v)
      BY <2>3, <2>9, <2>10 DEF Singles
  <2>12. FlattenSeq(Append(r, v)) = FlattenSeq(r) \o v
      BY <2>5, <2>7, FlatAppend
  <2>13. FlattenSeq(r) \o v = u
    <3>1. t \o <<e>> = Append(t, e)
        OBVIOUS
    <3> QED BY <2>1, <2>5, <2>6, <3>1
  <2> QED BY <2>1, <2>2, <2>8, <2>11, <2>12, <2>13
<1>4. Seq(E) \subseteq Good
  <2> HIDE DEF Good
  <2> QED BY <1>2, <1>3, AlongSequences
<1> QED BY <1>1, <1>4 DEF IsSequence

\* The image of one element.
LEMMA ImageOne ==
    ASSUME NEW x, NEW im
    PROVE  /\ x \in DOMAIN im => Image(<<x>>, im) = <<im[x]>>
           /\ x \notin DOMAIN im => Image(<<x>>, im) = <<>>
<1>1. PICK E : E = {x}
    OBVIOUS
<1>2. <<>> \in Seq(E) /\ x \in E /\ Append(<<>>, x) = <<x>>
    BY <1>1
<1>3. Only(<<x>>, DOMAIN im) = IF x \in DOMAIN im THEN <<x>> ELSE <<>>
  <2>1. AppendKept(<<>>, x, DOMAIN im)
      BY <1>2, OnlyAppend
  <2>2. Only(<<>>, DOMAIN im) = <<>>
      BY OnlyNone
  <2> QED BY <1>2, <2>1, <2>2 DEF AppendKept
<1>4. Mapped(<<x>>, im) = <<im[x]>>
    BY DEF Mapped
<1>5. Mapped(<<>>, im) = <<>>
    BY DEF Mapped
<1> QED BY <1>3, <1>4, <1>5 DEF Image

\* Elements without an image have none together.
LEMMA ImageEmpty ==
    ASSUME NEW s, IsSequence(s), NEW im, ToSet(s) \cap DOMAIN im = {}
    PROVE  Image(s, im) = <<>>
<1>1. IsSequence(Image(s, im)) /\ ToSet(Image(s, im)) = {}
    BY ImageSequence
<1>2. Len(Image(s, im)) = 0
    BY <1>1, SequenceParts
<1> QED BY <1>1, <1>2, ShortSequences, SameSequence

ImagedAlike(s, im, t, jm) == Image(s, im) = Image(t, jm)

\* A list of chosen elements, and what is made of each.
LEMMA WhereMade ==
    ASSUME NEW s, IsSequence(s), NEW im, NEW t,
           t = [i \in DOMAIN Only(s, DOMAIN im) |-> im[Only(s, DOMAIN im)[i]]]
    PROVE  t = Image(s, im)
<1>1. PICK r : r = Only(s, DOMAIN im)
    OBVIOUS
<1>2. DOMAIN r = 1..Len(r)
    BY <1>1, OnlySequence, SequenceParts
<1> QED BY <1>1, <1>2 DEF Image, Mapped

-----------------------------------------------------------------------------
(***************************************************************************)
(* Lists without repetitions, and the order of a set by its numbers.       *)
(***************************************************************************)

\* Sets in the order of their numbers are lists.
LEMMA AscendingSequence ==
    ASSUME NEW S, IsFiniteSet(S), NEW t, t = [i \in 1..Cardinality(S) |-> t[i]]
    PROVE  IsSequence(t)
<1>1. Cardinality(S) \in Nat
    BY FS_CardinalityType
<1> QED BY <1>1, Numbered

\* A list has finitely many elements and places.
LEMMA FiniteElements ==
    ASSUME NEW s, IsSequence(s)
    PROVE  IsFiniteSet(ToSet(s)) /\ IsFiniteSet(DOMAIN s)
<1>1. DOMAIN s = 1..Len(s) /\ Len(s) \in Nat
    BY SequenceParts
<1>2. IsFiniteSet(1..Len(s))
    BY <1>1, FS_Interval
<1> QED BY <1>1, <1>2, OnceCounted DEF IsSequence

\* No repeats: as many elements as places.
LEMMA OnceSequence ==
    ASSUME NEW s, IsSequence(s)
    PROVE  /\ IsFiniteSet(ToSet(s))
           /\ NoRepeats(s) <=> Once(s)
           /\ Once(s) <=> Cardinality(ToSet(s)) = Len(s)
BY OnceCounted DEF IsSequence, NoRepeats

\* Sorting repeats nothing.
LEMMA SortedOnce ==
    ASSUME NEW s, IsSequence(s), Once(s), NEW key
    PROVE  Once(Sorted(s, key))
<1>1. PICK t : t = Sorted(s, key)
    OBVIOUS
<1>2. IsSequence(t) /\ Len(t) = Len(s) /\ ToSet(t) = ToSet(s)
    BY <1>1, SortedSequence
<1> QED BY <1>1, <1>2, OnceSequence

\* Nor does one list after another with which it shares nothing.
LEMMA ConcatOnce ==
    ASSUME NEW s, IsSequence(s), Once(s), NEW t, IsSequence(t), Once(t), ToSet(s) \cap ToSet(t) = {}
    PROVE  Once(s \o t)
<1>1. PICK u : u = s \o t
    OBVIOUS
<1>2. IsSequence(u) /\ Len(u) = Len(s) + Len(t) /\ ToSet(u) = ToSet(s) \cup ToSet(t)
    BY <1>1, ConcatSequence
<1>3. IsFiniteSet(ToSet(s)) /\ IsFiniteSet(ToSet(t)) /\ Cardinality(ToSet(s)) = Len(s) /\ Cardinality(ToSet(t)) = Len(t)
    BY OnceSequence
<1>4. Cardinality(ToSet(s) \cup ToSet(t)) = Cardinality(ToSet(s)) + Cardinality(ToSet(t)) - Cardinality(ToSet(s) \cap ToSet(t))
    BY <1>3, FS_Union
<1>5. Cardinality(ToSet(s) \cap ToSet(t)) = 0
    BY FS_EmptySet
<1>6. Len(s) \in Nat /\ Len(t) \in Nat
    BY SequenceParts
<1>7. Cardinality(ToSet(u)) = Len(u)
    BY <1>2, <1>3, <1>4, <1>5, <1>6
<1> QED BY <1>1, <1>2, <1>7, OnceSequence

\* Lists that have no element twice, and none in common.
Apart(ss) ==
    /\ \A i \in 1..Len(ss) : Once(ss[i])
    /\ \A i, j \in 1..Len(ss) : i # j => ToSet(ss[i]) \cap ToSet(ss[j]) = {}

\* Joined, they have none.
LEMMA FlatOnce ==
    ASSUME NEW ss, IsSequence(ss), \A r \in ToSet(ss) : IsSequence(r), Apart(ss)
    PROVE  Once(FlattenSeq(ss))
<1>1. PICK E : ss \in Seq(Seq(E))
    BY FlatSequence
<1>2. PICK S : S = Seq(E)
    OBVIOUS
<1> DEFINE Good == {t \in Seq(S) : Apart(t) => Once(FlattenSeq(t))}
<1>3. <<>> \in Good
  <2>1. Once(<<>>)
      BY DEF Once
  <2> QED BY <2>1, FlatNone
<1>4. \A t \in Seq(S) : t \in Good => \A e \in S : Append(t, e) \in Good
  <2> SUFFICES ASSUME NEW t \in Seq(S), t \in Good, NEW e \in S, Apart(Append(t, e))
               PROVE  Once(FlattenSeq(Append(t, e)))
      BY AppendProperties
  <2>1. PICK u : u = Append(t, e)
      OBVIOUS
  <2>2. u \in Seq(S) /\ Len(u) = Len(t) + 1 /\ u[Len(t) + 1] = e /\ (\A i \in 1..Len(t) : u[i] = t[i]) /\ Len(t) \in Nat
      BY <2>1
  <2>3. PICK n : n = Len(t) + 1
      OBVIOUS
  <2>4. n \in 1..Len(u) /\ u[n] = e /\ \A i \in 1..Len(t) : i \in 1..Len(u) /\ i # n
      BY <2>2, <2>3
  <2>5. Apart(u)
      BY <2>1
  <2>6. Once(e) /\ Apart(t) /\ \A i \in 1..Len(t) : ToSet(t[i]) \cap ToSet(e) = {}
      BY <2>2, <2>4, <2>5 DEF Apart
  <2>7. PICK f : f = FlattenSeq(t)
      OBVIOUS
  <2>8. t \in Seq(Seq(E)) /\ e \in Seq(E)
      BY <1>2
  <2>9. f \in Seq(E) /\ FlattenSeq(u) = f \o e
      BY <2>1, <2>7, <2>8, FlatAppend
  <2>10. Once(f)
      BY <2>6, <2>7
  <2>11. IsSequence(f) /\ IsSequence(e)
      BY <2>8, <2>9, Sequences
  <2>12. ToSet(f) = UNION {ToSet(r) : r \in ToSet(t)}
      BY <2>7, <2>8, FlatSet
  <2>13. ToSet(t) = {t[i] : i \in 1..Len(t)}
      BY <2>8, Elements
  <2>14. ToSet(f) \cap ToSet(e) = {}
      BY <2>6, <2>12, <2>13
  <2> QED BY <2>1, <2>6, <2>9, <2>10, <2>11, <2>14, ConcatOnce
<1>5. Seq(S) \subseteq Good
  <2> HIDE DEF Good
  <2> QED BY <1>3, <1>4, AlongSequences
<1> QED BY <1>1, <1>2, <1>5

\* Numbers that tell the elements of a set apart.
Numbering(num, S) == (\A x \in S : num[x] \in Int) /\ \A x, y \in S : num[x] = num[y] => x = y

\* Sorted by such numbers, a list without repeats ascends.
LEMMA SortedAscends ==
    ASSUME NEW s, IsSequence(s), Once(s), NEW num, Numbering(num, ToSet(s)),
           NEW key, \A x \in ToSet(s) : key[x] = <<num[x], 0>>
    PROVE  Ascends(Sorted(s, key), num)
<1>1. PICK t : t = Sorted(s, key)
    OBVIOUS
<1>2. IsSequence(t) /\ Len(t) = Len(s) /\ ToSet(t) = ToSet(s) /\ Once(t)
    BY <1>1, SortedSequence, SortedOnce
<1>3. PICK E : E = ToSet(s)
    OBVIOUS
<1>4. \A x \in E : num[x] \in Int /\ key[x] = <<num[x], 0>>
    BY <1>3 DEF Numbering
<1>5. PairKeyed(key, E)
    BY <1>4 DEF PairKeyed
<1>6. s \in Seq(E)
    BY <1>3 DEF IsSequence
<1>7. Ordered(t, key)
    BY <1>1, <1>5, <1>6, SortedOrdered
<1>8. \A i \in 1..Len(t) : t[i] \in E
    BY <1>2, <1>3, SequenceParts
<1>9. ASSUME NEW i \in 1..Len(t), NEW j \in 1..Len(t), i < j
      PROVE  num[t[i]] < num[t[j]]
  <2>1. ~Precedes(key[t[j]], key[t[i]])
      BY <1>9, <1>7 DEF Ordered
  <2>2. PICK x, y : x = t[i] /\ y = t[j]
      OBVIOUS
  <2>3. x # y
      BY <1>2, <1>9, <2>2 DEF Once
  <2>4. num[x] # num[y]
      BY <1>3, <1>8, <2>2, <2>3 DEF Numbering
  <2>5. ~(num[y] < num[x])
      BY <1>4, <1>8, <2>1, <2>2 DEF Precedes
  <2>6. num[x] \in Int /\ num[y] \in Int
      BY <1>4, <1>8, <2>2
  <2>7. PICK a, b : a = num[x] /\ b = num[y]
      OBVIOUS
  <2>8. a < b
      BY <2>4, <2>5, <2>6, <2>7
  <2> QED BY <2>2, <2>7, <2>8
<1> QED BY <1>1, <1>4, <1>8, <1>9 DEF Ascends

\* The elements of a set in the order of their numbers, which is that of a list.
LEMMA AscendingIs ==
    ASSUME NEW t, IsSequence(t), NEW num, Ascends(t, num), NEW S, S = ToSet(t), NEW w,
           w = [i \in 1..Cardinality(S) |-> w[i]], \A i \in 1..Len(t) : w[i] = t[i]
    PROVE  w = t
<1>1. Cardinality(S) = Len(t) /\ Len(t) \in Nat
    BY AscendsOnce
<1>2. IsSequence(w) /\ Len(w) = Len(t)
    BY <1>1, Numbered
<1> QED BY <1>2, SameSequence

\* What is made of each element is a list.
LEMMA EachListed ==
    ASSUME NEW s, IsSequence(s), NEW t, t = [i \in DOMAIN s |-> t[i]], \A i \in 1..Len(s) : IsSequence(t[i])
    PROVE  IsSequence(FlattenSeq(t))
BY EachSequence DEF Yields

-----------------------------------------------------------------------------
(***************************************************************************)
(* Running sums, and the numbers of an ascending list between two of them. *)
(***************************************************************************)

Lengths(f, lines) ==
    /\ f \in [0..Len(lines) -> Nat] /\ f[0] = 0
    /\ \A k \in 1..Len(lines) : f[k] = f[k - 1] + lines[k]

\* LengthOf is one of them.
LEMMA LengthRuns ==
    ASSUME NEW lines \in Seq(Nat)
    PROVE  \E f : Lengths(f, lines) /\ \A n : LengthOf(lines, n) = f[Least(n, Len(lines))]
<1> DEFINE n == Len(lines)
           Put(k, t) == t + lines[k]
           step == [p \in (1..n) \X Nat |-> Put(p[1], p[2])]
<1>1. n \in Nat /\ \A i \in 1..n : lines[i] \in Nat
    OBVIOUS
<1>2. step \in [(1..n) \X Nat -> Nat]
  <2>1. \A k \in 1..n, t \in Nat : Put(k, t) \in Nat
      BY <1>1
  <2> HIDE DEF Put, n
  <2> QED BY <2>1
<1>3. \A k \in 1..n, t \in Nat : step[<<k, t>>] = Put(k, t)
  <2> HIDE DEF Put, n
  <2> QED OBVIOUS
<1>4. PICK f : Values(f, n, Nat, 0, step)
  <2> HIDE DEF n, step
  <2>1. Recursive(Nat, 0, n, step)
      BY <1>1, <1>2 DEF Recursive
  <2> QED BY <2>1, Recursed
<1>5. \A k \in 1..n : f[k] = Put(k, f[k - 1])
  <2> HIDE DEF n, step, Put
  <2> QED BY <1>3, <1>4 DEF Values
<1> DEFINE Run(g) == g = [k \in 0..n |-> IF k = 0 THEN 0 ELSE g[k - 1] + lines[k]]
<1>6. Run(f)
  <2>1. \A k \in 0..n : f[k] = IF k = 0 THEN 0 ELSE Put(k, f[k - 1])
    <3>1. \A k \in 0..n : k = 0 \/ k \in 1..n
        BY <1>1
    <3> HIDE DEF n, step, Put
    <3> QED BY <1>4, <1>5, <3>1 DEF Values
  <2>2. f = [k \in 0..n |-> f[k]]
    <3> HIDE DEF n, step
    <3> QED BY <1>4 DEF Values
  <2> HIDE DEF step, n
  <2> QED BY <2>1, <2>2
<1> DEFINE length == CHOOSE g : Run(g)
<1>7. Run(length)
  <2> HIDE DEF Run
  <2> QED BY <1>6
<1>8. \A m : LengthOf(lines, m) = length[Least(m, n)]
    BY DEF LengthOf
<1> HIDE DEF length
<1>9. length[0] = 0 /\ \A k \in 1..n : length[k] = Put(k, length[k - 1])
  <2>1. 0 \in 0..n /\ \A k \in 1..n : k \in 0..n /\ k # 0
      BY <1>1
  <2> HIDE DEF n
  <2> QED BY <1>7, <2>1
<1>10. \A k \in 0..n : length[k] = f[k]
  <2> HIDE DEF n, Put, step, Run
  <2>1. Alongside(length, f, n)
      BY <1>1, <1>4, <1>5, <1>9 DEF Alongside, Values
  <2> QED BY <2>1, GoOnAlike
<1>11. length \in [0..n -> Nat]
  <2>1. length = [k \in 0..n |-> length[k]]
    <3> HIDE DEF n
    <3> QED BY <1>7
  <2> HIDE DEF n, Put, step, Run
  <2> QED BY <1>4, <1>10, <2>1 DEF Values
<1> QED BY <1>8, <1>9, <1>11 DEF Lengths

\* Lengths of more lines are no less.
LEMMA LengthsGrow ==
    ASSUME NEW lines \in Seq(Nat), NEW f, Lengths(f, lines),
           NEW a \in 0..Len(lines), NEW b \in a..Len(lines)
    PROVE  f[a] \in Nat /\ f[b] \in Nat /\ f[a] <= f[b]
<1>1. Len(lines) \in Nat /\ \A k \in 1..Len(lines) : lines[k] \in Nat
    OBVIOUS
<1>2. f \in [0..Len(lines) -> Nat] /\ \A k \in 1..Len(lines) : f[k] = f[k - 1] + lines[k]
    BY DEF Lengths
<1> DEFINE S == {j \in Nat : a + j <= Len(lines) => f[a] <= f[a + j]}
<1>3. 0 \in S
  <2>1. a + 0 = a /\ a \in 0..Len(lines)
      BY <1>1
  <2>2. f[a] \in Nat
      BY <1>2, <2>1
  <2>3. f[a] <= f[a]
      BY <2>2
  <2> QED BY <2>1, <2>3
<1>4. \A j \in 0..(Len(lines) - 1) : j \in S => j + 1 \in S
  <2> TAKE j \in 0..(Len(lines) - 1)
  <2> SUFFICES ASSUME j \in S, a + (j + 1) <= Len(lines)
               PROVE  f[a] <= f[a + (j + 1)]
      BY <1>1
  <2>1. PICK k : k = a + (j + 1)
      OBVIOUS
  <2>2. k \in 1..Len(lines) /\ k - 1 = a + j /\ a + j <= Len(lines) /\ k - 1 \in 0..Len(lines)
      BY <1>1, <2>1
  <2>3. f[a] <= f[a + j]
      BY <2>2
  <2>4. f[k] = f[k - 1] + lines[k] /\ lines[k] \in Nat /\ f[k - 1] \in Nat /\ f[a] \in Nat
      BY <1>1, <1>2, <2>2
  <2>5. PICK x, y, z : x = f[a] /\ y = f[k - 1] /\ z = lines[k]
      OBVIOUS
  <2>6. x <= y + z
      BY <2>2, <2>3, <2>4, <2>5
  <2> QED BY <2>1, <2>4, <2>5, <2>6
<1>5. 0..Len(lines) \subseteq S
  <2> HIDE DEF S
  <2> QED BY <1>1, <1>3, <1>4, UpTo
<1>6. PICK j : j = b - a
    OBVIOUS
<1>7. f[a] <= f[b]
  <2>1. j \in 0..Len(lines) /\ a + j = b /\ b <= Len(lines)
      BY <1>1, <1>6
  <2>2. a + j <= Len(lines) => f[a] <= f[a + j]
      BY <1>5, <2>1
  <2> QED BY <2>1, <2>2
<1>8. a \in 0..Len(lines) /\ b \in 0..Len(lines)
    BY <1>1
<1> QED BY <1>2, <1>7, <1>8

\* The numbers of an ascending list that are less than one, and those from one on.
Rising(s) == \A i, j \in 1..Len(s) : i < j => s[i] <= s[j]
To(b) == {x \in Nat : x < b}
Span(a, b) == {x \in Nat : a <= x /\ x < b}

\* None is chosen.
LEMMA NoneOnly ==
    ASSUME NEW E, NEW s \in Seq(E), NEW chosen, ToSet(s) \cap chosen = {}
    PROVE  Only(s, chosen) = <<>>
<1>1. Only(s, chosen) \in Seq(E) /\ ToSet(Only(s, chosen)) = {}
    BY OnlySet
<1>2. PICK t : t = Only(s, chosen)
    OBVIOUS
<1>3. Len(t) \in Nat /\ \A i \in 1..Len(t) : t[i] \in ToSet(t)
    BY <1>1, <1>2, Elements
<1>4. Len(t) = 0
  <2>1. 1 \notin 1..Len(t)
      BY <1>1, <1>2, <1>3
  <2> QED BY <1>3, <2>1
<1> QED BY <1>1, <1>2, <1>4, EmptySeq

\* The numbers below b are those below a, then those from a on.
LEMMA OnlyJoined ==
    ASSUME NEW s \in Seq(Nat), Rising(s), NEW a \in Nat, NEW b \in Nat, a <= b
    PROVE  Only(s, To(b)) = Only(s, To(a)) \o Only(s, Span(a, b))
<1> DEFINE Good == {t \in Seq(Nat) : Rising(t) => Only(t, To(b)) = Only(t, To(a)) \o Only(t, Span(a, b))}
<1>1. <<>> \in Good
  <2>1. Only(<<>>, To(b)) = <<>> /\ Only(<<>>, To(a)) = <<>> /\ Only(<<>>, Span(a, b)) = <<>>
      BY OnlyNone
  <2>2. <<>> = <<>> \o <<>> /\ <<>> \in Seq(Nat)
      OBVIOUS
  <2>3. Only(<<>>, To(b)) = Only(<<>>, To(a)) \o Only(<<>>, Span(a, b))
      BY <2>1, <2>2
  <2> QED BY <2>2, <2>3
<1>2. \A t \in Seq(Nat) : t \in Good => \A e \in Nat : Append(t, e) \in Good
  <2> SUFFICES ASSUME NEW t \in Seq(Nat), t \in Good, NEW e \in Nat, Rising(Append(t, e))
               PROVE  Only(Append(t, e), To(b)) = Only(Append(t, e), To(a)) \o Only(Append(t, e), Span(a, b))
      BY AppendProperties
  <2>1. PICK u : u = Append(t, e)
      OBVIOUS
  <2>2. u \in Seq(Nat) /\ Len(u) = Len(t) + 1 /\ u[Len(t) + 1] = e /\ (\A i \in 1..Len(t) : u[i] = t[i]) /\ Len(t) \in Nat
      BY <2>1
  <2>3. PICK n : n = Len(t) + 1
      OBVIOUS
  <2>4. n \in 1..Len(u) /\ u[n] = e /\ \A i \in 1..Len(t) : i \in 1..Len(u) /\ i < n
      BY <2>2, <2>3
  <2>5. Rising(t) /\ \A i \in 1..Len(t) : t[i] <= e
    <3>1. Rising(u)
        BY <2>1
    <3>2. Rising(t)
        BY <2>2, <2>4, <3>1 DEF Rising
    <3>3. ASSUME NEW i \in 1..Len(t)
          PROVE  t[i] <= e
      <4>1. i \in 1..Len(u) /\ i < n /\ u[i] = t[i]
          BY <2>2, <2>4
      <4>2. u[i] <= u[n]
          BY <2>4, <3>1, <4>1 DEF Rising
      <4> QED BY <2>4, <4>1, <4>2
    <3> QED BY <3>2, <3>3
  <2>6. PICK x, y, z : x = Only(t, To(b)) /\ y = Only(t, To(a)) /\ z = Only(t, Span(a, b))
      OBVIOUS
  <2>7. x \in Seq(Nat) /\ y \in Seq(Nat) /\ z \in Seq(Nat) /\ x = y \o z
      BY <2>5, <2>6, OnlyTyped
  <2>8. /\ Only(u, To(b)) = IF e \in To(b) THEN Append(x, e) ELSE x
        /\ Only(u, To(a)) = IF e \in To(a) THEN Append(y, e) ELSE y
        /\ Only(u, Span(a, b)) = IF e \in Span(a, b) THEN Append(z, e) ELSE z
    <3>1. AppendKept(t, e, To(b)) /\ AppendKept(t, e, To(a)) /\ AppendKept(t, e, Span(a, b))
        BY OnlyAppend
    <3> QED BY <2>1, <2>6, <3>1 DEF AppendKept
  <2>9. CASE e < a
    <3>1. e \in To(b) /\ e \in To(a) /\ e \notin Span(a, b)
        BY <2>9 DEF To, Span
    <3>2. z = <<>>
      <4>1. ToSet(t) = {t[i] : i \in 1..Len(t)} /\ \A i \in 1..Len(t) : t[i] \in Nat
          BY Elements
      <4>2. ASSUME NEW v \in ToSet(t)
            PROVE  v \notin Span(a, b)
        <5>1. PICK i \in 1..Len(t) : v = t[i]
            BY <4>1, <4>2
        <5>2. v <= e /\ v \in Nat
            BY <2>5, <4>1, <5>1
        <5> QED BY <2>9, <5>2 DEF Span
      <4>3. ToSet(t) \cap Span(a, b) = {}
          BY <4>2
      <4> QED BY <2>6, <4>3, NoneOnly
    <3>3. x = y /\ Append(y, e) \o <<>> = Append(y, e)
        BY <2>7, <3>2
    <3> QED BY <2>1, <2>8, <3>1, <3>2, <3>3
  <2>10. CASE a <= e /\ e < b
    <3>1. e \in To(b) /\ e \notin To(a) /\ e \in Span(a, b)
        BY <2>10 DEF To, Span
    <3>2. y \o Append(z, e) = Append(y \o z, e)
        BY <2>7, AppendConcat
    <3> QED BY <2>1, <2>7, <2>8, <3>1, <3>2
  <2>11. CASE b <= e
    <3>1. e \notin To(b) /\ e \notin To(a) /\ e \notin Span(a, b)
        BY <2>11 DEF To, Span
    <3> QED BY <2>1, <2>7, <2>8, <3>1
  <2> QED BY <2>9, <2>10, <2>11
<1>3. Seq(Nat) \subseteq Good
  <2> HIDE DEF Good
  <2> QED BY <1>1, <1>2, AlongSequences
<1> QED BY <1>3

\* A part in the middle of a sequence.
LEMMA MiddleSlice ==
    ASSUME NEW s, IsSequence(s), NEW t, IsSequence(t), NEW u, IsSequence(u), NEW R, R = (s \o t) \o u
    PROVE  /\ Len(s) \in Nat /\ Len(s) + Len(t) \in Len(s)..Len(R) /\ IsSequence(R)
           /\ SubSeq(R, Len(s) + 1, Len(s) + Len(t)) = t
<1>1. PICK v : v = s \o t
    OBVIOUS
<1>2. /\ IsSequence(v) /\ Len(v) = Len(s) + Len(t)
      /\ \A i \in 1..Len(t) : v[Len(s) + i] = t[i]
    BY <1>1, ConcatSequence
<1>3. /\ IsSequence(R) /\ Len(R) = Len(v) + Len(u) /\ \A i \in 1..Len(v) : R[i] = v[i]
    BY <1>1, <1>2, ConcatSequence
<1>4. Len(s) \in Nat /\ Len(t) \in Nat /\ Len(u) \in Nat
    BY SequenceParts
<1>5. PICK a, b : a = Len(s) /\ b = Len(s) + Len(t)
    OBVIOUS
<1>6. a \in 0..Len(R) /\ b \in a..Len(R) /\ b - a = Len(t) /\ a \in Nat
    BY <1>2, <1>3, <1>4, <1>5
<1>7. PICK w : w = SubSeq(R, a + 1, b)
    OBVIOUS
<1>8. w \in Seq(ToSet(R)) /\ Len(w) = Len(t) /\ \A i \in 1..Len(t) : w[i] = R[a + i]
    BY <1>3, <1>6, <1>7, SliceIs, ZenonT(60)
<1>9. \A i \in 1..Len(t) : w[i] = t[i]
  <2> TAKE i \in 1..Len(t)
  <2>1. a + i \in 1..Len(v) /\ a + i = Len(s) + i
      BY <1>2, <1>4, <1>5
  <2> QED BY <1>2, <1>3, <1>8, <2>1
<1>10. w = t
  <2>1. IsSequence(w)
      BY <1>8, Sequences
  <2> QED BY <1>8, <1>9, <2>1, SameSequence
<1> QED BY <1>3, <1>4, <1>5, <1>6, <1>7, <1>10

\* A page may count other things than rows, as lines are: p says how many rows come
\* before each place where a page may start.
Points(p, T, R) == T \in Nat /\ p \in [0..T -> 0..Len(R)] /\ p[0] = 0 /\ p[T] = Len(R)
LinksTo(links, f, k) == Only(links, To(f[k]))
Stretch(a, b, n) == a \in 0..n /\ b \in a..n

\* R are the links of a source, in the order of their places; a part of them is that of
\* the lines from one to another.
Linked(lines, f, links, R) ==
    /\ lines \in Seq(Nat) /\ Lengths(f, lines) /\ links \in Seq(Nat) /\ Rising(links)
    /\ R = LinksTo(links, f, Len(lines))

LinkedPart(links, f, a, b, R) ==
    /\ Len(LinksTo(links, f, a)) \in Nat
    /\ Len(LinksTo(links, f, b)) \in Len(LinksTo(links, f, a))..Len(R)
    /\ Only(links, Span(f[a], f[b])) = SubSeq(R, Len(LinksTo(links, f, a)) + 1, Len(LinksTo(links, f, b)))

\* The links of some lines are a part of all of them.
LEMMA LinksBetween ==
    ASSUME NEW lines, NEW f, NEW links, NEW R, Linked(lines, f, links, R),
           NEW a, NEW b, Stretch(a, b, Len(lines))
    PROVE  LinkedPart(links, f, a, b, R)
<1>0. /\ lines \in Seq(Nat) /\ Lengths(f, lines) /\ links \in Seq(Nat) /\ Rising(links)
      /\ R = LinksTo(links, f, Len(lines))
    BY DEF Linked
<1>1. PICK n : n = Len(lines)
    OBVIOUS
<1>2. n \in Nat /\ a \in 0..n /\ b \in a..n /\ b \in 0..n /\ n \in b..n
    BY <1>1 DEF Stretch
<1>3. /\ f[a] \in Nat /\ f[b] \in Nat /\ f[a] <= f[b]
    BY <1>0, <1>1, <1>2, LengthsGrow
<1>4. f[n] \in Nat /\ f[b] <= f[n]
    BY <1>0, <1>1, <1>2, LengthsGrow
<1>5. PICK x, y, z : x = f[a] /\ y = f[b] /\ z = f[n]
    OBVIOUS
<1>6. PICK s, t, u : s = Only(links, To(x)) /\ t = Only(links, Span(x, y)) /\ u = Only(links, Span(y, z))
    OBVIOUS
<1>7. Only(links, To(y)) = s \o t
    BY <1>0, <1>3, <1>5, <1>6, OnlyJoined
<1>8. Only(links, To(z)) = (s \o t) \o u
  <2>1. Only(links, To(z)) = Only(links, To(y)) \o u
      BY <1>0, <1>3, <1>4, <1>5, <1>6, OnlyJoined
  <2> QED BY <1>7, <2>1
<1>9. IsSequence(s) /\ IsSequence(t) /\ IsSequence(u)
  <2>1. s \in Seq(Nat) /\ t \in Seq(Nat) /\ u \in Seq(Nat)
      BY <1>0, <1>6, OnlyTyped
  <2> QED BY <2>1, Sequences
<1>10. R = (s \o t) \o u
    BY <1>0, <1>1, <1>5, <1>8 DEF LinksTo
<1>11. /\ Len(s) \in Nat /\ Len(s) + Len(t) \in Len(s)..Len(R)
       /\ SubSeq(R, Len(s) + 1, Len(s) + Len(t)) = t
    BY <1>9, <1>10, MiddleSlice
<1>12. LinksTo(links, f, a) = s /\ LinksTo(links, f, b) = s \o t
    BY <1>5, <1>6, <1>7 DEF LinksTo
<1>13. Len(s \o t) = Len(s) + Len(t)
    BY <1>9, ConcatSequence
<1> QED BY <1>5, <1>6, <1>11, <1>12, <1>13 DEF LinkedPart

-----------------------------------------------------------------------------
(***************************************************************************)
(* A bounded set of numbers.                                               *)
(***************************************************************************)

\* A set of numbers up to one that holds 0 has a greatest.
LEMMA Greatest ==
    ASSUME NEW n \in Nat, NEW S \in SUBSET (0..n), 0 \in S
    PROVE  \E m \in S : \A j \in S : j <= m
<1> DEFINE Up(k) == \E m \in S : \A j \in S : j <= k => j <= m
           P == {k \in 0..n : Up(k)}
<1>1. 0 \in P
    OBVIOUS
<1>2. \A k \in 0..(n - 1) : k \in P => k + 1 \in P
  <2> SUFFICES ASSUME NEW k \in 0..(n - 1), Up(k) PROVE Up(k + 1)
      OBVIOUS
  <2>1. CASE k + 1 \in S
      BY <2>1
  <2>2. CASE k + 1 \notin S
    <3>1. \A j \in S : j <= k + 1 => j <= k
        BY <2>2
    <3> QED BY <3>1
  <2> QED BY <2>1, <2>2
<1>3. n \in P
  <2> HIDE DEF P
  <2> QED BY <1>1, <1>2, UpTo
<1> QED BY <1>3
=============================================================================
