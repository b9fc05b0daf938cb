-------------------------- MODULE SessionCacheProofs --------------------------
(***************************************************************************)
(* Proofs about the caches of a session, for any callers, selectors and    *)
(* budgets and any number of events: what a cache answers is current, both *)
(* caches stay within their bytes, and a grouped page is of one piece.     *)
(*                                                                         *)
(* First the lists of entries and their bytes, then each cache by itself,  *)
(* then the calls: their types, which of them can be inside together, who  *)
(* holds which ticket, and the shapes of a step.  From these follows what  *)
(* is true of the answers, and last the budget of the sets.                *)
(***************************************************************************)
EXTENDS SessionCaches, DataProofs, SequenceTheorems

-----------------------------------------------------------------------------
(***************************************************************************)
(* Lists of entries and their bytes.  An entry that is appended, removed,  *)
(* moved or cut off changes the sum by its own bytes.                      *)
(***************************************************************************)

Sizes(list) == [i \in DOMAIN list |-> list[i].size]
Sized(E) == \A e \in E : e.size \in Nat

\* The bytes of a list are a natural number.
LEMMA SizeType ==
    ASSUME NEW E, Sized(E), NEW list \in Seq(E)
    PROVE  /\ Weights(DOMAIN list, Sizes(list))
           /\ Size(list) = Total(Sizes(list)) /\ Size(list) \in Nat
<1>1. Len(list) \in Nat /\ DOMAIN list = 1..Len(list) /\ \A i \in 1..Len(list) : list[i] \in E
    BY LenProperties, ElementOfSeq
<1>2. Sizes(list) \in [DOMAIN list -> Nat]
    BY <1>1 DEF Sizes, Sized
<1>3. IsFiniteSet(DOMAIN list)
    BY <1>1, FS_Interval
<1>4. Size(list) = Total(Sizes(list))
    BY DEF Size, Sizes
<1> QED BY <1>2, <1>3, <1>4, CellsFinite DEF Weights

\* No entries, no bytes.
LEMMA SizeEmpty ==
    Size(<<>>) = 0
<1>1. Sizes(<<>>) \in [{} -> Nat]
    BY DEF Sizes
<1>2. Total(Sizes(<<>>)) = 0
    BY <1>1, TotalZero
<1> QED BY <1>2 DEF Size, Sizes

\* The bytes of a list are the total of any stretch of sizes that are its own.
LEMMA SizeStretch ==
    ASSUME NEW E, Sized(E), NEW part \in Seq(E), NEW k \in Nat,
           NEW T, T = (k + 1)..(k + Len(part)), NEW f, Weights(T, f),
           \A i \in 1..Len(part) : part[i].size = f[k + i]
    PROVE  Size(part) = Total(f)
<1> DEFINE S == DOMAIN part
           h == [i \in S |-> k + i]
<1>1. Len(part) \in Nat /\ S = 1..Len(part)
    BY LenProperties
<1>2. h \in Bijection(S, T)
  <2>1. h \in [S -> T]
      BY <1>1
  <2>2. \A i, j \in S : h[i] = h[j] => i = j
      BY <1>1
  <2>3. \A y \in T : y - k \in S /\ h[y - k] = y
      BY <1>1
  <2> HIDE DEF h, S
  <2> QED BY <2>1, <2>2, <2>3 DEF Bijection, Injection, Surjection, IsInjective
<1>3. \A i \in S : f[h[i]] = Sizes(part)[i]
    BY <1>1 DEF Sizes
<1>4. Weights(S, Sizes(part)) /\ Size(part) = Total(Sizes(part))
    BY SizeType
<1>5. Renaming(S, Sizes(part), T, f, h)
  <2> HIDE DEF h, S
  <2> QED BY <1>2, <1>3, <1>4 DEF Renaming
<1> HIDE DEF h, S
<1>6. Total(f) = Total(Sizes(part))
    BY <1>5, TotalRenamed
<1> QED BY <1>4, <1>6

\* The two parts of a concatenation.
LEMMA ConcatParts ==
    ASSUME NEW E, NEW s \in Seq(E), NEW t \in Seq(E)
    PROVE  /\ s \o t \in Seq(E) /\ Len(s \o t) = Len(s) + Len(t)
           /\ Len(s) \in Nat /\ Len(t) \in Nat
           /\ \A i \in 1..Len(s) : (s \o t)[i] = s[i]
           /\ \A i \in 1..Len(t) : (s \o t)[Len(s) + i] = t[i]
BY LenProperties, ConcatProperties

\* The bytes of a list in front of another are added.
LEMMA SizeConcat ==
    ASSUME NEW E, Sized(E), NEW s \in Seq(E), NEW t \in Seq(E)
    PROVE  Size(s \o t) = Size(s) + Size(t)
<1> DEFINE list == s \o t
           f == Sizes(list)
           S == DOMAIN list
           A == 1..Len(s)
           B == (Len(s) + 1)..(Len(s) + Len(t))
           g == [i \in A |-> f[i]]
           h == [i \in B |-> f[i]]
<1>1. /\ list \in Seq(E) /\ Len(list) = Len(s) + Len(t) /\ Len(s) \in Nat /\ Len(t) \in Nat
      /\ \A i \in 1..Len(s) : list[i] = s[i]
      /\ \A i \in 1..Len(t) : list[Len(s) + i] = t[i]
    BY ConcatParts
<1> HIDE DEF list
<1>2. Weights(S, f) /\ Size(list) = Total(f) /\ S = 1..Len(list)
    BY <1>1, SizeType, LenProperties
<1>3. S = A \cup B /\ A \cap B = {}
    BY <1>1, <1>2
<1>4. Weights(A, g) /\ Weights(B, h)
  <2>1. IsFiniteSet(A) /\ IsFiniteSet(B)
      BY <1>1, FS_Interval
  <2>2. f \in [S -> Nat]
      BY <1>2 DEF Weights
  <2>3. g \in [A -> Nat] /\ h \in [B -> Nat]
      BY <1>3, <2>2
  <2> QED BY <2>1, <2>3 DEF Weights
<1>5. (\A i \in A : g[i] = f[i]) /\ (\A i \in B : h[i] = f[i])
    OBVIOUS
<1>6. (\A i \in A : f[i] = s[i].size) /\ \A i \in 1..Len(t) : f[Len(s) + i] = t[i].size
    BY <1>1, <1>2 DEF Sizes
<1>7. Size(s) = Total(g)
  <2>1. A = (0 + 1)..(0 + Len(s)) /\ \A i \in 1..Len(s) : s[i].size = g[0 + i]
      BY <1>1, <1>6
  <2> HIDE DEF g, A
  <2> QED BY <1>4, <2>1, SizeStretch
<1>8. Size(t) = Total(h)
  <2>1. \A i \in 1..Len(t) : t[i].size = h[Len(s) + i]
      BY <1>1, <1>6
  <2>2. B = (Len(s) + 1)..(Len(s) + Len(t))
      OBVIOUS
  <2> HIDE DEF h, B
  <2> QED BY <1>1, <1>4, <2>1, <2>2, SizeStretch
<1>9. Total(f) = Total(g) + Total(h)
  <2> HIDE DEF f, g, h, S, A, B
  <2>1. Split(S, f, A, g, B, h)
      BY <1>2, <1>3, <1>4, <1>5 DEF Split
  <2> QED BY <2>1, TotalSplit
<1> QED BY <1>2, <1>7, <1>8, <1>9 DEF list

\* One entry more.
LEMMA SizeAppend ==
    ASSUME NEW E, Sized(E), NEW list \in Seq(E), NEW e \in E
    PROVE  Size(Append(list, e)) = Size(list) + e.size
<1> DEFINE one == <<e>>
           f == [i \in {1} |-> e.size]
<1>1. one \in Seq(E) /\ Len(one) = 1 /\ one[1] = e /\ e.size \in Nat
    BY DEF Sized
<1>2. Append(list, e) = list \o one
    BY AppendIsConcat
<1>3. Weights({1}, f) /\ Total(f) = e.size
    BY <1>1, TotalSingle
<1>4. Size(one) = Total(f)
  <2>1. {1} = (0 + 1)..(0 + Len(one))
      BY <1>1
  <2>2. \A i \in 1..Len(one) : one[i].size = f[0 + i]
      BY <1>1
  <2> HIDE DEF f, one
  <2> QED BY <1>1, <1>3, <2>1, <2>2, SizeStretch, SMTT(30)
<1> HIDE DEF one, f
<1>5. Size(list \o one) = Size(list) + Size(one)
    BY <1>1, SizeConcat
<1> QED BY <1>2, <1>3, <1>4, <1>5

\* A list cut in two.
LEMMA SizeCut ==
    ASSUME NEW E, Sized(E), NEW list \in Seq(E), NEW n \in 0..Len(list)
    PROVE  /\ SubSeq(list, 1, n) \in Seq(E) /\ From(list, n) \in Seq(E)
           /\ Len(From(list, n)) = Len(list) - n
           /\ \A i \in 1..Len(From(list, n)) : From(list, n)[i] = list[n + i]
           /\ Size(list) = Size(SubSeq(list, 1, n)) + Size(From(list, n))
<1>1. Len(list) \in Nat
    BY LenProperties
<1>2. \A i \in 1..Len(list) : list[i] \in E
    BY ElementOfSeq
<1>3. SubSeq(list, 1, n) \in Seq(E) /\ Len(SubSeq(list, 1, n)) = n
    BY <1>1, <1>2, SubSeqProperties
<1>4. /\ From(list, n) \in Seq(E) /\ Len(From(list, n)) = Len(list) - n
      /\ \A i \in 1..Len(From(list, n)) : From(list, n)[i] = list[n + i]
    BY <1>1, <1>2, SubSeqProperties DEF From
<1>5. list = SubSeq(list, 1, n) \o From(list, n)
  <2>1. 1 \in 1..Len(list) + 1 /\ n \in 1 - 1..Len(list) /\ Len(list) \in n..Len(list)
      BY <1>1
  <2>2. SubSeq(list, 1, n) \o SubSeq(list, n + 1, Len(list)) = SubSeq(list, 1, Len(list))
      BY <2>1, ConcatAdjacentSubSeq
  <2> QED BY <2>2, SubSeqFull DEF From
<1>6. Size(SubSeq(list, 1, n) \o From(list, n)) = Size(SubSeq(list, 1, n)) + Size(From(list, n))
    BY <1>3, <1>4, SizeConcat
<1> QED BY <1>3, <1>4, <1>5, <1>6

\* One entry less.
LEMMA SizeRemoved ==
    ASSUME NEW E, Sized(E), NEW list \in Seq(E), NEW k \in 1..Len(list)
    PROVE  /\ RemoveAt(list, k) \in Seq(E) /\ Len(RemoveAt(list, k)) = Len(list) - 1
           /\ \A i \in 1..Len(RemoveAt(list, k)) :
                RemoveAt(list, k)[i] = list[IF i < k THEN i ELSE i + 1]
           /\ Size(RemoveAt(list, k)) = Size(list) - list[k].size
<1>1. Len(list) \in Nat /\ list[k] \in E /\ k - 1 \in 0..Len(list) /\ k \in 0..Len(list)
    BY LenProperties, ElementOfSeq
<1> DEFINE head == SubSeq(list, 1, k - 1)
           tail == From(list, k)
<1>2. /\ head \in Seq(E) /\ Len(head) = k - 1 /\ \A i \in 1..(k - 1) : head[i] = list[i]
    BY <1>1, ElementOfSeq, SubSeqProperties
<1>3. /\ tail \in Seq(E) /\ Len(tail) = Len(list) - k /\ \A i \in 1..Len(tail) : tail[i] = list[k + i]
      /\ Size(list) = Size(SubSeq(list, 1, k)) + Size(tail)
    BY <1>1, SizeCut
<1>4. RemoveAt(list, k) = head \o tail
    BY DEF RemoveAt, From
<1>5. SubSeq(list, 1, k) = Append(head, list[k])
    BY <1>1, ElementOfSeq, SubSeqRecursiveSecond
<1> HIDE DEF head, tail
<1>6. /\ head \o tail \in Seq(E) /\ Len(head \o tail) = Len(list) - 1
      /\ \A i \in 1..(k - 1) : (head \o tail)[i] = head[i]
      /\ \A i \in 1..(Len(list) - k) : (head \o tail)[k - 1 + i] = tail[i]
  <2>1. /\ head \o tail \in Seq(E) /\ Len(head \o tail) = Len(head) + Len(tail)
        /\ \A i \in 1..Len(head) : (head \o tail)[i] = head[i]
        /\ \A i \in 1..Len(tail) : (head \o tail)[Len(head) + i] = tail[i]
    <3>1. head \in Seq(E) /\ tail \in Seq(E)
        BY <1>2, <1>3
    <3> QED BY <3>1, ConcatParts
  <2> QED BY <1>1, <1>2, <1>3, <2>1
<1>7. \A i \in 1..(Len(list) - 1) : (head \o tail)[i] = list[IF i < k THEN i ELSE i + 1]
  <2> TAKE i \in 1..(Len(list) - 1)
  <2>1. CASE i < k
      BY <1>1, <1>2, <1>6, <2>1
  <2>2. CASE ~(i < k)
    <3>1. i - k + 1 \in 1..(Len(list) - k) /\ k - 1 + (i - k + 1) = i /\ k + (i - k + 1) = i + 1
        BY <1>1, <2>2
    <3>2. (head \o tail)[k - 1 + (i - k + 1)] = tail[i - k + 1]
        BY <1>6, <3>1
    <3>3. tail[i - k + 1] = list[k + (i - k + 1)]
        BY <1>3, <3>1
    <3> QED BY <2>2, <3>1, <3>2, <3>3
  <2> QED BY <2>1, <2>2
<1>8. Size(head \o tail) = Size(head) + Size(tail)
    BY <1>2, <1>3, SizeConcat
<1>9. Size(Append(head, list[k])) = Size(head) + list[k].size
    BY <1>1, <1>2, SizeAppend
<1>10. Size(head) \in Nat /\ Size(tail) \in Nat /\ list[k].size \in Nat
    BY <1>1, <1>2, <1>3, SizeType DEF Sized
<1>11. Size(list) = Size(Append(head, list[k])) + Size(tail)
    BY <1>3, <1>5, Zenon
<1>12. Size(head \o tail) = Size(list) - list[k].size
    BY <1>8, <1>9, <1>10, <1>11
<1> HIDE DEF Size
<1> QED BY <1>4, <1>6, <1>7, <1>12

\* An entry moved to the end.
LEMMA SizeMoved ==
    ASSUME NEW E, Sized(E), NEW list \in Seq(E), NEW k \in 1..Len(list)
    PROVE  /\ Append(RemoveAt(list, k), list[k]) \in Seq(E)
           /\ Len(Append(RemoveAt(list, k), list[k])) = Len(list)
           /\ \A i \in 1..Len(list) : Append(RemoveAt(list, k), list[k])[i] =
                list[IF i < k THEN i ELSE IF i = Len(list) THEN k ELSE i + 1]
           /\ Size(Append(RemoveAt(list, k), list[k])) = Size(list)
<1>1. Len(list) \in Nat /\ list[k] \in E
    BY LenProperties, ElementOfSeq
<1>2. /\ RemoveAt(list, k) \in Seq(E) /\ Len(RemoveAt(list, k)) = Len(list) - 1
      /\ \A i \in 1..Len(RemoveAt(list, k)) :
            RemoveAt(list, k)[i] = list[IF i < k THEN i ELSE i + 1]
      /\ Size(RemoveAt(list, k)) = Size(list) - list[k].size
    BY SizeRemoved
<1> DEFINE rest == RemoveAt(list, k)
<1> HIDE DEF rest
<1>3. /\ Append(rest, list[k]) \in Seq(E) /\ Len(Append(rest, list[k])) = Len(list)
      /\ Append(rest, list[k])[Len(list)] = list[k]
      /\ \A i \in 1..(Len(list) - 1) : Append(rest, list[k])[i] = rest[i]
    BY <1>1, <1>2, AppendProperties DEF rest
<1>4. Size(Append(rest, list[k])) = Size(rest) + list[k].size
    BY <1>1, <1>2, SizeAppend DEF rest
<1>5. Size(list) \in Nat /\ list[k].size \in Nat
    BY <1>1, SizeType DEF Sized
<1>6. \A i \in 1..Len(list) : Append(rest, list[k])[i] =
            list[IF i < k THEN i ELSE IF i = Len(list) THEN k ELSE i + 1]
  <2> TAKE i \in 1..Len(list)
  <2>1. CASE i = Len(list)
      BY <1>1, <1>3, <2>1
  <2>2. CASE i # Len(list)
    <3>1. i \in 1..(Len(list) - 1)
        BY <1>1, <2>2
    <3> QED BY <1>2, <1>3, <2>2, <3>1 DEF rest
  <2> QED BY <2>1, <2>2
<1>7. Size(Append(rest, list[k])) = Size(list)
    BY <1>2, <1>4, <1>5 DEF rest
<1> QED BY <1>3, <1>6, <1>7 DEF rest

\* A list without the entries that match none of the keys, built one by one.
LEMMA DroppedSteps ==
    ASSUME NEW E, NEW list \in Seq(E), NEW stay
    PROVE  \E left :
              /\ left = [n \in 0..Len(list) |->
                            IF n = 0 THEN <<>> ELSE After(left[n - 1], list[n], stay)]
              /\ Dropped(list, stay) = left[Len(list)]
<1> DEFINE Steps(m, f) ==
        f = [n \in 0..m |-> IF n = 0 THEN <<>> ELSE After(f[n - 1], list[n], stay)]
           Stuck == {m \in 0..Len(list) : ~\E f : Steps(m, f)}
<1>1. Len(list) \in Nat
    BY LenProperties
<1>2. \E f : Steps(0, f)
  <2>1. Steps(0, [n \in 0..0 |-> <<>>])
      OBVIOUS
  <2> QED BY <2>1
<1>3. ASSUME NEW m \in Nat, NEW f, Steps(m, f)
      PROVE  \E g : Steps(m + 1, g)
  <2> DEFINE g == [n \in 0..(m + 1) |->
                    IF n <= m THEN f[n] ELSE After(f[m], list[m + 1], stay)]
  <2>1. \A n \in 0..m : f[n] = IF n = 0 THEN <<>> ELSE After(f[n - 1], list[n], stay)
      BY <1>3
  <2>2. \A n \in 0..(m + 1) :
            g[n] = IF n = 0 THEN <<>> ELSE After(g[n - 1], list[n], stay)
    <3> TAKE n \in 0..(m + 1)
    <3>1. CASE n = 0
        BY <2>1, <3>1
    <3>2. CASE n \in 1..m
      <4>1. n - 1 \in 0..m /\ n \in 0..m /\ n # 0 /\ n <= m /\ n - 1 <= m /\ n - 1 \in 0..(m + 1)
          BY <3>2
      <4>2. g[n] = f[n] /\ g[n - 1] = f[n - 1]
          BY <4>1
      <4> HIDE DEF g
      <4> QED BY <2>1, <4>1, <4>2
    <3>3. CASE n = m + 1
      <4>1. g[n] = After(f[m], list[m + 1], stay) /\ g[m] = f[m] /\ n - 1 = m /\ n # 0
          BY <3>3
      <4> HIDE DEF g
      <4> QED BY <3>3, <4>1
    <3> QED BY <3>1, <3>2, <3>3
  <2>3. g = [n \in 0..(m + 1) |-> g[n]]
      OBVIOUS
  <2> HIDE DEF g
  <2>4. Steps(m + 1, g)
      BY <2>2, <2>3
  <2> QED BY <2>4
<1>4. Stuck = {}
  <2>1. SUFFICES ASSUME Stuck # {} PROVE FALSE
      OBVIOUS
  <2>2. PICK m \in Stuck : \A k \in Stuck : m <= k
    <3>1. Stuck \in SUBSET Nat
        BY <1>1
    <3> HIDE DEF Stuck
    <3> QED BY <2>1, <3>1, LeastNatural
  <2> HIDE DEF Steps
  <2>3. m # 0
      BY <1>2, <2>2
  <2>4. m \in Nat /\ m - 1 \in 0..Len(list) /\ m - 1 \notin Stuck /\ m - 1 + 1 = m
      BY <1>1, <2>2, <2>3
  <2>5. PICK f : Steps(m - 1, f)
      BY <2>4
  <2>6. m - 1 \in Nat
      BY <2>3, <2>4
  <2>7. \E g : Steps(m - 1 + 1, g)
      BY <1>3, <2>5, <2>6
  <2> QED BY <2>2, <2>4, <2>7
<1>5. \E f : Steps(Len(list), f)
    BY <1>1, <1>4
<1> DEFINE left == CHOOSE f : Steps(Len(list), f)
<1>6. Steps(Len(list), left)
  <2> HIDE DEF Steps
  <2> QED BY <1>5
<1>7. Dropped(list, stay) = left[Len(list)]
    BY DEF Dropped
<1> HIDE DEF left
<1> QED BY <1>6, <1>7

\* What stays has no other entries and no more bytes.
LEMMA DroppedKeeps ==
    ASSUME NEW E, Sized(E), NEW list \in Seq(E), NEW stay
    PROVE  /\ Dropped(list, stay) \in Seq(E)
           /\ ToSet(Dropped(list, stay)) \subseteq ToSet(list)
           /\ Size(Dropped(list, stay)) <= Size(list)
<1>1. PICK left :
              /\ left = [n \in 0..Len(list) |->
                            IF n = 0 THEN <<>> ELSE After(left[n - 1], list[n], stay)]
              /\ Dropped(list, stay) = left[Len(list)]
    BY DroppedSteps
<1>2. Len(list) \in Nat /\ DOMAIN list = 1..Len(list) /\ \A i \in 1..Len(list) : list[i] \in E
    BY LenProperties, ElementOfSeq
<1> DEFINE upto(n) == SubSeq(list, 1, n)
           Good(n) == /\ left[n] \in Seq(E) /\ ToSet(left[n]) \subseteq ToSet(list)
                      /\ Size(left[n]) <= Size(upto(n))
           Bad == {n \in 0..Len(list) : ~Good(n)}
<1>3. \A n \in 0..Len(list) : upto(n) \in Seq(E) /\ Len(upto(n)) = n
    BY <1>2, SubSeqProperties
<1>4. Good(0)
  <2>1. left[0] = <<>>
      BY <1>1, <1>2
  <2>2. upto(0) = <<>>
      BY SubSeqEmpty
  <2>3. ToSet(<<>>) = {}
      BY DEF ToSet
  <2>4. <<>> \in Seq(E)
      OBVIOUS
  <2>5. Size(left[0]) = 0 /\ Size(upto(0)) = 0
      BY <2>1, <2>2, SizeEmpty, Zenon
  <2> QED BY <2>1, <2>3, <2>4, <2>5
<1>5. ASSUME NEW n \in 1..Len(list), Good(n - 1)
      PROVE  Good(n)
  <2>1. left[n] = After(left[n - 1], list[n], stay)
      BY <1>1, <1>2
  <2>2. upto(n) = Append(upto(n - 1), list[n])
    <3>1. upto(n) = SubSeq(list, 1, n - 1) \o <<list[n]>>
        BY <1>2, SubSeqRecursiveSecond
    <3>2. upto(n - 1) \in Seq(E) /\ list[n] \in E
        BY <1>2, <1>3
    <3> HIDE DEF upto
    <3> QED BY <3>1, <3>2, AppendIsConcat DEF upto
  <2>3. upto(n - 1) \in Seq(E) /\ list[n] \in E /\ n - 1 \in 0..Len(list)
      BY <1>2, <1>3
  <2> DEFINE was == left[n - 1]
             e == list[n]
             before == upto(n - 1)
  <2> HIDE DEF was, e, before
  <2>4. was \in Seq(E) /\ ToSet(was) \subseteq ToSet(list) /\ Size(was) <= Size(before)
      BY <1>5 DEF was, before
  <2>5. Size(Append(before, e)) = Size(before) + e.size
      BY <2>3, SizeAppend DEF e, before
  <2>6. Size(Append(was, e)) = Size(was) + e.size
      BY <2>3, <2>4, SizeAppend DEF e
  <2>7. Size(before) \in Nat /\ Size(was) \in Nat /\ e.size \in Nat
      BY <2>3, <2>4, SizeType DEF e, before, Sized
  <2>8. Append(was, e) \in Seq(E) /\ ToSet(Append(was, e)) \subseteq ToSet(list)
    <3>1. /\ Append(was, e) \in Seq(E) /\ Len(Append(was, e)) = Len(was) + 1
          /\ \A i \in 1..Len(was) : Append(was, e)[i] = was[i]
          /\ Append(was, e)[Len(was) + 1] = e
          /\ Len(was) \in Nat /\ DOMAIN was = 1..Len(was)
          /\ DOMAIN Append(was, e) = 1..(Len(was) + 1)
        BY <2>3, <2>4, AppendProperties, LenProperties DEF e
    <3>2. e \in ToSet(list)
        BY <1>2 DEF ToSet, e
    <3>3. \A i \in 1..(Len(was) + 1) : Append(was, e)[i] \in ToSet(list)
      <4> TAKE i \in 1..(Len(was) + 1)
      <4>1. CASE i = Len(was) + 1
          BY <3>1, <3>2, <4>1
      <4>2. CASE i # Len(was) + 1
        <5>1. i \in 1..Len(was) /\ was[i] \in ToSet(was)
            BY <3>1, <4>2 DEF ToSet
        <5> QED BY <2>4, <3>1, <5>1
      <4> QED BY <4>1, <4>2
    <3>4. ToSet(Append(was, e)) = {Append(was, e)[i] : i \in 1..(Len(was) + 1)}
        BY <3>1 DEF ToSet
    <3> QED BY <3>1, <3>3, <3>4
  <2>9. left[n] = Append(was, e) \/ left[n] = was
      BY <2>1 DEF After, was, e
  <2>10. upto(n) = Append(before, e)
      BY <2>2 DEF before, e
  <2>11. Size(Append(was, e)) <= Size(Append(before, e)) /\ Size(was) <= Size(Append(before, e))
      BY <2>4, <2>5, <2>6, <2>7
  <2>12. /\ left[n] \in Seq(E) /\ ToSet(left[n]) \subseteq ToSet(list)
         /\ Size(left[n]) <= Size(Append(before, e))
      BY <2>4, <2>8, <2>9, <2>11
  <2> HIDE DEF upto
  <2> QED BY <2>10, <2>12
<1>6. Bad = {}
  <2>1. SUFFICES ASSUME Bad # {} PROVE FALSE
      OBVIOUS
  <2>2. PICK n \in Bad : \A k \in Bad : n <= k
    <3>1. Bad \in SUBSET Nat
        BY <1>2
    <3> HIDE DEF Bad
    <3> QED BY <2>1, <3>1, LeastNatural
  <2> HIDE DEF Good
  <2>3. n \in 1..Len(list) /\ n - 1 \in 0..Len(list) /\ n - 1 \notin Bad
      BY <1>2, <1>4, <2>2
  <2>4. Good(n - 1)
      BY <2>3
  <2> QED BY <1>5, <2>2, <2>3, <2>4
<1>7. Good(Len(list))
  <2> HIDE DEF Good
  <2> QED BY <1>2, <1>6
<1>8. upto(Len(list)) = list
    BY SubSeqFull
<1> QED BY <1>1, <1>7, <1>8

-----------------------------------------------------------------------------
(***************************************************************************)
(* Each cache by itself.                                                   *)
(***************************************************************************)

PageType == [result : Result, size : 1..PageBytes]
SetType == [key : Selected \X Signature, size : 1..SetBytes, result : Result]

Distinct(list) ==
    \A i, j \in DOMAIN list : i # j => list[i].result.query # list[j].result.query

\* A page cache with the right count that is within its limits.
Fits(c) ==
    /\ c \in [id : MaySign, list : Seq(PageType), used : Nat]
    /\ c.used = Size(c.list) /\ c.used <= PageBytes
    /\ Len(c.list) <= Pages
    /\ Distinct(c.list)

\* A reference cache with the right count.
Counts(r) ==
    /\ r \in [id : MaySign, list : Seq(SetType), used : Nat, junk : Nat]
    /\ r.used = Size(r.list)

\* The sizes of pages and of sets are numbers.
LEMMA Sizes_Typed ==
    Sized(PageType) /\ Sized(SetType)
BY CacheAssumption DEF Sized, PageType, SetType

\* No two equal queries after an entry has gone, and none equal to its query.
LEMMA DistinctRemoved ==
    ASSUME NEW E, NEW list \in Seq(E), Distinct(list), Sized(E), NEW k \in 1..Len(list)
    PROVE  /\ Distinct(RemoveAt(list, k))
           /\ \A e \in ToSet(RemoveAt(list, k)) : e.result.query # list[k].result.query
<1>1. Len(list) \in Nat /\ DOMAIN list = 1..Len(list)
    BY LenProperties
<1> DEFINE to(i) == IF i < k THEN i ELSE i + 1
           rest == RemoveAt(list, k)
<1>2. rest \in Seq(E) /\ Len(rest) = Len(list) - 1 /\ \A i \in 1..Len(rest) : rest[i] = list[to(i)]
    BY SizeRemoved
<1>3. DOMAIN rest = 1..(Len(list) - 1)
    BY <1>2, LenProperties
<1> HIDE DEF rest
<1>4. /\ \A i \in 1..(Len(list) - 1) : to(i) \in 1..Len(list) /\ to(i) # k
      /\ \A i, j \in 1..(Len(list) - 1) : i # j => to(i) # to(j)
    BY <1>1
<1> HIDE DEF to
<1>5. \A i \in DOMAIN rest : to(i) \in DOMAIN list /\ rest[i] = list[to(i)] /\ to(i) # k
    BY <1>1, <1>2, <1>3, <1>4
<1>6. ASSUME NEW i \in DOMAIN rest, NEW j \in DOMAIN rest, i # j
      PROVE  rest[i].result.query # rest[j].result.query
  <2>1. to(i) # to(j)
      BY <1>3, <1>4, <1>6
  <2> QED BY <1>5, <2>1 DEF Distinct
<1>7. ASSUME NEW i \in DOMAIN rest
      PROVE  rest[i].result.query # list[k].result.query
    BY <1>1, <1>5 DEF Distinct
<1> QED BY <1>6, <1>7 DEF Distinct, ToSet, rest

\* Nor after one has been added whose query is new.
LEMMA DistinctAppended ==
    ASSUME NEW E, NEW list \in Seq(E), Distinct(list), NEW e \in E,
           \A x \in ToSet(list) : x.result.query # e.result.query
    PROVE  Distinct(Append(list, e))
<1> DEFINE new == Append(list, e)
<1>1. /\ Len(list) \in Nat /\ DOMAIN list = 1..Len(list)
      /\ \A i \in 1..Len(list) : new[i] = list[i]
      /\ new[Len(list) + 1] = e /\ DOMAIN new = 1..(Len(list) + 1)
    BY AppendProperties, LenProperties
<1>2. \A i \in DOMAIN list : list[i].result.query # e.result.query
    BY DEF ToSet
<1> HIDE DEF new
<1>3. ASSUME NEW i \in DOMAIN new, NEW j \in DOMAIN new, i # j
      PROVE  new[i].result.query # new[j].result.query
  <2>1. CASE i \in DOMAIN list /\ j \in DOMAIN list
      BY <1>1, <1>3, <2>1 DEF Distinct
  <2>2. CASE i = Len(list) + 1
    <3>1. j \in DOMAIN list
        BY <1>1, <1>3, <2>2
    <3> QED BY <1>1, <1>2, <2>2, <3>1
  <2>3. CASE j = Len(list) + 1
    <3>1. i \in DOMAIN list
        BY <1>1, <1>3, <2>3
    <3> QED BY <1>1, <1>2, <2>3, <3>1
  <2> QED BY <1>1, <2>1, <2>2, <2>3
<1> QED BY <1>3 DEF Distinct, new

\* Nor without the oldest.
LEMMA DistinctFrom ==
    ASSUME NEW E, NEW list \in Seq(E), Distinct(list), Sized(E), NEW k \in 0..Len(list)
    PROVE  Distinct(From(list, k))
<1>1. /\ Len(list) \in Nat /\ DOMAIN list = 1..Len(list)
    BY LenProperties
<1> DEFINE rest == From(list, k)
<1>2. /\ rest \in Seq(E) /\ Len(rest) = Len(list) - k
      /\ \A i \in 1..Len(rest) : rest[i] = list[k + i]
    BY SizeCut
<1>3. DOMAIN rest = 1..(Len(list) - k)
    BY <1>2, LenProperties
<1>4. /\ \A i \in 1..(Len(list) - k) : k + i \in 1..Len(list)
      /\ \A i, j \in 1..(Len(list) - k) : i # j => k + i # k + j
    BY <1>1
<1> HIDE DEF rest
<1>5. ASSUME NEW i \in DOMAIN rest, NEW j \in DOMAIN rest, i # j
      PROVE  rest[i].result.query # rest[j].result.query
  <2>1. /\ k + i \in DOMAIN list /\ k + j \in DOMAIN list /\ k + i # k + j
        /\ rest[i] = list[k + i] /\ rest[j] = list[k + j]
      BY <1>1, <1>2, <1>3, <1>4, <1>5
  <2> QED BY <2>1 DEF Distinct
<1> QED BY <1>5 DEF Distinct, rest

\* The oldest entries gone, the others stay.
LEMMA FromEntries ==
    ASSUME NEW E, NEW list \in Seq(E), Sized(E), NEW k \in 0..Len(list)
    PROVE  ToSet(From(list, k)) \subseteq ToSet(list)
<1>1. /\ Len(list) \in Nat /\ DOMAIN list = 1..Len(list)
    BY LenProperties
<1> DEFINE rest == From(list, k)
<1>2. /\ rest \in Seq(E) /\ Len(rest) = Len(list) - k
      /\ \A i \in 1..Len(rest) : rest[i] = list[k + i]
    BY SizeCut
<1>3. DOMAIN rest = 1..(Len(list) - k)
    BY <1>2, LenProperties
<1>4. \A i \in 1..(Len(list) - k) : k + i \in 1..Len(list)
    BY <1>1
<1> HIDE DEF rest
<1> QED BY <1>1, <1>2, <1>3, <1>4 DEF ToSet, rest

\* What is added, and nothing else, is new.
LEMMA AppendEntries ==
    ASSUME NEW E, NEW list \in Seq(E), NEW e \in E
    PROVE  ToSet(Append(list, e)) = ToSet(list) \cup {e}
<1>1. /\ Append(list, e) \in Seq(E) /\ Len(Append(list, e)) = Len(list) + 1
      /\ \A i \in 1..Len(list) : Append(list, e)[i] = list[i]
      /\ Append(list, e)[Len(list) + 1] = e
      /\ Len(list) \in Nat /\ DOMAIN list = 1..Len(list)
      /\ DOMAIN Append(list, e) = 1..(Len(list) + 1)
    BY AppendProperties, LenProperties
<1>2. ToSet(Append(list, e)) = {Append(list, e)[i] : i \in 1..(Len(list) + 1)}
    BY <1>1 DEF ToSet
<1>3. 1..(Len(list) + 1) = 1..Len(list) \cup {Len(list) + 1}
    BY <1>1
<1>4. ToSet(list) = {list[i] : i \in 1..Len(list)}
    BY <1>1 DEF ToSet
<1> QED BY <1>1, <1>2, <1>3, <1>4

\* Without one of them.
LEMMA RemovedEntries ==
    ASSUME NEW E, NEW list \in Seq(E), Sized(E), NEW k \in 1..Len(list)
    PROVE  ToSet(RemoveAt(list, k)) \subseteq ToSet(list)
<1>1. Len(list) \in Nat /\ DOMAIN list = 1..Len(list)
    BY LenProperties
<1> DEFINE to(i) == IF i < k THEN i ELSE i + 1
           rest == RemoveAt(list, k)
<1>2. rest \in Seq(E) /\ Len(rest) = Len(list) - 1 /\ \A i \in 1..Len(rest) : rest[i] = list[to(i)]
    BY SizeRemoved
<1>3. DOMAIN rest = 1..(Len(list) - 1)
    BY <1>2, LenProperties
<1> HIDE DEF rest
<1>4. \A i \in 1..(Len(list) - 1) : to(i) \in 1..Len(list)
    BY <1>1
<1> HIDE DEF to
<1> QED BY <1>1, <1>2, <1>3, <1>4 DEF ToSet, rest

\* With one of them moved to the end.
LEMMA MovedEntries ==
    ASSUME NEW E, NEW list \in Seq(E), Sized(E), NEW k \in 1..Len(list)
    PROVE  ToSet(Append(RemoveAt(list, k), list[k])) \subseteq ToSet(list)
<1>1. RemoveAt(list, k) \in Seq(E) /\ list[k] \in E
    BY SizeRemoved, ElementOfSeq
<1>2. ToSet(Append(RemoveAt(list, k), list[k])) = ToSet(RemoveAt(list, k)) \cup {list[k]}
    BY <1>1, AppendEntries
<1>3. list[k] \in ToSet(list)
    BY LenProperties DEF ToSet
<1> QED BY <1>2, <1>3, RemovedEntries

\* The pages of another signature are forgotten.
LEMMA PagesCurrent ==
    ASSUME Fits(pages), NEW id \in MaySign
    PROVE  /\ Fits(Current(id)) /\ Current(id).id = id
           /\ ToSet(Current(id).list) # {} => pages.id = id
           /\ ToSet(Current(id).list) \subseteq ToSet(pages.list)
<1>1. CASE id = pages.id
    BY <1>1 DEF Current
<1>2. CASE id # pages.id
  <2>1. Current(id) = [id |-> id, list |-> <<>>, used |-> 0]
      BY <1>2 DEF Current
  <2>2. Size(<<>>) = 0 /\ <<>> \in Seq(PageType) /\ Len(<<>>) = 0 /\ ToSet(<<>>) = {}
      BY SizeEmpty DEF ToSet
  <2>3. Distinct(<<>>)
      BY DEF Distinct
  <2>4. 0 <= PageBytes /\ 0 <= Pages
      BY CacheAssumption
  <2> QED BY <2>1, <2>2, <2>3, <2>4 DEF Fits
<1> QED BY <1>1, <1>2

\* A hit is moved to the end.
LEMMA PagesMoved ==
    ASSUME NEW c, Fits(c), NEW k \in DOMAIN c.list
    PROVE  LET d == [c EXCEPT !.list = Append(RemoveAt(@, k), @[k])]
           IN  Fits(d) /\ d.id = c.id /\ ToSet(d.list) \subseteq ToSet(c.list)
<1> DEFINE list == c.list
           moved == Append(RemoveAt(list, k), list[k])
           d == [c EXCEPT !.list = moved]
<1>1. list \in Seq(PageType) /\ Len(list) <= Pages /\ Distinct(list) /\ c.used = Size(list)
    BY DEF Fits
<1>2. k \in 1..Len(list)
    BY <1>1, LenProperties
<1> HIDE DEF list
<1>3. moved \in Seq(PageType) /\ Len(moved) = Len(list) /\ Size(moved) = Size(list)
    BY <1>1, <1>2, Sizes_Typed, SizeMoved
<1>4. Distinct(moved) /\ ToSet(moved) \subseteq ToSet(list)
  <2>1. RemoveAt(list, k) \in Seq(PageType) /\ list[k] \in PageType
      BY <1>1, <1>2, Sizes_Typed, SizeRemoved, ElementOfSeq
  <2>2. /\ Distinct(RemoveAt(list, k))
        /\ \A e \in ToSet(RemoveAt(list, k)) : e.result.query # list[k].result.query
      BY <1>1, <1>2, Sizes_Typed, DistinctRemoved
  <2>3. Distinct(moved)
      BY <2>1, <2>2, DistinctAppended
  <2> QED BY <1>1, <1>2, <2>3, Sizes_Typed, MovedEntries
<1> HIDE DEF moved
<1>5. /\ d \in [id : MaySign, list : Seq(PageType), used : Nat]
      /\ d.id = c.id /\ d.list = moved /\ d.used = c.used
    BY <1>3 DEF Fits
<1>6. Fits(d)
    BY <1>1, <1>3, <1>4, <1>5 DEF Fits
<1> QED BY <1>4, <1>5, <1>6 DEF list, moved

\* As many pages are popped as it takes.
LEMMA PoppedEnough ==
    ASSUME NEW list \in Seq(PageType), NEW n \in 1..PageBytes
    PROVE  LET i == Popped(list, Size(list), n)
           IN  /\ i \in 0..Len(list)
               /\ Size(From(list, i)) = Size(list) - Size(SubSeq(list, 1, i))
               /\ Size(From(list, i)) + n <= PageBytes /\ Len(From(list, i)) < Pages
<1> DEFINE fits(j) == \/ j = Len(list)
                      \/ /\ Size(list) - Size(SubSeq(list, 1, j)) + n <= PageBytes
                         /\ Len(list) - j < Pages
           good == {j \in 0..Len(list) : fits(j)}
           i == Popped(list, Size(list), n)
<1>1. Len(list) \in Nat /\ Size(list) \in Nat
    BY LenProperties, SizeType, Sizes_Typed
<1>2. PICK k \in good : \A j \in good : k <= j
  <2>1. Len(list) \in good
      BY <1>1
  <2>2. good \in SUBSET Nat
      BY <1>1
  <2> HIDE DEF good
  <2> QED BY <2>1, <2>2, LeastNatural
<1>3. \E j \in 0..Len(list) : fits(j) /\ \A m \in 0..(j - 1) : ~fits(m)
  <2>1. k \in 0..Len(list) /\ fits(k)
      BY <1>2
  <2>2. \A m \in 0..(k - 1) : m \in 0..Len(list) /\ ~(k <= m)
      BY <1>1, <2>1
  <2> HIDE DEF fits
  <2>3. \A m \in 0..(k - 1) : ~fits(m)
      BY <1>2, <2>2
  <2> QED BY <2>1, <2>3
<1>4. i \in 0..Len(list) /\ fits(i)
  <2>1. i = CHOOSE j \in 0..Len(list) : fits(j) /\ \A m \in 0..(j - 1) : ~fits(m)
      BY DEF Popped
  <2> HIDE DEF fits, i
  <2> QED BY <1>3, <2>1
<1> HIDE DEF i
<1>5. /\ SubSeq(list, 1, i) \in Seq(PageType) /\ From(list, i) \in Seq(PageType)
      /\ Len(From(list, i)) = Len(list) - i
      /\ Size(list) = Size(SubSeq(list, 1, i)) + Size(From(list, i))
    BY <1>4, SizeCut, Sizes_Typed
<1>6. Size(SubSeq(list, 1, i)) \in Nat /\ Size(From(list, i)) \in Nat
    BY <1>5, SizeType, Sizes_Typed
<1>7. Size(From(list, i)) = Size(list) - Size(SubSeq(list, 1, i))
    BY <1>5, <1>6
<1>8. CASE i = Len(list)
  <2>1. From(list, i) = <<>>
      BY <1>1, <1>8, SubSeqEmpty DEF From
  <2>2. Size(From(list, i)) = 0 
      BY <2>1, SizeEmpty, Zenon
  <2>3. Len(From(list, i)) = 0
      BY <2>1
  <2> QED BY <1>4, <1>7, <2>2, <2>3, CacheAssumption DEF i
<1>9. CASE i # Len(list)
    BY <1>4, <1>5, <1>7, <1>9 DEF i
<1> QED BY <1>8, <1>9

\* A page that is put in the cache.
LEMMA PagesStored ==
    ASSUME Fits(pages), NEW page \in PageType
    PROVE  /\ Fits(Store(page)) /\ Store(page).id = pages.id
           /\ ToSet(Store(page).list) \subseteq ToSet(pages.list) \cup {page}
<1> DEFINE list == pages.list
           old == {i \in DOMAIN list : list[i].result.query = page.result.query}
           rest == IF old = {} THEN list ELSE RemoveAt(list, CHOOSE i \in old : TRUE)
           n == page.size
           used == pages.used - (Size(list) - Size(rest))
           k == Popped(rest, used, n)
           left == From(rest, k)
           new == Append(left, page)
<1>1. /\ list \in Seq(PageType) /\ Distinct(list) /\ pages.used = Size(list)
      /\ Size(list) \in Nat /\ Size(list) <= PageBytes
      /\ Len(list) \in Nat /\ DOMAIN list = 1..Len(list)
    BY SizeType, Sizes_Typed, LenProperties DEF Fits
<1>2. n \in 1..PageBytes
    BY DEF PageType
<1> HIDE DEF list, n
<1>3. /\ rest \in Seq(PageType) /\ Distinct(rest) /\ ToSet(rest) \subseteq ToSet(list)
      /\ Size(rest) <= Size(list) /\ Size(rest) \in Nat
      /\ \A e \in ToSet(rest) : e.result.query # page.result.query
  <2>1. CASE old = {}
    <3>1. rest = list
        BY <2>1
    <3> QED BY <1>1, <2>1, <3>1 DEF ToSet
  <2>2. CASE old # {}
    <3> DEFINE m == CHOOSE i \in old : TRUE
    <3>1. m \in old
        BY <2>2
    <3>2. m \in 1..Len(list) /\ list[m].result.query = page.result.query
        BY <1>1, <3>1
    <3>3. rest = RemoveAt(list, m)
        BY <2>2
    <3> HIDE DEF rest, m, old
    <3>4. /\ rest \in Seq(PageType) /\ Len(rest) = Len(list) - 1
          /\ Size(rest) = Size(list) - list[m].size
        BY <1>1, <3>2, <3>3, SizeRemoved, Sizes_Typed
    <3>5. /\ Distinct(rest) /\ ToSet(rest) \subseteq ToSet(list)
          /\ \A e \in ToSet(rest) : e.result.query # page.result.query
        BY <1>1, <3>2, <3>3, DistinctRemoved, RemovedEntries, Sizes_Typed
    <3>6. Size(rest) \in Nat /\ list[m].size \in Nat
        BY <1>1, <3>2, <3>4, SizeType, Sizes_Typed, ElementOfSeq DEF Sized
    <3> QED BY <1>1, <3>4, <3>5, <3>6
  <2> QED BY <2>1, <2>2
<1> HIDE DEF rest, old
<1>4. used = Size(rest)
    BY <1>1, <1>3
<1>5. /\ k \in 0..Len(rest) /\ Size(left) = Size(rest) - Size(SubSeq(rest, 1, k))
      /\ Size(left) + n <= PageBytes /\ Len(left) < Pages
    BY <1>2, <1>3, <1>4, PoppedEnough
<1> HIDE DEF k, used
<1>6. left \in Seq(PageType) /\ Distinct(left) /\ ToSet(left) \subseteq ToSet(rest)
    BY <1>3, <1>5, SizeCut, DistinctFrom, FromEntries, Sizes_Typed
<1> HIDE DEF left
<1>7. Size(left) \in Nat /\ Len(left) \in Nat /\ DOMAIN left = 1..Len(left)
    BY <1>6, SizeType, Sizes_Typed, LenProperties
<1>8. /\ new \in Seq(PageType) /\ Len(new) = Len(left) + 1
      /\ \A i \in 1..Len(left) : new[i] = left[i]
      /\ new[Len(left) + 1] = page /\ DOMAIN new = 1..(Len(left) + 1)
    BY <1>6, <1>7, AppendProperties, LenProperties
<1>9. Size(new) = Size(left) + n
    BY <1>6, SizeAppend, Sizes_Typed DEF n
<1>10. ToSet(new) = ToSet(left) \cup {page}
    BY <1>6, AppendEntries
<1>11. \A e \in ToSet(left) : e.result.query # page.result.query
    BY <1>3, <1>6
<1>12. Distinct(new)
    BY <1>6, <1>11, DistinctAppended
<1> HIDE DEF new
<1>13. Store(page) = [pages EXCEPT !.list = new,
                                   !.used = used - Size(SubSeq(rest, 1, k)) + n]
    BY DEF Store, list, old, rest, n, used, k, left, new
<1>14. used - Size(SubSeq(rest, 1, k)) + n = Size(new) /\ Size(new) \in Nat /\ Size(new) <= PageBytes
    BY <1>2, <1>4, <1>5, <1>7, <1>9
<1>15. /\ Store(page) \in [id : MaySign, list : Seq(PageType), used : Nat]
       /\ Store(page).id = pages.id /\ Store(page).list = new /\ Store(page).used = Size(new)
    BY <1>8, <1>13, <1>14 DEF Fits
<1>16. Len(new) <= Pages
    BY <1>5, <1>7, <1>8, CacheAssumption
<1>17. ToSet(new) \subseteq ToSet(pages.list) \cup {page}
    BY <1>3, <1>6, <1>10 DEF list
<1> QED BY <1>12, <1>14, <1>15, <1>16, <1>17 DEF Fits

\* The sets of another signature are dropped, where that is possible.
LEMMA RefsKeyed ==
    ASSUME Counts(refs), NEW id \in MaySign, NEW r \in Keyed(id)
    PROVE  /\ Counts(r) /\ r.id = id /\ r.used <= refs.used /\ r.junk = refs.junk
           /\ ToSet(r.list) \subseteq ToSet(refs.list)
<1>1. CASE id = refs.id
  <2>1. r = refs
      BY <1>1 DEF Keyed
  <2> QED BY <1>1, <2>1 DEF Counts
<1>2. CASE id # refs.id
  <2> DEFINE list == refs.list
  <2>1. PICK stay \in SUBSET {e.key : e \in ToSet(list)} :
            r = [refs EXCEPT !.id = id, !.list = Dropped(@, stay),
                             !.used = @ - (Size(list) - Size(Dropped(list, stay)))]
      BY <1>2 DEF Keyed
  <2> DEFINE left == Dropped(list, stay)
  <2>2. list \in Seq(SetType) /\ refs.used = Size(list) /\ Size(list) \in Nat
      BY SizeType, Sizes_Typed DEF Counts
  <2> HIDE DEF list
  <2>3. left \in Seq(SetType) /\ ToSet(left) \subseteq ToSet(list) /\ Size(left) <= Size(list)
      BY <2>2, DroppedKeeps, Sizes_Typed
  <2>4. Size(left) \in Nat
      BY <2>3, SizeType, Sizes_Typed
  <2>5. r = [refs EXCEPT !.id = id, !.list = left, !.used = @ - (Size(list) - Size(left))]
      BY <2>1 DEF list
  <2> HIDE DEF left
  <2>6. r.used = Size(left)
      BY <2>2, <2>4, <2>5 DEF Counts
  <2>7. /\ r \in [id : MaySign, list : Seq(SetType), used : Nat, junk : Nat]
        /\ r.id = id /\ r.junk = refs.junk /\ r.list = left
      BY <2>3, <2>4, <2>5, <2>6 DEF Counts
  <2> QED BY <2>2, <2>3, <2>4, <2>6, <2>7 DEF Counts, list
<1> QED BY <1>1, <1>2

\* A set that is read becomes the last to be evicted.
LEMMA RefsMoved ==
    ASSUME Counts(refs), NEW k \in DOMAIN refs.list
    PROVE  LET d == [refs EXCEPT !.list = Append(RemoveAt(@, k), @[k])]
           IN  /\ Counts(d) /\ d.used = refs.used /\ d.junk = refs.junk
               /\ ToSet(d.list) \subseteq ToSet(refs.list)
<1> DEFINE list == refs.list
           moved == Append(RemoveAt(list, k), list[k])
           d == [refs EXCEPT !.list = moved]
<1>1. list \in Seq(SetType) /\ refs.used = Size(list)
    BY DEF Counts
<1>2. k \in 1..Len(list)
    BY <1>1, LenProperties
<1> HIDE DEF list
<1>3. /\ moved \in Seq(SetType) /\ Size(moved) = Size(list)
      /\ ToSet(moved) \subseteq ToSet(list)
    BY <1>1, <1>2, Sizes_Typed, SizeMoved, MovedEntries
<1> HIDE DEF moved
<1>4. /\ d \in [id : MaySign, list : Seq(SetType), used : Nat, junk : Nat]
      /\ d.list = moved /\ d.used = refs.used /\ d.junk = refs.junk
    BY <1>3 DEF Counts
<1>5. Counts(d)
    BY <1>1, <1>3, <1>4 DEF Counts
<1> QED BY <1>3, <1>4, <1>5 DEF list, moved

\* A set that is damaged or out of date is dropped.
LEMMA RefsRemoved ==
    ASSUME Counts(refs), NEW k \in DOMAIN refs.list
    PROVE  LET d == [refs EXCEPT !.list = RemoveAt(@, k), !.used = @ - refs.list[k].size]
           IN  /\ Counts(d) /\ d.used <= refs.used /\ d.junk = refs.junk
               /\ ToSet(d.list) \subseteq ToSet(refs.list)
<1> DEFINE list == refs.list
           left == RemoveAt(list, k)
           n == list[k].size
           d == [refs EXCEPT !.list = left, !.used = @ - n]
<1>1. list \in Seq(SetType) /\ refs.used = Size(list)
    BY DEF Counts
<1>2. k \in 1..Len(list)
    BY <1>1, LenProperties
<1> HIDE DEF list
<1>3. /\ left \in Seq(SetType) /\ Size(left) = Size(list) - n
      /\ ToSet(left) \subseteq ToSet(list)
    BY <1>1, <1>2, Sizes_Typed, SizeRemoved, RemovedEntries
<1>4. n \in Nat
    BY <1>1, <1>2, ElementOfSeq, Sizes_Typed DEF Sized
<1>5. Size(left) \in Nat
    BY <1>3, SizeType, Sizes_Typed
<1> HIDE DEF left, n
<1>6. /\ d \in [id : MaySign, list : Seq(SetType), used : Nat, junk : Nat]
      /\ d.list = left /\ d.used = Size(left) /\ d.junk = refs.junk
    BY <1>1, <1>3, <1>5 DEF Counts
<1>7. d.used <= refs.used
  <2>1. Size(list) \in Nat
      BY <1>1, SizeType, Sizes_Typed
  <2> QED BY <1>1, <1>3, <1>4, <1>6, <2>1
<1>8. Counts(d)
    BY <1>6 DEF Counts
<1> QED BY <1>3, <1>6, <1>7, <1>8 DEF list, left, n

\* The oldest sets are evicted.
LEMMA RefsEvicted ==
    ASSUME NEW r, Counts(r), NEW d \in Evictions(r)
    PROVE  /\ Counts(d) /\ d.used <= r.used /\ d.junk = r.junk /\ d.id = r.id
           /\ ToSet(d.list) \subseteq ToSet(r.list)
<1> DEFINE list == r.list
<1>1. PICK k \in 0..Len(list) :
            d = [r EXCEPT !.list = From(@, k), !.used = @ - Size(SubSeq(list, 1, k))]
    BY DEF Evictions
<1> DEFINE left == From(list, k)
           n == Size(SubSeq(list, 1, k))
<1>2. list \in Seq(SetType) /\ r.used = Size(list)
    BY DEF Counts
<1>3. d = [r EXCEPT !.list = left, !.used = @ - n]
    BY <1>1
<1> HIDE DEF list
<1>4. /\ left \in Seq(SetType) /\ SubSeq(list, 1, k) \in Seq(SetType)
      /\ Size(list) = n + Size(left) /\ ToSet(left) \subseteq ToSet(list)
    BY <1>2, SizeCut, FromEntries, Sizes_Typed
<1>5. n \in Nat /\ Size(left) \in Nat /\ Size(list) \in Nat
    BY <1>2, <1>4, SizeType, Sizes_Typed
<1> HIDE DEF left, n
<1>6. r.used - n = Size(left)
    BY <1>2, <1>4, <1>5
<1>7. /\ d \in [id : MaySign, list : Seq(SetType), used : Nat, junk : Nat]
      /\ d.list = left /\ d.used = Size(left) /\ d.junk = r.junk /\ d.id = r.id
    BY <1>3, <1>4, <1>5, <1>6 DEF Counts
<1>8. Counts(d) /\ d.used <= r.used
    BY <1>2, <1>4, <1>5, <1>7 DEF Counts
<1> QED BY <1>4, <1>7, <1>8 DEF list

\* A set is added.
LEMMA RefsAdded ==
    ASSUME Counts(refs), NEW e \in SetType
    PROVE  LET d == [refs EXCEPT !.list = Append(@, e), !.used = @ + e.size]
           IN  /\ Counts(d) /\ d.used = refs.used + e.size /\ d.junk = refs.junk
               /\ ToSet(d.list) = ToSet(refs.list) \cup {e}
<1> DEFINE list == refs.list
           new == Append(list, e)
           n == e.size
           d == [refs EXCEPT !.list = new, !.used = @ + n]
<1>1. list \in Seq(SetType) /\ refs.used = Size(list) /\ Size(list) \in Nat
    BY SizeType, Sizes_Typed DEF Counts
<1>2. n \in Nat
    BY Sizes_Typed DEF Sized
<1> HIDE DEF list
<1>3. new \in Seq(SetType)
    BY <1>1, AppendProperties
<1>4. Size(new) = Size(list) + n /\ ToSet(new) = ToSet(list) \cup {e}
    BY <1>1, SizeAppend, AppendEntries, Sizes_Typed
<1> HIDE DEF new, n
<1>5. /\ d \in [id : MaySign, list : Seq(SetType), used : Nat, junk : Nat]
      /\ d.list = new /\ d.used = refs.used + n /\ d.junk = refs.junk
  <2>1. refs.used + n \in Nat
      BY <1>1, <1>2
  <2>2. d = [refs EXCEPT !.list = new, !.used = refs.used + n]
      OBVIOUS
  <2> QED BY <1>3, <2>1, <2>2 DEF Counts
<1>6. Counts(d)
    BY <1>1, <1>4, <1>5 DEF Counts
<1> QED BY <1>4, <1>5, <1>6 DEF list, new, n

-----------------------------------------------------------------------------
(***************************************************************************)
(* The calls: what each variable may hold, and what a call has at each of  *)
(* its places.                                                             *)
(***************************************************************************)

CallType ==
    [pc : Places, query : Queries \cup {None}, grouped : BOOLEAN, id : MaySign,
     result : Result \cup {None}, at : MaySign, hit : BOOLEAN, changed : BOOLEAN,
     chunk : Nat, seen : SUBSET Result, start : (0..MaxEvents) \cup {None}]
TicketType == [key : Selected \X Signature, owner : Callers \cup {None}, set : Result \cup {None}]

Typed ==
    /\ events \in 0..MaxEvents /\ now \in Signature
    /\ Fits(pages) /\ Counts(refs)
    /\ pend \subseteq TicketType /\ IsFiniteSet(pend)
    /\ call \in [Callers -> CallType]

\* What a call holds at each of its places.
Placed(t) ==
    /\ call[t].pc # "idle" => Query(t) \in Queries
    /\ call[t].pc \in {"lock", "read", "reading", "begin", "chunk", "next"} => Query(t) \in Selected
    /\ call[t].pc \in {"lock", "chunk", "next"} => call[t].grouped
    /\ call[t].grouped =>
        Query(t) \in Selected /\ call[t].id = None /\ call[t].pc # "put" /\ call[t].start \in 0..MaxEvents
    /\ call[t].pc = "install" => Query(t) = "build"
    /\ Query(t) = "build" => call[t].id = None
    /\ call[t].pc \in {"work", "install", "put", "chunk"} =>
        call[t].result \in Result /\ call[t].result.query = Query(t)
    /\ call[t].pc \in {"work", "install"} => call[t].result.via = "scan"
    /\ call[t].pc = "finish" /\ call[t].result # None => call[t].result.query = Query(t)
    /\ call[t].hit => call[t].pc \in {"put", "chunk", "done"}
    /\ call[t].changed => call[t].pc = "done"
AllPlaced == \A t \in Callers : Placed(t)

\* A signature that is taken is that of now, if there is one.
LEMMA SignatureNow ==
    ASSUME Typed, NEW id \in Signatures
    PROVE  id \in MaySign /\ (id # None => id = now) /\ now \in Signature
BY DEF Typed, Signatures, MaySign

\* Updates of one call keep all the others.
LEMMA PageHitTyped ==
    ASSUME Typed, AllPlaced, NEW t \in Callers, NEW q \in Queries, PageHit(t, q)
    PROVE  Typed'
<1>1. PICK id \in Signatures \ {None} :
        LET cache == Current(id)
            i == Position(cache.list, q)
        IN  /\ At(t, "idle") /\ Free(q) /\ q # "build" /\ Has(cache.list, q)
            /\ pages' = [cache EXCEPT !.list = Append(RemoveAt(@, i), @[i])]
            /\ call' = [call EXCEPT ![t] = [Idle EXCEPT !.pc = "done", !.query = q, !.at = id,
                                            !.hit = TRUE, !.result = cache.list[i].result]]
            /\ UNCHANGED <<now, events, refs, pend>>
    BY DEF PageHit
<1> DEFINE cache == Current(id)
           i == Position(cache.list, q)
<1>2. id \in MaySign /\ id \in Signature
    BY SignatureNow, <1>1 DEF MaySign
<1>3. Fits(cache)
    BY <1>2, PagesCurrent DEF Typed
<1>4. i \in DOMAIN cache.list
    BY <1>1 DEF Has, Position
<1>5. Fits(pages')
    BY <1>1, <1>3, <1>4, PagesMoved
<1>6. cache.list[i] \in PageType
    BY <1>3, <1>4, ElementOfSeq, LenProperties DEF Fits
<1> HIDE DEF cache, i
<1>7. cache.list[i].result \in Result
    BY <1>6 DEF PageType
<1>8. [Idle EXCEPT !.pc = "done", !.query = q, !.at = id, !.hit = TRUE,
                   !.result = cache.list[i].result] \in CallType
    BY <1>2, <1>7 DEF Idle, CallType, Places, MaySign
<1>9. call' \in [Callers -> CallType]
    BY <1>1, <1>8 DEF Typed, cache, i
<1> QED BY <1>1, <1>5, <1>9 DEF Typed, Fits, Counts

\* A miss may empty the pages.
LEMMA PageMissTyped ==
    ASSUME Typed, AllPlaced, NEW t \in Callers, NEW q \in Queries, PageMiss(t, q)
    PROVE  Typed'
<1>1. PICK id \in Signatures :
        /\ pages' = Current(id)
        /\ call' = [call EXCEPT ![t] = [Idle EXCEPT !.query = q, !.id = id,
                                        !.pc = IF q \in Selected THEN "read" ELSE "run"]]
        /\ UNCHANGED <<now, events, refs, pend>>
    BY DEF PageMiss
<1>2. id \in MaySign
    BY SignatureNow
<1>3. Fits(pages')
    BY <1>1, <1>2, PagesCurrent DEF Typed
<1>4. [Idle EXCEPT !.query = q, !.id = id, !.pc = IF q \in Selected THEN "read" ELSE "run"] \in CallType
    BY <1>2 DEF Idle, CallType, Places, MaySign
<1>5. call' \in [Callers -> CallType]
    BY <1>1, <1>4 DEF Typed
<1> QED BY <1>1, <1>3, <1>5 DEF Typed, Fits, Counts

\* A call at one of its places has a known record.
LEMMA CallTyped ==
    ASSUME Typed, AllPlaced, NEW t \in Callers
    PROVE  call[t] \in CallType /\ Placed(t) /\ call \in [Callers -> CallType] /\ now \in Signature
BY DEF Typed, AllPlaced

\* The actions that leave the caches and the files alone.
LEMMA CallOnlyTyped ==
    ASSUME Typed, AllPlaced, NEW t \in Callers,
           \/ \E q \in Queries : Start(t, q)
           \/ StartBuild(t) \/ NoSets(t) \/ Run(t) \/ Fail(t)
           \/ Chunk(t) \/ More(t) \/ Grouped(t) \/ Return(t)
    PROVE  Typed'
<1> USE CallTyped
<1>1. UNCHANGED <<now, events, pages, refs, pend>>
    BY DEF Start, StartBuild, NoSets, Run, Fail, Chunk, More, Grouped, Return
<1>0. SUFFICES call' \in [Callers -> CallType]
    BY <1>1 DEF Typed, Fits, Counts
<1>2. CASE \E q \in Queries : Start(t, q)
  <2>1. PICK q \in Queries : Start(t, q)
      BY <1>2
  <2>2. now.engine \in 0..MaxEvents
      BY DEF Signature
  <2>3. [Idle EXCEPT !.pc = "lock", !.query = q, !.grouped = TRUE, !.start = now.engine] \in CallType
      BY <2>2 DEF Idle, CallType, Places, MaySign
  <2> QED BY <2>1, <2>3 DEF Start
<1>3. CASE StartBuild(t)
    BY <1>3 DEF StartBuild, Idle, CallType, Places, MaySign, Queries
<1>4. CASE NoSets(t)
    BY <1>4 DEF NoSets, Goto, CallType, Places
<1>5. CASE Run(t)
  <2>1. Query(t) \in Queries
      BY <1>5 DEF Run, At, Placed
  <2>2. [query |-> Query(t), engine |-> now.engine, via |-> "scan"] \in Result
      BY <2>1 DEF Result, Signature
  <2> DEFINE r == [query |-> Query(t), engine |-> now.engine, via |-> "scan"]
  <2>3. call' = [call EXCEPT ![t] = [call[t] EXCEPT !.pc = "work", !.at = None, !.result = r]]
      BY <1>5 DEF Run
  <2>4. r \in Result /\ "work" \in Places /\ None \in MaySign
      BY <2>2 DEF Places, MaySign
  <2> HIDE DEF r
  <2>5. [call[t] EXCEPT !.pc = "work", !.at = None, !.result = r] \in CallType
      BY <2>4 DEF CallType
  <2> QED BY <2>3, <2>5
<1>6. CASE Fail(t)
    BY <1>6 DEF Fail, CallType, Places
<1>7. CASE Chunk(t)
  <2>1. call[t].result \in Result
      BY <1>7 DEF Chunk, At, Placed
  <2> DEFINE n == call[t].chunk + 1
             seen == call[t].seen \cup {call[t].result}
             got == [call[t] EXCEPT !.result = None, !.at = None, !.hit = FALSE,
                                    !.chunk = n, !.seen = seen]
             ended == [got EXCEPT !.pc = "done", !.changed = TRUE]
             next == [got EXCEPT !.pc = "next"]
  <2>2. call' = [call EXCEPT ![t] = ended] \/ call' = [call EXCEPT ![t] = next]
      BY <1>7 DEF Chunk
  <2>3. n \in Nat /\ seen \in SUBSET Result
      BY <2>1 DEF CallType
  <2> HIDE DEF n, seen
  <2>4. got \in CallType
      BY <2>3 DEF CallType, MaySign
  <2> HIDE DEF got
  <2>5. ended \in CallType /\ next \in CallType
      BY <2>4 DEF CallType, Places
  <2> HIDE DEF ended, next
  <2> QED BY <2>2, <2>5
<1>8. CASE More(t)
    BY <1>8 DEF More, Goto, CallType, Places
<1>9. CASE Grouped(t)
    BY <1>9 DEF Grouped, CallType, Places
<1>10. CASE Return(t)
    BY <1>10 DEF Return, Idle, CallType, Places, MaySign
<1> QED BY <1>2, <1>3, <1>4, <1>5, <1>6, <1>7, <1>8, <1>9, <1>10

\* A page is put only with an answer.
LEMMA PutTyped ==
    ASSUME Typed, AllPlaced, NEW t \in Callers, Put(t)
    PROVE  Typed'
<1> USE CallTyped
<1>1. Fits(pages')
  <2>1. CASE Keep(call[t].id, call[t].result)
    <3>1. PICK n \in 1..PageBytes : pages' = Store([result |-> call[t].result, size |-> n])
        BY <2>1 DEF Put
    <3>2. [result |-> call[t].result, size |-> n] \in PageType
        BY <2>1 DEF Keep, PageType, CallType
    <3> QED BY <3>1, <3>2, PagesStored DEF Typed
  <2>2. CASE ~Keep(call[t].id, call[t].result)
      BY <2>2 DEF Put, Typed
  <2> QED BY <2>1, <2>2
<1>2. call' \in [Callers -> CallType]
    BY DEF Put, Idle, CallType, Places, MaySign
<1> QED BY <1>1, <1>2 DEF Put, Typed, Counts

\* Failing removals are counted.
LEMMA FailsTyped ==
    ASSUME Typed, NEW n \in Nat, Fails(n)
    PROVE  events' \in 0..MaxEvents /\ events' >= events
BY CacheAssumption DEF Typed, Fails

\* So many removals can fail.
LEMMA KeptNat ==
    ASSUME NEW r, Counts(r)
    PROVE  Kept(r) \in Nat
BY LenProperties DEF Kept, Counts

\* What a look at the sets does to them, and where it leads.
LEMMA ReadOpenDoes ==
    ASSUME Typed, AllPlaced, NEW t \in Callers, ReadOpen(t)
    PROVE  /\ Counts(refs') /\ refs'.used <= refs.used /\ refs'.junk = refs.junk
           /\ ToSet(refs'.list) \subseteq ToSet(refs.list)
           /\ events' \in 0..MaxEvents /\ events' >= events
           /\ \E id \in Signatures :
                \/ call' = [call EXCEPT ![t].at = id, ![t].pc = "begin"]
                \/ /\ id # None /\ <<Query(t), id>> \in {e.key : e \in ToSet(refs'.list)}
                   /\ call' = [call EXCEPT ![t].at = id, ![t].pc = "reading"]
           /\ UNCHANGED <<now, pages, pend>>
<1>1. PICK id \in Signatures : \E r \in Keyed(id) :
        /\ refs' = r /\ Fails(Kept(r))
        /\ call' = [call EXCEPT ![t].at = id,
            ![t].pc = IF id # None /\ <<Query(t), id>> \in {e.key : e \in ToSet(r.list)}
                      THEN "reading" ELSE "begin"]
    BY DEF ReadOpen
<1>2. /\ refs' \in Keyed(id) /\ Fails(Kept(refs'))
      /\ call' = [call EXCEPT ![t].at = id,
            ![t].pc = IF id # None /\ <<Query(t), id>> \in {e.key : e \in ToSet(refs'.list)}
                      THEN "reading" ELSE "begin"]
    BY <1>1
<1>3. id \in MaySign
    BY SignatureNow
<1>4. /\ Counts(refs') /\ refs'.used <= refs.used /\ refs'.junk = refs.junk
      /\ ToSet(refs'.list) \subseteq ToSet(refs.list)
    BY <1>2, <1>3, RefsKeyed DEF Typed
<1>5. events' \in 0..MaxEvents /\ events' >= events
    BY <1>2, <1>4, KeptNat, FailsTyped
<1>6. \/ call' = [call EXCEPT ![t].at = id, ![t].pc = "begin"]
      \/ /\ id # None /\ <<Query(t), id>> \in {e.key : e \in ToSet(refs'.list)}
         /\ call' = [call EXCEPT ![t].at = id, ![t].pc = "reading"]
    BY <1>2
<1> QED BY <1>4, <1>5, <1>6 DEF ReadOpen

\* A set is opened, or the query goes on without.
LEMMA ReadOpenTyped ==
    ASSUME Typed, AllPlaced, NEW t \in Callers, ReadOpen(t)
    PROVE  Typed'
<1> USE CallTyped
<1>1. PICK id \in Signatures : \/ call' = [call EXCEPT ![t].at = id, ![t].pc = "begin"]
                               \/ call' = [call EXCEPT ![t].at = id, ![t].pc = "reading"]
    BY ReadOpenDoes
<1>2. id \in MaySign
    BY SignatureNow
<1>3. call' \in [Callers -> CallType]
    BY <1>1, <1>2 DEF CallType, Places
<1> QED BY <1>3, ReadOpenDoes DEF Typed, Fits

\* A set that was read keeps its place in the sum.
LEMMA ReadEndTyped ==
    ASSUME Typed, AllPlaced, NEW t \in Callers, ReadEnd(t)
    PROVE  Typed'
<1> USE CallTyped
<1>1. PICK i \in Entry(Query(t), call[t].at) :
        /\ refs' = [refs EXCEPT !.list = Append(RemoveAt(@, i), @[i])]
        /\ call' = [call EXCEPT ![t].result = refs.list[i].result, ![t].hit = TRUE,
                                ![t].pc = Returned(t)]
    BY DEF ReadEnd
<1>2. i \in DOMAIN refs.list
    BY DEF Entry
<1>3. Counts(refs')
    BY <1>1, <1>2, RefsMoved DEF Typed
<1>4. refs.list[i] \in SetType
    BY <1>2, ElementOfSeq, LenProperties DEF Typed, Counts
<1>5. refs.list[i].result \in Result /\ Returned(t) \in Places
    BY <1>4 DEF SetType, Places, Returned
<1>6. call' = [call EXCEPT ![t] = [call[t] EXCEPT !.result = refs.list[i].result, !.hit = TRUE,
                                                  !.pc = Returned(t)]]
    BY <1>1
<1>7. [call[t] EXCEPT !.result = refs.list[i].result, !.hit = TRUE, !.pc = Returned(t)] \in CallType
    BY <1>5 DEF CallType
<1>8. call' \in [Callers -> CallType]
    BY <1>6, <1>7
<1> QED BY <1>3, <1>8 DEF ReadEnd, Typed, Fits

\* A set that could not be read is dropped or stays.
LEMMA ReadFailsTyped ==
    ASSUME Typed, AllPlaced, NEW t \in Callers, ReadFails(t)
    PROVE  Typed'
<1> USE CallTyped
<1>1. Counts(refs') /\ events' \in 0..MaxEvents
  <2>1. CASE \E i \in Entry(Query(t), call[t].at) : Fails(0) /\
            refs' = [refs EXCEPT !.list = RemoveAt(@, i), !.used = @ - refs.list[i].size]
    <3>1. PICK i \in DOMAIN refs.list :
            refs' = [refs EXCEPT !.list = RemoveAt(@, i), !.used = @ - refs.list[i].size]
        BY <2>1 DEF Entry
    <3> QED BY <2>1, <3>1, RefsRemoved, FailsTyped DEF Typed
  <2>2. CASE Fails(1) /\ refs' = refs
      BY <2>2, FailsTyped DEF Typed
  <2> QED BY <2>1, <2>2 DEF ReadFails
<1>2. call' = [call EXCEPT ![t].pc = "begin"]
    BY DEF ReadFails, Goto
<1>3. call' \in [Callers -> CallType]
    BY <1>2 DEF CallType, Places
<1> QED BY <1>1, <1>3 DEF ReadFails, Typed, Fits

\* What a reservation does, and when there is one.
LEMMA BeginDoes ==
    ASSUME Typed, AllPlaced, NEW t \in Callers, Begin(t)
    PROVE  LET p == [key |-> <<Query(t), now>>, owner |-> t, set |-> None]
           IN  /\ Counts(refs') /\ refs'.used <= refs.used /\ refs'.junk = refs.junk
               /\ ToSet(refs'.list) \subseteq ToSet(refs.list)
               /\ events' \in 0..MaxEvents /\ events' >= events
               /\ p \in TicketType
               /\ \/ pend' = pend
                  \/ /\ pend' = pend \cup {p} /\ ~Full(refs'.used)
                     /\ \A x \in pend : x.key # p.key
               /\ call' = [call EXCEPT ![t].pc = "run"]
               /\ UNCHANGED <<now, pages>>
<1>1. PICK id \in Signatures : \E k \in Keyed(id) :
        LET key == <<Query(t), id>>
            needed == id # None /\ key \notin {e.key : e \in ToSet(k.list)}
                                /\ key \notin {p.key : p \in pend}
        IN  \/ ~needed /\ refs' = k /\ pend' = pend /\ Fails(Kept(k))
            \/ /\ needed /\ refs' \in Evictions(k)
               /\ Fails(Kept(k) + IF Full(refs'.used) /\ refs'.list # <<>> THEN 1 ELSE 0)
               /\ pend' \in {pend} \cup
                    IF Full(refs'.used) THEN {}
                    ELSE {pend \cup {[key |-> key, owner |-> t, set |-> None]}}
    BY DEF Begin
<1> DEFINE key == <<Query(t), id>>
           p == [key |-> key, owner |-> t, set |-> None]
<1>2. PICK k \in Keyed(id) :
        /\ refs' = k \/ refs' \in Evictions(k)
        /\ Fails(Kept(k)) \/ Fails(Kept(k) + 1) \/ Fails(Kept(k) + 0)
        /\ \/ pend' = pend
           \/ /\ id # None /\ key \notin {x.key : x \in pend}
              /\ ~Full(refs'.used) /\ pend' = pend \cup {p}
    BY <1>1
<1>3. id \in MaySign /\ (id # None => id = now) /\ now \in Signature
    BY SignatureNow
<1>4. /\ Counts(k) /\ k.used <= refs.used /\ k.junk = refs.junk
      /\ ToSet(k.list) \subseteq ToSet(refs.list) /\ Kept(k) \in Nat
    BY <1>3, RefsKeyed, KeptNat DEF Typed
<1>5. /\ Counts(refs') /\ refs'.used <= refs.used /\ refs'.junk = refs.junk
      /\ ToSet(refs'.list) \subseteq ToSet(refs.list)
  <2>1. CASE refs' = k
      BY <1>4, <2>1
  <2>2. CASE refs' \in Evictions(k)
    <3>1. /\ Counts(refs') /\ refs'.used <= k.used /\ refs'.junk = k.junk
          /\ ToSet(refs'.list) \subseteq ToSet(k.list)
        BY <1>4, <2>2, RefsEvicted
    <3>2. refs'.used \in Nat /\ k.used \in Nat /\ refs.used \in Nat
        BY <1>4, <3>1 DEF Counts, Typed
    <3> QED BY <1>4, <3>1, <3>2
  <2> QED BY <1>2, <2>1, <2>2
<1>6. events' \in 0..MaxEvents /\ events' >= events
    BY <1>2, <1>4, FailsTyped
<1>7. Query(t) \in Selected
    BY CallTyped DEF Begin, At, Placed
<1>8. [key |-> <<Query(t), now>>, owner |-> t, set |-> None] \in TicketType
    BY <1>3, <1>7 DEF TicketType
<1>9. \/ pend' = pend
      \/ /\ pend' = pend \cup {p} /\ ~Full(refs'.used) /\ p.key = <<Query(t), now>>
         /\ p = [key |-> <<Query(t), now>>, owner |-> t, set |-> None]
         /\ \A x \in pend : x.key # p.key
    BY <1>2, <1>3
<1>10. call' = [call EXCEPT ![t].pc = "run"] /\ UNCHANGED <<now, pages>>
    BY DEF Begin, Goto
<1> HIDE DEF p
<1> QED BY <1>5, <1>6, <1>8, <1>9, <1>10

\* One ticket more at most.
LEMMA BeginTyped ==
    ASSUME Typed, AllPlaced, NEW t \in Callers, Begin(t)
    PROVE  Typed'
<1> DEFINE p == [key |-> <<Query(t), now>>, owner |-> t, set |-> None]
<1>1. /\ Counts(refs') /\ events' \in 0..MaxEvents /\ UNCHANGED <<now, pages>>
      /\ pend' = pend \/ pend' = pend \cup {p}
      /\ p \in TicketType /\ call' = [call EXCEPT ![t].pc = "run"]
    BY BeginDoes
<1> HIDE DEF p
<1>2. pend' \subseteq TicketType /\ IsFiniteSet(pend')
    BY <1>1, FS_AddElement DEF Typed
<1>3. call' \in [Callers -> CallType]
    BY <1>1, CallTyped DEF CallType, Places
<1> QED BY <1>1, <1>2, <1>3 DEF Typed, Fits

\* How the files change in a step: not at all, one of them is written with a
\* number that there has not been, or the index of the calls is removed.
Advances ==
    /\ events' \in 0..MaxEvents /\ events' >= events
    /\ \/ now' = now
       \/ /\ events' = events + 1
          /\ \E name \in {"engine", "xrefs", "calls"} : now' = [now EXCEPT ![name] = events + 1]
       \/ now' = [now EXCEPT !.calls = 0]

\* A file that is written has a new number.
LEMMA WriteAdvances ==
    ASSUME Typed, NEW name \in {"engine", "xrefs", "calls"}, Write(name)
    PROVE  Advances /\ now' = [now EXCEPT ![name] = events + 1] /\ events' = events + 1
<1>1. MaxEvents \in Nat /\ events \in 0..MaxEvents
    BY CacheAssumption DEF Typed
<1>2. /\ events < MaxEvents /\ events' = events + 1
      /\ now' = [now EXCEPT ![name] = events + 1]
    BY DEF Write
<1>3. events' \in 0..MaxEvents /\ events' >= events
    BY <1>1, <1>2
<1> QED BY <1>2, <1>3 DEF Advances

\* Nothing happens to the files.
LEMMA StillAdvances ==
    ASSUME Typed, UNCHANGED <<now, events>>
    PROVE  Advances
BY DEF Typed, Advances

\* The files after a step.
LEMMA AdvancesTyped ==
    ASSUME Typed, Advances
    PROVE  now' \in Signature /\ events' \in 0..MaxEvents
<1>1. events \in 0..MaxEvents /\ now \in Signature /\ 0 \in 0..MaxEvents /\ events' \in 0..MaxEvents
  <2>1. MaxEvents \in Nat
      BY CacheAssumption
  <2> QED BY <2>1 DEF Typed, Advances
<1>2. CASE now' = now
    BY <1>1, <1>2
<1>3. CASE events' = events + 1
          /\ \E name \in {"engine", "xrefs", "calls"} : now' = [now EXCEPT ![name] = events + 1]
    BY <1>1, <1>3 DEF Signature
<1>4. CASE now' = [now EXCEPT !.calls = 0]
    BY <1>1, <1>4 DEF Signature
<1> QED BY <1>1, <1>2, <1>3, <1>4 DEF Advances

\* The tickets after an answer.
Answered(t, r, spooled) ==
    (pend \ Ticket(t)) \cup {[p EXCEPT !.set = IF spooled THEN r ELSE None] : p \in Ticket(t)}

\* The tickets of a query that has its answer.
LEMMA AnsweredTyped ==
    ASSUME Typed, NEW t \in Callers, NEW r \in Result, NEW spooled
    PROVE  Answered(t, r, spooled) \subseteq TicketType /\ IsFiniteSet(Answered(t, r, spooled))
<1> DEFINE set == IF spooled THEN r ELSE None
           f == [p \in Ticket(t) |-> [p EXCEPT !.set = set]]
           new == {[p EXCEPT !.set = set] : p \in Ticket(t)}
<1>1. pend \subseteq TicketType /\ IsFiniteSet(pend) /\ Ticket(t) \subseteq pend
    BY DEF Typed, Ticket
<1>2. set \in Result \cup {None}
    OBVIOUS
<1>3. IsFiniteSet(Ticket(t)) /\ IsFiniteSet(pend \ Ticket(t))
    BY <1>1, FS_Subset, FS_Difference
<1> HIDE DEF set
<1>4. f \in Surjection(Ticket(t), new)
    BY DEF Surjection
<1> HIDE DEF f
<1>5. IsFiniteSet(new)
    BY <1>3, <1>4, FS_Surjection
<1>6. new \subseteq TicketType
    BY <1>1, <1>2 DEF TicketType
<1>7. Answered(t, r, spooled) = (pend \ Ticket(t)) \cup new
    BY DEF Answered, set
<1> HIDE DEF new
<1>8. IsFiniteSet((pend \ Ticket(t)) \cup new)
    BY <1>3, <1>5, FS_Union
<1> QED BY <1>1, <1>6, <1>7, <1>8

\* Any answer: what becomes of the call, the tickets and the files.
Answers(t, via, spooled) ==
    LET r == [call[t].result EXCEPT !.via = via]
    IN  /\ r \in Result
        /\ call' = [call EXCEPT ![t].pc = "finish", ![t].result = r]
        /\ pend' = Answered(t, r, spooled)
        /\ Advances /\ UNCHANGED <<pages, refs>>

Vias == {"scan", "index", "restored", "built"}

\* An action of a worker is an answer in this sense.
LEMMA AnswerIs ==
    ASSUME Typed, AllPlaced, NEW t \in Callers, call[t].pc \in {"work", "install"},
           NEW via \in Vias, NEW spooled \in BOOLEAN,
           Answer(t, via, spooled), Advances, UNCHANGED <<pages, refs>>
    PROVE  Answers(t, via, spooled)
<1>1. call[t].result \in Result
    BY CallTyped DEF Placed
<1>2. [call[t].result EXCEPT !.via = via] \in Result
    BY <1>1 DEF Result, Vias
<1> QED BY <1>2 DEF Answer, Answers, Answered

\* An answer fits the call that waits for it.
LEMMA AnswerTyped ==
    ASSUME Typed, AllPlaced, NEW t \in Callers, NEW via, NEW spooled, Answers(t, via, spooled)
    PROVE  Typed'
<1> DEFINE r == [call[t].result EXCEPT !.via = via]
<1>1. /\ r \in Result /\ call' = [call EXCEPT ![t].pc = "finish", ![t].result = r]
      /\ pend' = Answered(t, r, spooled) /\ Advances /\ UNCHANGED <<pages, refs>>
    BY DEF Answers
<1> HIDE DEF r
<1>2. pend' \subseteq TicketType /\ IsFiniteSet(pend')
    BY <1>1, AnsweredTyped
<1>3. call' \in [Callers -> CallType]
    BY <1>1, CallTyped DEF CallType, Places
<1>4. now' \in Signature /\ events' \in 0..MaxEvents
    BY <1>1, AdvancesTyped
<1> QED BY <1>1, <1>2, <1>3, <1>4 DEF Typed

\* The answers of each kind of query, and the removal before a complete build.
LEMMA AnswerReferenceDoes ==
    ASSUME Typed, AllPlaced, NEW t \in Callers, AnswerReference(t)
    PROVE  \/ now.xrefs # 0 /\ Answers(t, "index", FALSE) /\ UNCHANGED <<now, events>>
           \/ /\ now.xrefs = 0 /\ Answers(t, "restored", FALSE)
              /\ now' = [now EXCEPT !.xrefs = events + 1] /\ events' = events + 1
           \/ /\ now.xrefs = 0 /\ \E spooled \in BOOLEAN : Answers(t, "scan", spooled)
              /\ UNCHANGED <<now, events>>
<1>1. call[t].pc \in {"work", "install"} /\ UNCHANGED <<pages, refs>>
    BY DEF AnswerReference, At
<1>2. CASE now.xrefs # 0 /\ Answer(t, "index", FALSE) /\ UNCHANGED <<now, events>>
    BY <1>1, <1>2, StillAdvances, AnswerIs DEF Vias
<1>3. CASE now.xrefs = 0 /\ Write("xrefs") /\ Answer(t, "restored", FALSE)
    BY <1>1, <1>3, WriteAdvances, AnswerIs DEF Vias
<1>4. CASE /\ now.xrefs = 0 /\ (\E spooled \in BOOLEAN : Answer(t, "scan", spooled))
           /\ UNCHANGED <<now, events>>
    BY <1>1, <1>4, StillAdvances, AnswerIs DEF Vias
<1> QED BY <1>2, <1>3, <1>4 DEF AnswerReference

\* Of a call graph: from an index, with a new index of the calls, or from a scan.
LEMMA AnswerGraphDoes ==
    ASSUME Typed, AllPlaced, NEW t \in Callers, AnswerGraph(t)
    PROVE  \/ /\ now.xrefs # 0 \/ now.calls # 0
              /\ Answers(t, "index", FALSE) /\ UNCHANGED <<now, events>>
           \/ /\ now.xrefs = 0 /\ now.calls = 0
              /\ \E via \in {"restored", "built"} : Answers(t, via, FALSE)
              /\ now' = [now EXCEPT !.calls = events + 1] /\ events' = events + 1
           \/ /\ now.xrefs = 0 /\ now.calls = 0
              /\ Answers(t, "scan", FALSE) /\ UNCHANGED <<now, events>>
<1>1. call[t].pc \in {"work", "install"} /\ UNCHANGED <<pages, refs>>
    BY DEF AnswerGraph, At
<1>2. CASE /\ now.xrefs # 0 \/ now.calls # 0
           /\ Answer(t, "index", FALSE) /\ UNCHANGED <<now, events>>
    BY <1>1, <1>2, StillAdvances, AnswerIs DEF Vias
<1>3. CASE /\ now.xrefs = 0 /\ now.calls = 0 /\ Write("calls")
           /\ \E via \in {"restored", "built"} : Answer(t, via, FALSE)
    BY <1>1, <1>3, WriteAdvances, AnswerIs DEF Vias
<1>4. CASE /\ now.xrefs = 0 /\ now.calls = 0
           /\ Answer(t, "scan", FALSE) /\ UNCHANGED <<now, events>>
    BY <1>1, <1>4, StillAdvances, AnswerIs DEF Vias
<1> QED BY <1>2, <1>3, <1>4 DEF AnswerGraph

\* Of a build: an answer, or the removal of the index of the calls.
LEMMA AnswerBuildDoes ==
    ASSUME Typed, AllPlaced, NEW t \in Callers, AnswerBuild(t) \/ Install(t)
    PROVE  \/ \E via \in {"index", "restored", "built"} : Answers(t, via, FALSE)
           \/ /\ now' = [now EXCEPT !.calls = 0] /\ Advances
              /\ call' = [call EXCEPT ![t].pc = "install"]
              /\ UNCHANGED <<events, pages, refs, pend>>
<1>1. call[t].pc \in {"work", "install"} /\ UNCHANGED <<pages, refs>>
    BY DEF AnswerBuild, Install, At
<1>2. CASE now.xrefs # 0 /\ Answer(t, "index", FALSE) /\ UNCHANGED <<now, events>>
    BY <1>1, <1>2, StillAdvances, AnswerIs DEF Vias
<1>3. CASE now.xrefs = 0 /\ Write("xrefs") /\ Answer(t, "restored", FALSE)
    BY <1>1, <1>3, WriteAdvances, AnswerIs DEF Vias
<1>4. CASE /\ now.xrefs = 0 /\ now' = [now EXCEPT !.calls = 0]
           /\ Goto(t, "install") /\ UNCHANGED <<events, pend>>
  <2>1. events' \in 0..MaxEvents /\ events' >= events
      BY <1>4 DEF Typed
  <2>2. Advances
      BY <1>4, <2>1 DEF Advances
  <2> QED BY <1>1, <1>4, <2>2 DEF Goto
<1>5. CASE Install(t)
    BY <1>1, <1>5, WriteAdvances, AnswerIs DEF Vias, Install
<1> QED BY <1>2, <1>3, <1>4, <1>5 DEF AnswerBuild

Entered(p, n) == [key |-> p.key, size |-> n, result |-> p.set]
Orphan(p) == [p EXCEPT !.owner = None, !.set = None]

\* What the end of a query does with its ticket.
LEMMA FinishDoes ==
    ASSUME Typed, AllPlaced, NEW t \in Callers, Finish(t)
    PROVE  /\ call[t].pc = "finish" /\ Returns(t) /\ Advances /\ UNCHANGED <<now, pages>>
           /\ \/ Ticket(t) = {} /\ refs' = refs /\ pend' = pend
              \/ \E p \in Ticket(t), n \in 1..SetBytes :
                    /\ Valid(t, p) /\ Entered(p, n) \in SetType
                    /\ refs' = [refs EXCEPT !.list = Append(@, Entered(p, n)), !.used = @ + n]
                    /\ pend' = pend \ {p}
              \/ \E p \in Ticket(t) : refs' = refs /\ pend' = pend \ {p}
              \/ \E p \in Ticket(t) :
                    /\ refs' = [refs EXCEPT !.junk = @ + 1]
                    /\ pend' = (pend \ {p}) \cup {Orphan(p)}
<1>1. call[t].pc = "finish" /\ Returns(t) /\ UNCHANGED <<now, pages>>
    BY DEF Finish, At
<1>2. CASE Ticket(t) = {} /\ UNCHANGED <<refs, pend, events>>
    BY <1>1, <1>2, StillAdvances
<1>3. CASE \E p \in Ticket(t), n \in 1..SetBytes : Valid(t, p)
            /\ refs' = [refs EXCEPT !.list = Append(@, [key |-> p.key, size |-> n,
                                                        result |-> p.set]),
                                    !.used = @ + n]
            /\ pend' = pend \ {p} /\ Fails(0)
  <2>1. PICK p \in Ticket(t), n \in 1..SetBytes :
            /\ Valid(t, p) /\ Fails(0) /\ pend' = pend \ {p}
            /\ refs' = [refs EXCEPT !.list = Append(@, Entered(p, n)), !.used = @ + n]
      BY <1>3 DEF Entered
  <2>2. p \in TicketType /\ p.set # None
      BY <2>1 DEF Typed, Ticket, Valid
  <2>3. Entered(p, n) \in SetType
      BY <2>2 DEF TicketType, SetType, Entered
  <2>4. Advances
      BY <1>1, <2>1, FailsTyped DEF Advances
  <2> QED BY <1>1, <2>1, <2>3, <2>4
<1>4. CASE \E p \in Ticket(t) : ~Valid(t, p) /\ Release(p)
  <2>1. PICK p \in Ticket(t) : Release(p)
      BY <1>4
  <2>2. Fails(0) \/ Fails(1)
      BY <2>1 DEF Release, Cleaned, Jammed
  <2>3. Advances
      BY <1>1, <2>2, FailsTyped DEF Advances
  <2> QED BY <1>1, <2>1, <2>3 DEF Release, Cleaned, Jammed, Orphan
<1> QED BY <1>2, <1>3, <1>4 DEF Finish

\* The end of a query: a set more, or a ticket less, or one without a query.
LEMMA FinishTyped ==
    ASSUME Typed, AllPlaced, NEW t \in Callers, Finish(t)
    PROVE  Typed'
<1> DEFINE Tickets(s) == s \subseteq TicketType /\ IsFiniteSet(s)
<1>1. Tickets(pend) /\ Ticket(t) \subseteq pend /\ Counts(refs)
    BY DEF Typed, Ticket
<1>2. \A p \in pend : Tickets(pend \ {p})
    BY <1>1, FS_RemoveElement
<1>3. Counts(refs') /\ Tickets(pend')
  <2>1. CASE refs' = refs /\ pend' = pend
      BY <1>1, <2>1
  <2>2. ASSUME NEW p \in Ticket(t), NEW n \in 1..SetBytes, Entered(p, n) \in SetType,
               refs' = [refs EXCEPT !.list = Append(@, Entered(p, n)), !.used = @ + n],
               pend' = pend \ {p}
        PROVE  Counts(refs') /\ Tickets(pend')
    <3>1. Entered(p, n).size = n
        BY DEF Entered
    <3>2. Counts(refs')
        BY <2>2, <3>1, <1>1, RefsAdded
    <3> QED BY <1>1, <1>2, <2>2, <3>2
  <2>3. ASSUME NEW p \in Ticket(t), refs' = refs, pend' = pend \ {p}
        PROVE  Counts(refs') /\ Tickets(pend')
      BY <1>1, <1>2, <2>3
  <2>4. ASSUME NEW p \in Ticket(t), refs' = [refs EXCEPT !.junk = @ + 1],
               pend' = (pend \ {p}) \cup {Orphan(p)}
        PROVE  Counts(refs') /\ Tickets(pend')
    <3>1. Counts(refs')
        BY <1>1, <2>4 DEF Counts
    <3>2. Orphan(p) \in TicketType
        BY <1>1 DEF TicketType, Orphan
    <3>3. Tickets((pend \ {p}) \cup {Orphan(p)})
      <4>1. Tickets(pend \ {p})
          BY <1>1, <1>2
      <4> QED BY <3>2, <4>1, FS_AddElement
    <3> HIDE DEF Tickets
    <3> QED BY <2>4, <3>1, <3>3
  <2> HIDE DEF Tickets
  <2> QED BY <2>1, <2>2, <2>3, <2>4, FinishDoes
<1>4. call' \in [Callers -> CallType]
  <2>1. \/ call' = [call EXCEPT ![t] = Idle]
        \/ call' = [call EXCEPT ![t] = [call[t] EXCEPT !.pc = Returned(t)]]
      BY FinishDoes DEF Returns
  <2>2. Idle \in CallType
      BY DEF Idle, CallType, Places, MaySign
  <2>3. [call[t] EXCEPT !.pc = Returned(t)] \in CallType
      BY CallTyped DEF CallType, Places, Returned
  <2> QED BY <2>1, <2>2, <2>3, CallTyped
<1>5. UNCHANGED <<now, pages>> /\ Advances
    BY FinishDoes
<1> QED BY <1>3, <1>4, <1>5, AdvancesTyped DEF Typed

\* The record of another call never changes, and the files only advance.
LEMMA StepShape ==
    ASSUME Typed, AllPlaced, NEW t \in Callers, Step(t)
    PROVE  /\ Advances
           /\ \A u \in Callers \ {t} : call'[u] = call[u]
<1> USE CallTyped
<1>1. CASE \E q \in Queries : PageHit(t, q) \/ PageMiss(t, q) \/ Start(t, q)
    BY <1>1, StillAdvances DEF PageHit, PageMiss, Start
<1>2. CASE StartBuild(t) \/ Put(t) \/ NoSets(t) \/ Run(t) \/ Fail(t) \/ ReadEnd(t)
           \/ Chunk(t) \/ More(t) \/ Grouped(t) \/ Return(t)
    BY <1>2, StillAdvances DEF StartBuild, Put, NoSets, Run, Fail, ReadEnd, Chunk, More, Grouped,
                               Return, Goto
<1>3. CASE ReadOpen(t)
    BY <1>3, ReadOpenDoes DEF Advances
<1>4. CASE ReadFails(t)
    BY <1>4, FailsTyped DEF ReadFails, Goto, Advances
<1>5. CASE Begin(t)
    BY <1>5, BeginDoes DEF Advances
<1>6. ASSUME NEW via, NEW spooled, Answers(t, via, spooled)
      PROVE  Advances /\ \A u \in Callers \ {t} : call'[u] = call[u]
    BY <1>6 DEF Answers
<1>7. CASE AnswerReference(t)
    BY <1>6, <1>7, AnswerReferenceDoes
<1>8. CASE AnswerGraph(t)
    BY <1>6, <1>8, AnswerGraphDoes
<1>9. CASE AnswerBuild(t) \/ Install(t)
    BY <1>6, <1>9, AnswerBuildDoes
<1>10. CASE Finish(t)
    BY <1>10, FinishDoes DEF Returns
<1> QED BY <1>1, <1>2, <1>3, <1>4, <1>5, <1>7, <1>8, <1>9, <1>10 DEF Step

\* Every step is well typed and moves the files forward.
LEMMA TypedKept ==
    ASSUME Typed, AllPlaced, Next
    PROVE  Typed' /\ Advances
<1>1. CASE Upgrade
  <2>1. Advances
      BY <1>1, WriteAdvances DEF Upgrade
  <2> QED BY <1>1, <2>1, AdvancesTyped DEF Upgrade, Typed
<1>2. ASSUME NEW t \in Callers, Step(t)
      PROVE  Typed' /\ Advances
  <2>1. Advances
      BY <1>2, StepShape
  <2>2. CASE \E q \in Queries : PageHit(t, q) \/ PageMiss(t, q) \/ Start(t, q)
      BY <2>1, <2>2, PageHitTyped, PageMissTyped, CallOnlyTyped
  <2>3. CASE StartBuild(t) \/ NoSets(t) \/ Run(t) \/ Fail(t)
             \/ Chunk(t) \/ More(t) \/ Grouped(t) \/ Return(t)
      BY <2>1, <2>3, CallOnlyTyped
  <2>4. CASE Put(t) \/ ReadOpen(t) \/ ReadEnd(t) \/ ReadFails(t) \/ Begin(t) \/ Finish(t)
      BY <2>1, <2>4, PutTyped, ReadOpenTyped, ReadEndTyped, ReadFailsTyped, BeginTyped, FinishTyped
  <2>5. CASE AnswerReference(t)
      BY <2>1, <2>5, AnswerReferenceDoes, AnswerTyped
  <2>6. CASE AnswerGraph(t)
      BY <2>1, <2>6, AnswerGraphDoes, AnswerTyped
  <2>7. CASE AnswerBuild(t) \/ Install(t)
    <3>1. CASE \E via \in {"index", "restored", "built"} : Answers(t, via, FALSE)
        BY <2>1, <3>1, AnswerTyped
    <3>2. CASE /\ now' = [now EXCEPT !.calls = 0] /\ Advances
               /\ call' = [call EXCEPT ![t].pc = "install"]
               /\ UNCHANGED <<events, pages, refs, pend>>
      <4>1. call' \in [Callers -> CallType]
          BY <3>2, CallTyped DEF CallType, Places
      <4> QED BY <2>1, <3>2, <4>1, AdvancesTyped DEF Typed
    <3> QED BY <2>7, <3>1, <3>2, AnswerBuildDoes
  <2> QED BY <1>2, <2>1, <2>2, <2>3, <2>4, <2>5, <2>6, <2>7 DEF Step
<1> QED BY <1>1, <1>2 DEF Next

\* A set answers the query it is kept for, from a scan.
Named ==
    /\ \A e \in ToSet(refs.list) : e.result.query = e.key[1] /\ e.result.via = "scan"
    /\ \A p \in pend : p.set # None => p.set.query = p.key[1] /\ p.set.via = "scan"

\* Where a step leads a call, it has what Placed says.
LEMMA PlacedAfter ==
    ASSUME Typed, AllPlaced, Named, NEW t \in Callers, Step(t)
    PROVE  Placed(t)'
<1> USE CallTyped DEF CallType, MaySign
<1>1. ASSUME NEW q \in Queries, PageHit(t, q) PROVE Placed(t)'
    BY <1>1 DEF PageHit, Idle, Placed, Query
<1>2. ASSUME NEW q \in Queries, PageMiss(t, q) PROVE Placed(t)'
    BY <1>2 DEF PageMiss, Idle, Placed, Query
<1>3. ASSUME NEW q \in Queries, Start(t, q) PROVE Placed(t)'
    BY <1>3, NoneAssumption, CacheAssumption DEF Start, Idle, Placed, Query, Signature
<1>4. CASE StartBuild(t)
    BY <1>4 DEF StartBuild, Idle, Placed, Query, Queries
<1>5. CASE Put(t)
    BY <1>5, NoneAssumption DEF Put, Idle, Placed, Query, Queries
<1>6. CASE NoSets(t)
    BY <1>6 DEF NoSets, Looks, Goto, At, Placed, Query
<1>7. CASE ReadOpen(t)
  <2>1. call[t].pc \in {"read", "lock"}
      BY <1>7 DEF ReadOpen, Looks, At
  <2>2. \E id \in Signatures : \E pc \in {"begin", "reading"} :
            call' = [call EXCEPT ![t].at = id, ![t].pc = pc]
      BY <1>7, ReadOpenDoes
  <2> QED BY <2>1, <2>2 DEF Placed, Query
<1>8. CASE ReadEnd(t)
  <2>1. PICK i \in Entry(Query(t), call[t].at) :
            call' = [call EXCEPT ![t].result = refs.list[i].result, ![t].hit = TRUE,
                                 ![t].pc = Returned(t)]
      BY <1>8 DEF ReadEnd
  <2>2. i \in DOMAIN refs.list /\ refs.list[i].key[1] = Query(t)
      BY DEF Entry
  <2>3. refs.list[i] \in SetType /\ refs.list[i] \in ToSet(refs.list)
      BY <2>2, ElementOfSeq, LenProperties DEF Typed, Counts, ToSet
  <2>4. refs.list[i].result \in Result /\ refs.list[i].result.query = Query(t)
      BY <2>2, <2>3 DEF SetType, Named
  <2>5. call[t].pc = "reading"
      BY <1>8 DEF ReadEnd, At
  <2> DEFINE r == refs.list[i].result
  <2> HIDE DEF r
  <2> QED BY <2>1, <2>4, <2>5 DEF Placed, Query, Returned, r
<1>9. CASE ReadFails(t)
  <2>1. call[t].pc = "reading" /\ call' = [call EXCEPT ![t].pc = "begin"]
      BY <1>9 DEF ReadFails, Goto, At
  <2> QED BY <2>1 DEF Placed, Query
<1>10. CASE Begin(t)
  <2>1. call[t].pc = "begin" /\ call' = [call EXCEPT ![t].pc = "run"]
      BY <1>10, BeginDoes DEF Begin, At
  <2> QED BY <2>1 DEF Placed, Query
<1>11. CASE Run(t)
  <2>1. Query(t) \in Queries
      BY <1>11 DEF Run, At, Placed
  <2>2. [query |-> Query(t), engine |-> now.engine, via |-> "scan"] \in Result
      BY <2>1 DEF Result, Signature
  <2> QED BY <1>11, <2>2 DEF Run, At, Placed, Query
<1>12. ASSUME call[t].pc \in {"work", "install"}, NEW via, NEW spooled, Answers(t, via, spooled)
       PROVE Placed(t)'
  <2> DEFINE r == [call[t].result EXCEPT !.via = via]
  <2>1. r.query = Query(t) /\ r \in Result
      BY <1>12 DEF Answers, Placed, Result
  <2>2. call' = [call EXCEPT ![t].pc = "finish", ![t].result = r]
      BY <1>12 DEF Answers
  <2> HIDE DEF r
  <2> QED BY <1>12, <2>1, <2>2 DEF Placed, Query
<1>13. CASE AnswerReference(t)
    BY <1>12, <1>13, AnswerReferenceDoes DEF AnswerReference, At
<1>14. CASE AnswerGraph(t)
    BY <1>12, <1>14, AnswerGraphDoes DEF AnswerGraph, At
<1>15. CASE AnswerBuild(t) \/ Install(t)
  <2>1. call[t].pc \in {"work", "install"} /\ Query(t) = "build"
      BY <1>15 DEF AnswerBuild, Install, At, Placed
  <2>2. CASE call' = [call EXCEPT ![t].pc = "install"]
      BY <2>1, <2>2 DEF Placed, Query
  <2> QED BY <1>12, <1>15, <2>1, <2>2, AnswerBuildDoes
<1>16. CASE Fail(t)
    BY <1>16 DEF Fail, Placed, Query
<1>17. CASE Finish(t)
  <2>1. call[t].pc = "finish" /\ Returns(t)
      BY <1>17, FinishDoes
  <2>2. CASE call[t].result = None
      BY <2>1, <2>2 DEF Returns, Idle, Placed, Query
  <2>3. CASE call[t].result # None
      BY <2>1, <2>3 DEF Returns, Returned, Placed, Query
  <2> QED BY <2>2, <2>3
<1>18. CASE Chunk(t)
    BY <1>18 DEF Chunk, At, Placed, Query
<1>19. CASE More(t)
    BY <1>19 DEF More, Goto, At, Placed, Query
<1>20. CASE Grouped(t)
    BY <1>20 DEF Grouped, At, Placed, Query
<1>21. CASE Return(t)
    BY <1>21, NoneAssumption DEF Return, Idle, Placed, Query, Queries
<1> HIDE DEF CallType, MaySign
<1> QED BY <1>1, <1>2, <1>3, <1>4, <1>5, <1>6, <1>7, <1>8, <1>9, <1>10, <1>11, <1>13, <1>14,
           <1>15, <1>16, <1>17, <1>18, <1>19, <1>20, <1>21 DEF Step

\* The other calls are where they were.
LEMMA PlacedKept ==
    ASSUME Typed, AllPlaced, Named, Next
    PROVE  AllPlaced'
<1>1. CASE Upgrade
    BY <1>1 DEF Upgrade, AllPlaced, Placed, Query
<1>2. ASSUME NEW t \in Callers, Step(t)
      PROVE  AllPlaced'
  <2>1. ASSUME NEW u \in Callers \ {t} PROVE Placed(u)'
    <3>1. call'[u] = call[u]
        BY <1>2, StepShape
    <3> QED BY <3>1 DEF AllPlaced, Placed, Query
  <2> QED BY <1>2, <2>1, PlacedAfter DEF AllPlaced
<1> QED BY <1>1, <1>2 DEF Next

-----------------------------------------------------------------------------
(***************************************************************************)
(* Who is inside: queries of different stripes, each with one ticket.      *)
(***************************************************************************)

\* Two queries inside are of different stripes.
Exclusive ==
    \A t, u \in Callers :
        Inside(t) /\ Inside(u) /\ Stripe(Query(t)) = Stripe(Query(u)) => t = u

\* A query comes in when its stripe is free, or was in with the same selector.
LEMMA EntersFree ==
    ASSUME Typed, AllPlaced, NEW t \in Callers, Step(t)
    PROVE  \/ ~Inside(t)'
           \/ Inside(t) /\ Query(t)' = Query(t)
           \/ Free(Query(t)')
<1> USE CallTyped DEF CallType, MaySign
<1>0. ASSUME NEW q \in Queries, PageHit(t, q) PROVE ~Inside(t)'
    BY <1>0 DEF PageHit, Idle, Inside
<1>1. ASSUME NEW q \in Queries, Start(t, q) PROVE ~Inside(t)'
    BY <1>1 DEF Start, Idle, Inside
<1>2. ASSUME NEW q \in Queries, PageMiss(t, q) PROVE Free(Query(t)')
    BY <1>2 DEF PageMiss, Idle, Query
<1>3. CASE StartBuild(t)
    BY <1>3 DEF StartBuild, Idle, Query
<1>4. CASE Put(t) \/ Return(t)
    BY <1>4 DEF Put, Return, Idle, Inside
<1>5. CASE More(t) \/ Grouped(t) \/ Chunk(t)
  <2>1. CASE More(t)
      BY <2>1 DEF More, Goto, Inside
  <2>2. CASE Grouped(t)
      BY <2>2 DEF Grouped, Inside
  <2>3. CASE Chunk(t)
      BY <2>3 DEF Chunk, Inside
  <2> QED BY <1>5, <2>1, <2>2, <2>3
<1>6. CASE NoSets(t)
    BY <1>6 DEF NoSets, Looks, Goto, At, Query, Inside
<1>7. CASE ReadOpen(t)
  <2>1. call[t].pc = "read" \/ Free(Query(t))
      BY <1>7 DEF ReadOpen, Looks, At
  <2>2. \E id \in Signatures : \E pc \in {"begin", "reading"} :
            call' = [call EXCEPT ![t].at = id, ![t].pc = pc]
      BY <1>7, ReadOpenDoes
  <2>3. Query(t)' = Query(t)
      BY <2>2 DEF Query
  <2> QED BY <2>1, <2>3 DEF Inside
<1>15. CASE ReadEnd(t)
    BY <1>15 DEF ReadEnd, At, Inside, Query
<1>8. CASE ReadFails(t) \/ Run(t) \/ Fail(t)
  <2>1. call[t].pc \in {"reading", "run", "work", "install"}
      BY <1>8 DEF ReadFails, Run, Fail, At
  <2>2. Query(t)' = Query(t)
    <3>1. CASE ReadFails(t)
        BY <3>1 DEF ReadFails, Goto, Query
    <3>2. CASE Run(t)
        BY <3>2 DEF Run, Query
    <3>3. CASE Fail(t)
        BY <3>3 DEF Fail, Query
    <3> QED BY <1>8, <3>1, <3>2, <3>3
  <2> QED BY <2>1, <2>2 DEF Inside
<1>9. CASE Begin(t)
    BY <1>9 DEF Begin, Goto, At, Inside, Query
<1>10. ASSUME call[t].pc \in {"work", "install"}, NEW via, NEW spooled, Answers(t, via, spooled)
       PROVE  Inside(t) /\ Query(t)' = Query(t)
    BY <1>10 DEF Answers, Inside, Query
<1>11. CASE AnswerReference(t)
    BY <1>10, <1>11, AnswerReferenceDoes DEF AnswerReference, At
<1>12. CASE AnswerGraph(t)
    BY <1>10, <1>12, AnswerGraphDoes DEF AnswerGraph, At
<1>13. CASE AnswerBuild(t) \/ Install(t)
  <2>1. call[t].pc \in {"work", "install"}
      BY <1>13 DEF AnswerBuild, Install, At
  <2>2. CASE call' = [call EXCEPT ![t].pc = "install"]
      BY <2>1, <2>2 DEF Inside, Query
  <2> QED BY <1>10, <1>13, <2>1, <2>2, AnswerBuildDoes
<1>14. CASE Finish(t)
  <2>1. call[t].pc = "finish" /\ Returns(t)
      BY <1>14, FinishDoes
  <2> QED BY <2>1 DEF Returns, Idle, Inside, Query
<1> HIDE DEF CallType, MaySign
<1> QED BY <1>0, <1>1, <1>2, <1>3, <1>4, <1>5, <1>6, <1>7, <1>8, <1>9, <1>11, <1>12, <1>13, <1>14,
           <1>15 DEF Step

\* The locks: no two calls are ever inside one stripe.
LEMMA ExclusiveKept ==
    ASSUME Typed, AllPlaced, Exclusive, Next
    PROVE  Exclusive'
<1>1. CASE Upgrade
    BY <1>1 DEF Upgrade, Exclusive, Inside, Query
<1>2. ASSUME NEW t \in Callers, Step(t)
      PROVE  Exclusive'
  <2>1. \A u \in Callers \ {t} : call'[u] = call[u]
      BY <1>2, StepShape
  <2>2. \A u \in Callers \ {t} : Inside(u)' = Inside(u) /\ Query(u)' = Query(u)
      BY <2>1 DEF Inside, Query
  <2>3. ASSUME NEW u \in Callers \ {t}, Inside(t)', Inside(u),
               Stripe(Query(t)') = Stripe(Query(u))
        PROVE  FALSE
    <3>1. CASE Inside(t) /\ Query(t)' = Query(t)
        BY <2>3, <3>1 DEF Exclusive
    <3>2. CASE Free(Query(t)')
        BY <2>3, <3>2 DEF Free
    <3> QED BY <1>2, <2>3, <3>1, <3>2, EntersFree
  <2>4. ASSUME NEW v \in Callers, NEW u \in Callers, Inside(v)', Inside(u)',
               Stripe(Query(v)') = Stripe(Query(u)')
        PROVE  v = u
    <3>1. CASE v # t /\ u # t
        BY <2>2, <2>4, <3>1 DEF Exclusive
    <3>2. CASE v = t /\ u # t
        BY <2>2, <2>3, <2>4, <3>2
    <3>3. CASE v # t /\ u = t
        BY <2>2, <2>3, <2>4, <3>3
    <3> QED BY <3>1, <3>2, <3>3
  <2>5. Exclusive' = \A v, u \in Callers :
            Inside(v)' /\ Inside(u)' /\ Stripe(Query(v)') = Stripe(Query(u)') => v = u
      BY DEF Exclusive, Stripe
  <2> QED BY <2>4, <2>5
<1> QED BY <1>1, <1>2 DEF Next

\* A ticket is that of the query that waits for its worker, or of nobody.
Held(p) ==
    /\ p.owner # None =>
        /\ call[p.owner].pc \in {"run", "work", "finish"} /\ p.key[1] = Query(p.owner)
        /\ p.set # None => call[p.owner].pc = "finish"
    /\ p.owner = None => p.set = None

Ticketed ==
    /\ \A p \in pend : Held(p)
    /\ \A p, q \in pend : p.key = q.key \/ (p.owner = q.owner /\ p.owner # None) => p = q

\* Only from its reservation to its end has a query a ticket.
LEMMA NoTicket ==
    ASSUME Ticketed, NEW t \in Callers, call[t].pc \notin {"run", "work", "finish"}
    PROVE  Ticket(t) = {}
BY NoneAssumption DEF Ticketed, Held, Ticket

\* A step of a call without a ticket that leaves the tickets alone.
LEMMA TicketedQuiet ==
    ASSUME Typed, Ticketed, NEW t \in Callers, pend' = pend, Ticket(t) = {},
           \A u \in Callers \ {t} : call'[u] = call[u]
    PROVE  Ticketed'
<1>1. \A p \in pend : p.owner \in Callers \cup {None} /\ p.owner # t
    BY DEF Typed, TicketType, Ticket
<1> QED BY <1>1 DEF Ticketed, Held, Query

\* A key is reserved once, and a query reserves once.
LEMMA TicketedKept ==
    ASSUME Typed, AllPlaced, Ticketed, Next
    PROVE  Ticketed'
<1>1. CASE Upgrade
    BY <1>1 DEF Upgrade, Ticketed, Held, Query
<1>2. ASSUME NEW t \in Callers, Step(t)
      PROVE  Ticketed'
  <2>1. \A u \in Callers \ {t} : call'[u] = call[u]
      BY <1>2, StepShape
  <2>2. \A p \in pend : p.owner \in Callers \cup {None}
      BY DEF Typed, TicketType
  <2> USE CallTyped
  <2>3. CASE call[t].pc \notin {"run", "work", "finish"} /\ pend' = pend
      BY <2>1, <2>3, NoTicket, TicketedQuiet
  <2>4. CASE \/ \E q \in Queries : PageHit(t, q) \/ PageMiss(t, q) \/ Start(t, q)
             \/ StartBuild(t) \/ Put(t) \/ NoSets(t) \/ ReadEnd(t) \/ ReadFails(t)
             \/ Chunk(t) \/ More(t) \/ Grouped(t) \/ Return(t)
    <3>1. call[t].pc \notin {"run", "work", "finish"} /\ pend' = pend
        BY <2>4 DEF PageHit, PageMiss, Start, StartBuild, Put, NoSets, Looks, ReadEnd, ReadFails,
                    Chunk, More, Grouped, Return, At
    <3> QED BY <2>3, <3>1
  <2>5. CASE ReadOpen(t)
    <3>1. call[t].pc \notin {"run", "work", "finish"} /\ pend' = pend
        BY <2>5 DEF ReadOpen, Looks, At
    <3> QED BY <2>3, <3>1
  <2>6. CASE Begin(t)
    <3>1. PICK p : /\ p = [key |-> <<Query(t), now>>, owner |-> t, set |-> None]
                   /\ call[t].pc = "begin" /\ call' = [call EXCEPT ![t].pc = "run"]
                   /\ pend' = pend \/ (pend' = pend \cup {p} /\ \A x \in pend : x.key # p.key)
        BY <2>6, BeginDoes DEF Begin, At
    <3>2. CASE pend' = pend
        BY <2>3, <3>1, <3>2
    <3>3. CASE pend' = pend \cup {p} /\ \A x \in pend : x.key # p.key
      <4>1. Ticket(t) = {}
          BY <3>1, NoTicket
      <4>2. \A x \in pend : x.owner # t
          BY <4>1 DEF Ticket
      <4>3. p.owner = t /\ p.key[1] = Query(t) /\ p.set = None
          BY <3>1
      <4>4. call'[t].pc = "run" /\ call'[t].query = call[t].query
          BY <3>1 DEF CallType
      <4>5. Held(p)'
          BY <4>3, <4>4, NoneAssumption DEF Held, Query
      <4>6. \A x \in pend : Held(x)'
          BY <2>1, <2>2, <4>2 DEF Ticketed, Held, Query
      <4>7. \A x, y \in pend' : x.key = y.key \/ (x.owner = y.owner /\ x.owner # None) => x = y
          BY <3>3, <4>2, <4>3 DEF Ticketed
      <4> QED BY <3>3, <4>5, <4>6, <4>7 DEF Ticketed
    <3> QED BY <3>1, <3>2, <3>3
  <2>7. CASE Run(t) \/ Fail(t)
    <3>1. /\ pend' = pend /\ call'[t].pc \in {"work", "finish"} /\ Query(t)' = Query(t)
          /\ call[t].pc \in {"run", "work", "install"}
        BY <2>7 DEF Run, Fail, Query, At, CallType
    <3>2. \A p \in pend : Held(p)'
      <4> TAKE p \in pend
      <4>1. CASE p.owner = t
          BY <3>1, <4>1, NoneAssumption DEF Ticketed, Held, Query
      <4>2. CASE p.owner # t
          BY <2>1, <2>2, <4>2 DEF Ticketed, Held, Query
      <4> QED BY <4>1, <4>2
    <3> QED BY <3>1, <3>2 DEF Ticketed
  <2>8. ASSUME call[t].pc \in {"work", "install"}, NEW via, NEW spooled, Answers(t, via, spooled)
        PROVE  Ticketed'
    <3> DEFINE r == [call[t].result EXCEPT !.via = via]
               with(p) == [p EXCEPT !.set = IF spooled THEN r ELSE None]
    <3>1. /\ call' = [call EXCEPT ![t].pc = "finish", ![t].result = r]
          /\ pend' = (pend \ Ticket(t)) \cup {with(p) : p \in Ticket(t)}
        BY <2>8 DEF Answers, Answered
    <3>2. \A p \in pend : with(p).owner = p.owner /\ with(p).key = p.key
        BY DEF Typed, TicketType
    <3> HIDE DEF with, r
    <3>3. call'[t].pc = "finish" /\ Query(t)' = Query(t)
        BY <3>1 DEF Query, CallType
    <3>4. \A x \in pend' : \/ x \in pend /\ x.owner # t
                           \/ \E p \in pend : p.owner = t /\ x = with(p)
        BY <3>1 DEF Ticket
    <3>5. \A x \in pend' : Held(x)'
      <4> TAKE x \in pend'
      <4>1. CASE x \in pend /\ x.owner # t
          BY <2>1, <2>2, <4>1 DEF Ticketed, Held, Query
      <4>2. CASE \E p \in pend : p.owner = t /\ x = with(p)
        <5>1. PICK p \in pend : p.owner = t /\ x = with(p)
            BY <4>2
        <5>2. x.owner = t /\ x.key[1] = Query(t)
            BY <3>2, <5>1, NoneAssumption DEF Ticketed, Held
        <5> QED BY <3>3, <5>2, NoneAssumption DEF Held, Query
      <4> QED BY <3>4, <4>1, <4>2
    <3>6. \A x, y \in pend' : x.key = y.key \/ (x.owner = y.owner /\ x.owner # None) => x = y
      <4> TAKE x, y \in pend'
      <4>4. ASSUME NEW z \in pend'
            PROVE  \E p \in pend : p.key = z.key /\ p.owner = z.owner
                      /\ ((p = z /\ z.owner # t) \/ (z = with(p) /\ z.owner = t))
        <5>1. CASE z \in pend /\ z.owner # t
            BY <5>1
        <5>2. CASE \E p \in pend : p.owner = t /\ z = with(p)
            BY <3>2, <5>2
        <5> QED BY <3>4, <5>1, <5>2
      <4>2. PICK p \in pend : p.key = x.key /\ p.owner = x.owner
                /\ ((p = x /\ x.owner # t) \/ (x = with(p) /\ x.owner = t))
          BY <4>4
      <4>3. PICK q \in pend : q.key = y.key /\ q.owner = y.owner
                /\ ((q = y /\ y.owner # t) \/ (y = with(q) /\ y.owner = t))
          BY <4>4
      <4> QED BY <4>2, <4>3 DEF Ticketed
    <3> QED BY <3>5, <3>6 DEF Ticketed
  <2>9. CASE AnswerReference(t)
      BY <2>8, <2>9, AnswerReferenceDoes DEF AnswerReference, At
  <2>10. CASE AnswerGraph(t)
      BY <2>8, <2>10, AnswerGraphDoes DEF AnswerGraph, At
  <2>11. CASE AnswerBuild(t) \/ Install(t)
    <3>1. call[t].pc \in {"work", "install"} /\ Query(t) = "build"
        BY <2>11 DEF AnswerBuild, Install, At, Placed
    <3>2. CASE call' = [call EXCEPT ![t].pc = "install"] /\ pend' = pend
      <4>1. Ticket(t) = {}
        <5>1. \A p \in pend : p.owner = t => p.key[1] = "build" /\ p.key[1] \in Selected
            BY <3>1, NoneAssumption DEF Ticketed, Held, Typed, TicketType
        <5> QED BY <5>1, CacheAssumption DEF Ticket
      <4> QED BY <2>1, <3>2, <4>1, TicketedQuiet
    <3> QED BY <2>8, <2>11, <3>1, <3>2, AnswerBuildDoes
  <2>12. CASE Finish(t)
    <3>1. \A p \in Ticket(t) : p \in pend /\ p.owner = t
        BY DEF Ticket
    <3>2. CASE Ticket(t) = {} /\ pend' = pend
        BY <2>1, <3>2, TicketedQuiet
    <3>3. ASSUME NEW p \in Ticket(t)
          PROVE  /\ \A x \in pend \ {p} : x.owner # t /\ x.key # p.key
                 /\ \A x \in pend \ {p} : Held(x)'
      <4>1. \A x \in pend \ {p} : x.owner # t /\ x.key # p.key
          BY <3>1, NoneAssumption DEF Ticketed
      <4>2. \A x \in pend \ {p} : Held(x)'
          BY <2>1, <2>2, <4>1 DEF Ticketed, Held, Query
      <4> QED BY <4>1, <4>2
    <3>4. ASSUME NEW p \in Ticket(t), pend' = pend \ {p} PROVE Ticketed'
        BY <3>3, <3>4 DEF Ticketed
    <3>5. ASSUME NEW p \in Ticket(t), pend' = (pend \ {p}) \cup {Orphan(p)} PROVE Ticketed'
      <4>1. Orphan(p).owner = None /\ Orphan(p).set = None /\ Orphan(p).key = p.key
          BY <3>1 DEF Orphan, Typed, TicketType
      <4>2. Held(Orphan(p))'
          BY <4>1 DEF Held
      <4>3. \A x, y \in pend' : x.key = y.key \/ (x.owner = y.owner /\ x.owner # None) => x = y
          BY <3>1, <3>3, <3>5, <4>1 DEF Ticketed
      <4> QED BY <3>3, <3>5, <4>2, <4>3 DEF Ticketed
    <3> QED BY <2>12, <3>2, <3>4, <3>5, FinishDoes
  <2> QED BY <1>2, <2>4, <2>5, <2>6, <2>7, <2>9, <2>10, <2>11, <2>12 DEF Step
<1> QED BY <1>1, <1>2 DEF Next

-----------------------------------------------------------------------------
(***************************************************************************)
(* The shapes of a step: where sets, tickets, signatures, pages, answers   *)
(* and the chunks of grouped queries come from.                            *)
(***************************************************************************)

\* A set that a query has just kept was that of its ticket.
Arrived(t, e) ==
    \E p \in Ticket(t) :
        /\ call[t].pc = "finish" /\ p.set # None /\ p.key[2] \in Signatures
        /\ e.key = p.key /\ e.result = p.set

\* The sets after a step: as they were, or kept just now.
LEMMA SetsShape ==
    ASSUME Typed, AllPlaced, NEW t \in Callers, Step(t)
    PROVE  \A e \in ToSet(refs'.list) : e \in ToSet(refs.list) \/ Arrived(t, e)
<1>1. CASE refs' = refs
    BY <1>1
<1>2. CASE \/ \E q \in Queries : PageHit(t, q) \/ PageMiss(t, q) \/ Start(t, q)
           \/ StartBuild(t) \/ Put(t) \/ NoSets(t) \/ Run(t) \/ AnswerReference(t) \/ AnswerGraph(t)
           \/ AnswerBuild(t) \/ Install(t) \/ Fail(t) \/ Chunk(t) \/ More(t) \/ Grouped(t) \/ Return(t)
    BY <1>1, <1>2 DEF PageHit, PageMiss, Start, StartBuild, Put, NoSets, Run, AnswerReference,
                      AnswerGraph, AnswerBuild, Install, Fail, Chunk, More, Grouped, Return
<1>3. CASE ReadOpen(t)
    BY <1>3, ReadOpenDoes
<1>4. CASE Begin(t)
    BY <1>4, BeginDoes
<1>5. CASE ReadEnd(t)
  <2>1. PICK i \in DOMAIN refs.list : refs' = [refs EXCEPT !.list = Append(RemoveAt(@, i), @[i])]
      BY <1>5 DEF ReadEnd, Entry
  <2> QED BY <2>1, RefsMoved DEF Typed
<1>6. CASE ReadFails(t)
  <2>1. CASE \E i \in DOMAIN refs.list :
            refs' = [refs EXCEPT !.list = RemoveAt(@, i), !.used = @ - refs.list[i].size]
    <3>1. PICK i \in DOMAIN refs.list :
            refs' = [refs EXCEPT !.list = RemoveAt(@, i), !.used = @ - refs.list[i].size]
        BY <2>1
    <3> QED BY <3>1, RefsRemoved DEF Typed
  <2>2. \/ refs' = refs
        \/ \E i \in DOMAIN refs.list :
            refs' = [refs EXCEPT !.list = RemoveAt(@, i), !.used = @ - refs.list[i].size]
      BY <1>6 DEF ReadFails, Entry
  <2> QED BY <1>1, <2>1, <2>2
<1>7. CASE Finish(t)
  <2>1. CASE \E p \in Ticket(t), n \in 1..SetBytes :
            /\ Valid(t, p) /\ Entered(p, n) \in SetType
            /\ refs' = [refs EXCEPT !.list = Append(@, Entered(p, n)), !.used = @ + n]
            /\ pend' = pend \ {p}
    <3>1. PICK p \in Ticket(t), n \in 1..SetBytes :
            /\ Valid(t, p) /\ Entered(p, n) \in SetType
            /\ refs' = [refs EXCEPT !.list = Append(@, Entered(p, n)), !.used = @ + n]
        BY <2>1
    <3>2. Entered(p, n).key = p.key /\ Entered(p, n).result = p.set /\ Entered(p, n).size = n
        BY DEF Entered
    <3>3. ToSet(refs'.list) = ToSet(refs.list) \cup {Entered(p, n)}
        BY <3>1, <3>2, RefsAdded DEF Typed
    <3>4. Arrived(t, Entered(p, n))
        BY <1>7, <3>1, <3>2, FinishDoes DEF Arrived, Valid
    <3> QED BY <3>3, <3>4
  <2>2. CASE \E p \in Ticket(t) : refs' = [refs EXCEPT !.junk = @ + 1]
      BY <2>2 DEF Typed, Counts
  <2> QED BY <1>1, <1>7, <2>1, <2>2, FinishDoes
<1> QED BY <1>2, <1>3, <1>4, <1>5, <1>6, <1>7 DEF Step

\* A ticket whose set has just been spooled, by a scan.
Scanned(t, x) ==
    /\ call[t].pc = "work" /\ call[t].result \in Result /\ now.xrefs = 0 /\ now' = now
    /\ x.set.query = Query(t) /\ x.set.engine = call[t].result.engine /\ x.set.via = "scan"

\* The tickets after a step: as they were; without a set; made in this step; or spooled.
TicketNext(t, x) ==
    \/ x \in pend
    \/ /\ \E p \in pend : x.key = p.key
       /\ x.set = None /\ (x.owner = None \/ (call'[t].pc = "finish" /\ x.owner = t))
    \/ /\ x.key = <<Query(t), now>> /\ now' = now /\ x.set = None /\ x.owner = t
       /\ call'[t].pc = "run"
    \/ /\ \E p \in Ticket(t) : x.key = p.key
       /\ Scanned(t, x) /\ x.owner = t /\ call'[t].pc = "finish"

\* The tickets after an answer.
LEMMA AnsweredShape ==
    ASSUME Typed, AllPlaced, NEW t \in Callers, NEW via, NEW spooled \in BOOLEAN,
           Answers(t, via, spooled),
           spooled => via = "scan" /\ call[t].pc = "work" /\ now.xrefs = 0 /\ now' = now
    PROVE  \A x \in pend' : TicketNext(t, x)
<1> DEFINE r == [call[t].result EXCEPT !.via = via]
           with(p) == [p EXCEPT !.set = IF spooled THEN r ELSE None]
<1>1. /\ call' = [call EXCEPT ![t].pc = "finish", ![t].result = r]
      /\ pend' = (pend \ Ticket(t)) \cup {with(p) : p \in Ticket(t)}
    BY DEF Answers, Answered
<1>2. \A p \in pend : /\ with(p).owner = p.owner /\ with(p).key = p.key
                      /\ with(p).set = IF spooled THEN r ELSE None
    BY DEF Typed, TicketType
<1>3. call'[t].pc = "finish"
    BY <1>1, CallTyped DEF CallType
<1>4. spooled => /\ r.query = Query(t) /\ r.engine = call[t].result.engine /\ r.via = "scan"
                 /\ call[t].result \in Result
  <2>1. spooled => call[t].result \in Result /\ call[t].result.query = Query(t)
      BY CallTyped DEF Placed
  <2> QED BY <2>1 DEF Result
<1> HIDE DEF r, with
<1> TAKE x \in pend'
<1>5. CASE x \in pend
    BY <1>5 DEF TicketNext
<1>6. ASSUME NEW p \in Ticket(t), x = with(p)
      PROVE  TicketNext(t, x)
  <2>1. p \in pend /\ x.owner = t /\ x.key = p.key /\ x.set = IF spooled THEN r ELSE None
      BY <1>2, <1>6 DEF Ticket
  <2>2. CASE spooled
    <3>1. Scanned(t, x)
        BY <1>4, <2>1, <2>2 DEF Scanned
    <3> QED BY <1>3, <2>1, <3>1 DEF TicketNext
  <2>3. CASE ~spooled
      BY <1>3, <2>1, <2>3 DEF TicketNext
  <2> QED BY <2>2, <2>3
<1> QED BY <1>1, <1>5, <1>6

\* The tickets after any step of a call.
LEMMA TicketsShape ==
    ASSUME Typed, AllPlaced, NEW t \in Callers, Step(t)
    PROVE  \A x \in pend' : TicketNext(t, x)
<1>1. CASE pend' = pend
    BY <1>1 DEF TicketNext
<1>2. CASE \/ \E q \in Queries : PageHit(t, q) \/ PageMiss(t, q) \/ Start(t, q)
           \/ StartBuild(t) \/ Put(t) \/ NoSets(t) \/ ReadOpen(t) \/ ReadEnd(t) \/ ReadFails(t)
           \/ Run(t) \/ Fail(t) \/ Chunk(t) \/ More(t) \/ Grouped(t) \/ Return(t)
    BY <1>1, <1>2 DEF PageHit, PageMiss, Start, StartBuild, Put, NoSets, ReadOpen, ReadEnd, ReadFails,
                      Run, Fail, Chunk, More, Grouped, Return
<1>3. CASE Begin(t)
  <2>1. PICK p : /\ p = [key |-> <<Query(t), now>>, owner |-> t, set |-> None]
                 /\ call[t].pc = "begin" /\ call' = [call EXCEPT ![t].pc = "run"]
                 /\ pend' = pend \/ pend' = pend \cup {p}
                 /\ now' = now
      BY <1>3, BeginDoes DEF Begin, At
  <2>2. p.key = <<Query(t), now>> /\ p.owner = t /\ p.set = None /\ call'[t].pc = "run"
      BY <2>1, CallTyped DEF CallType
  <2>3. TicketNext(t, p)
      BY <2>1, <2>2 DEF TicketNext
  <2> QED BY <1>1, <2>1, <2>3 DEF TicketNext
<1>4. CASE AnswerReference(t)
    BY <1>4, AnswerReferenceDoes, AnsweredShape DEF AnswerReference, At
<1>5. CASE AnswerGraph(t)
    BY <1>5, AnswerGraphDoes, AnsweredShape
<1>6. CASE AnswerBuild(t) \/ Install(t)
    BY <1>1, <1>6, AnswerBuildDoes, AnsweredShape
<1>7. CASE Finish(t)
  <2>1. Ticket(t) \subseteq pend
      BY DEF Ticket
  <2>2. ASSUME NEW p \in Ticket(t) PROVE TicketNext(t, Orphan(p))
    <3>1. Orphan(p).owner = None /\ Orphan(p).set = None /\ Orphan(p).key = p.key
        BY <2>1 DEF Orphan, Typed, TicketType
    <3> QED BY <2>1, <3>1 DEF TicketNext
  <2>3. \/ pend' \subseteq pend
        \/ \E p \in Ticket(t) : pend' = (pend \ {p}) \cup {Orphan(p)}
      BY <1>7, FinishDoes
  <2> QED BY <2>2, <2>3 DEF TicketNext
<1> QED BY <1>2, <1>3, <1>4, <1>5, <1>6, <1>7 DEF Step

\* Only scans are kept, under the name of their query.
LEMMA NamedKept ==
    ASSUME Typed, AllPlaced, Named, Ticketed, Next
    PROVE  Named'
<1>1. CASE Upgrade
    BY <1>1 DEF Upgrade, Named
<1>2. ASSUME NEW t \in Callers, Step(t)
      PROVE  Named'
  <2>1. ASSUME NEW e \in ToSet(refs'.list)
        PROVE  e.result.query = e.key[1] /\ e.result.via = "scan"
      BY <1>2, SetsShape DEF Named, Arrived, Ticket
  <2>2. ASSUME NEW x \in pend', x.set # None
        PROVE  x.set.query = x.key[1] /\ x.set.via = "scan"
    <3>1. CASE x \in pend
        BY <2>2, <3>1 DEF Named
    <3>2. ASSUME NEW p \in Ticket(t), x.key = p.key, Scanned(t, x)
          PROVE  x.set.query = x.key[1] /\ x.set.via = "scan"
      <4>1. p.key[1] = Query(t)
          BY NoneAssumption DEF Ticketed, Held, Ticket
      <4> QED BY <3>2, <4>1 DEF Scanned
    <3> QED BY <1>2, <2>2, <3>1, <3>2, TicketsShape DEF TicketNext
  <2> QED BY <2>1, <2>2 DEF Named
<1> QED BY <1>1, <1>2 DEF Next

\* Signatures of files that there have been.
Past == [engine : 0..events, xrefs : 0..events, calls : 0..events]

\* signature() will never be this again: an engine and an index that have been
\* replaced have not come back, and of the call graph's index only its absence has.
Over(id) ==
    \/ id.engine # now.engine \/ id.xrefs # now.xrefs
    \/ id.calls \notin {0, now.calls}

Known ==
    /\ now \in Past /\ pages.id \in Past \cup {None}
    /\ \A e \in ToSet(refs.list) : e.key[2] \in Past
    /\ \A p \in pend : p.key[2] \in Past
    /\ \A t \in Callers : /\ call[t].id \in Past \cup {None}
                          /\ call[t].grouped => call[t].start \in 0..events

\* What there has been is not forgotten.
LEMMA PastGrows ==
    ASSUME Typed, now \in Past, Advances
    PROVE  Past \subseteq Past' /\ now' \in Past'
<1>1. events \in Nat /\ events' \in Nat /\ events' >= events
    BY CacheAssumption DEF Typed, Advances
<1>2. 0..events \subseteq 0..events'
    BY <1>1
<1>3. Past \subseteq Past'
    BY <1>2 DEF Past
<1>4. now' \in Past'
  <2>1. CASE now' = now
      BY <1>3, <2>1
  <2>2. CASE events' = events + 1
          /\ \E name \in {"engine", "xrefs", "calls"} : now' = [now EXCEPT ![name] = events + 1]
      BY <1>1, <1>2, <2>2 DEF Past
  <2>3. CASE now' = [now EXCEPT !.calls = 0]
      BY <1>1, <1>2, <2>3 DEF Past
  <2> QED BY <2>1, <2>2, <2>3 DEF Advances
<1> QED BY <1>3, <1>4

\* What is over stays over.
LEMMA OverStable ==
    ASSUME Typed, now \in Past, Advances, NEW id \in Past, Over(id)
    PROVE  Over(id)'
<1>1. /\ events \in Nat /\ id.engine \in 0..events /\ id.xrefs \in 0..events /\ id.calls \in 0..events
      /\ now.engine \in 0..events /\ now.xrefs \in 0..events /\ now.calls \in 0..events
    BY CacheAssumption DEF Typed, Past
<1>2. now = [engine |-> now.engine, xrefs |-> now.xrefs, calls |-> now.calls]
    BY DEF Past
<1>3. CASE now' = now
    BY <1>3 DEF Over
<1>4. CASE now' = [now EXCEPT !["engine"] = events + 1]
    BY <1>1, <1>2, <1>4 DEF Over
<1>5. CASE now' = [now EXCEPT !["xrefs"] = events + 1]
    BY <1>1, <1>2, <1>5 DEF Over
<1>6. CASE now' = [now EXCEPT !["calls"] = events + 1]
    BY <1>1, <1>2, <1>6 DEF Over
<1>7. CASE now' = [now EXCEPT !.calls = 0]
    BY <1>1, <1>2, <1>7 DEF Over
<1> QED BY <1>3, <1>4, <1>5, <1>6, <1>7 DEF Advances

\* The signature of a call is taken when it misses the pages, and then kept.
IdNext(t) ==
    \/ call'[t].id = None
    \/ /\ call'[t].id = call[t].id /\ Query(t)' = Query(t) /\ pages'.id = pages.id
       /\ Inside(t) /\ call[t].pc # "done"
       /\ call'[t].pc = "run" => Query(t) \in Selected
    \/ /\ call'[t].id = now /\ now' = now /\ pages'.id = now
       /\ call'[t].pc \in {"read", "run"} /\ call'[t].result = None

\* A call whose signature is not None has just missed the pages, or had it before.
LEMMA IdShape ==
    ASSUME Typed, AllPlaced, NEW t \in Callers, Step(t)
    PROVE  IdNext(t)
<1> USE CallTyped DEF CallType
<1>1. ASSUME NEW q \in Queries, PageMiss(t, q) PROVE IdNext(t)
  <2>1. PICK id \in Signatures :
        /\ pages' = Current(id)
        /\ call' = [call EXCEPT ![t] = [Idle EXCEPT !.query = q, !.id = id,
                                        !.pc = IF q \in Selected THEN "read" ELSE "run"]]
        /\ UNCHANGED <<now, events, refs, pend>>
      BY <1>1 DEF PageMiss
  <2>2. id = None \/ id = now
      BY SignatureNow
  <2>3. pages'.id = id
      BY <2>1 DEF Current
  <2> QED BY <2>1, <2>2, <2>3 DEF IdNext, Idle
<1>2. ASSUME NEW q \in Queries, PageHit(t, q) PROVE IdNext(t)
    BY <1>2 DEF PageHit, Idle, IdNext
<1>3. ASSUME NEW q \in Queries, Start(t, q) PROVE IdNext(t)
    BY <1>3 DEF Start, Idle, IdNext
<1>4. CASE StartBuild(t)
    BY <1>4 DEF StartBuild, Idle, IdNext
<1>19. CASE Put(t) \/ Return(t)
    BY <1>19 DEF Put, Return, Idle, IdNext
<1>5. CASE Chunk(t) \/ More(t) \/ Grouped(t)
  <2>1. call[t].id = None
      BY <1>5 DEF Chunk, More, Grouped, At, Placed
  <2>2. call'[t].id = call[t].id
    <3>1. CASE Chunk(t)
        BY <3>1 DEF Chunk
    <3>2. CASE More(t)
        BY <3>2 DEF More, Goto
    <3>3. CASE Grouped(t)
        BY <3>3 DEF Grouped
    <3> QED BY <1>5, <3>1, <3>2, <3>3
  <2> QED BY <2>1, <2>2 DEF IdNext
<1>6. ASSUME call'[t].id = call[t].id, Query(t)' = Query(t), pages' = pages,
             Inside(t) \/ call[t].id = None, call[t].pc # "done",
             Query(t) \in Selected \/ call'[t].pc # "run"
      PROVE  IdNext(t)
    BY <1>6 DEF IdNext
<1>7. CASE NoSets(t)
  <2>1. call[t].pc \in {"read", "lock"}
      BY <1>7 DEF NoSets, Looks, At
  <2>2. (Inside(t) \/ call[t].id = None) /\ Query(t) \in Selected
      BY <2>1 DEF Inside, Placed
  <2>3. call'[t].id = call[t].id /\ Query(t)' = Query(t) /\ pages' = pages
      BY <1>7 DEF NoSets, Goto, Query
  <2> QED BY <1>6, <2>1, <2>2, <2>3
<1>8. CASE ReadOpen(t)
  <2>1. call[t].pc \in {"read", "lock"}
      BY <1>8 DEF ReadOpen, Looks, At
  <2>2. (Inside(t) \/ call[t].id = None) /\ Query(t) \in Selected
      BY <2>1 DEF Inside, Placed
  <2>3. \E id \in Signatures : \E pc \in {"begin", "reading"} :
            call' = [call EXCEPT ![t].at = id, ![t].pc = pc]
      BY <1>8, ReadOpenDoes
  <2>4. call'[t].id = call[t].id /\ Query(t)' = Query(t) /\ pages' = pages
      BY <1>8, <2>3 DEF ReadOpen, Query
  <2> QED BY <1>6, <2>1, <2>2, <2>4
<1>9. CASE ReadEnd(t)
  <2>1. call[t].pc = "reading" /\ call'[t].id = call[t].id /\ Query(t)' = Query(t) /\ pages' = pages
      BY <1>9 DEF ReadEnd, At, Query
  <2> QED BY <1>6, <2>1 DEF Inside, Placed
<1>10. CASE ReadFails(t)
  <2>1. call[t].pc = "reading" /\ call'[t].id = call[t].id /\ Query(t)' = Query(t) /\ pages' = pages
      BY <1>10 DEF ReadFails, Goto, At, Query
  <2> QED BY <1>6, <2>1 DEF Inside, Placed
<1>11. CASE Begin(t)
  <2>1. call[t].pc = "begin" /\ call'[t].id = call[t].id /\ Query(t)' = Query(t) /\ pages' = pages
      BY <1>11 DEF Begin, Goto, At, Query
  <2> QED BY <1>6, <2>1 DEF Inside, Placed
<1>12. CASE Run(t)
  <2>1. /\ call[t].pc = "run" /\ call'[t].pc = "work" /\ call'[t].id = call[t].id
        /\ Query(t)' = Query(t) /\ pages' = pages
      BY <1>12 DEF Run, At, Query
  <2> QED BY <1>6, <2>1 DEF Inside
<1>13. CASE Fail(t)
  <2>1. /\ call[t].pc \in {"work", "install"} /\ call'[t].id = call[t].id /\ call'[t].pc = "finish"
        /\ Query(t)' = Query(t) /\ pages' = pages
      BY <1>13 DEF Fail, At, Query
  <2> QED BY <1>6, <2>1 DEF Inside
<1>14. ASSUME call[t].pc \in {"work", "install"}, NEW via, NEW spooled, Answers(t, via, spooled)
       PROVE  IdNext(t)
  <2>1. /\ call'[t].id = call[t].id /\ Query(t)' = Query(t) /\ pages' = pages
        /\ call'[t].pc = "finish"
      BY <1>14 DEF Answers, Query
  <2> QED BY <1>6, <1>14, <2>1 DEF Inside
<1>15. CASE AnswerReference(t)
    BY <1>14, <1>15, AnswerReferenceDoes DEF AnswerReference, At
<1>16. CASE AnswerGraph(t)
    BY <1>14, <1>16, AnswerGraphDoes DEF AnswerGraph, At
<1>17. CASE AnswerBuild(t) \/ Install(t)
  <2>1. call[t].pc \in {"work", "install"} /\ call[t].id = None
      BY <1>17 DEF AnswerBuild, Install, At, Placed
  <2>2. CASE call' = [call EXCEPT ![t].pc = "install"]
      BY <2>1, <2>2 DEF IdNext
  <2> QED BY <1>14, <1>17, <2>1, <2>2, AnswerBuildDoes
<1>18. CASE Finish(t)
  <2>1. call[t].pc = "finish" /\ Returns(t) /\ pages' = pages
      BY <1>18, FinishDoes
  <2>2. CASE call[t].result = None
      BY <2>1, <2>2 DEF Returns, Idle, IdNext
  <2>3. CASE call[t].result # None
    <3>1. call'[t].id = call[t].id /\ Query(t)' = Query(t) /\ call'[t].pc # "run"
        BY <2>1, <2>3 DEF Returns, Returned, Query
    <3> QED BY <1>6, <2>1, <3>1 DEF Inside
  <2> QED BY <2>2, <2>3
<1> HIDE DEF CallType
<1> QED BY <1>1, <1>2, <1>3, <1>4, <1>5, <1>7, <1>8, <1>9, <1>10, <1>11, <1>12, <1>13,
           <1>15, <1>16, <1>17, <1>18, <1>19 DEF Step

\* The pages of one signature stay with it, but for the page that is put.
LEMMA PagesShape ==
    ASSUME Typed, AllPlaced, NEW t \in Callers, Step(t)
    PROVE  \/ /\ pages'.id = pages.id
              /\ \A e \in ToSet(pages'.list) :
                    \/ e \in ToSet(pages.list)
                    \/ /\ call[t].pc = "put" /\ Keep(call[t].id, call[t].result)
                       /\ e.result = call[t].result
           \/ ToSet(pages'.list) = {} /\ pages'.id = now /\ now' = now
           \/ pages'.id = None
<1>1. CASE pages' = pages
    BY <1>1
<1>2. CASE \/ StartBuild(t) \/ NoSets(t) \/ ReadOpen(t) \/ ReadEnd(t) \/ ReadFails(t) \/ Begin(t)
           \/ (\E q \in Queries : Start(t, q))
           \/ Run(t) \/ AnswerReference(t) \/ AnswerGraph(t) \/ AnswerBuild(t) \/ Install(t) \/ Fail(t)
           \/ Finish(t) \/ Chunk(t) \/ More(t) \/ Grouped(t) \/ Return(t)
    BY <1>1, <1>2 DEF StartBuild, NoSets, ReadOpen, ReadEnd, ReadFails, Begin, Start,
                      Run, AnswerReference, AnswerGraph, AnswerBuild, Install, Fail, Finish,
                      Chunk, More, Grouped, Return
<1>3. ASSUME NEW q \in Queries, PageMiss(t, q)
      PROVE  \/ pages' = pages
             \/ ToSet(pages'.list) = {} /\ pages'.id = now /\ now' = now
             \/ pages'.id = None
  <2>1. PICK id \in Signatures : pages' = Current(id) /\ now' = now
      BY <1>3 DEF PageMiss
  <2>2. id = None \/ id = now
      BY SignatureNow
  <2> QED BY <2>1, <2>2 DEF Current, ToSet
<1>4. ASSUME NEW q \in Queries, PageHit(t, q)
      PROVE  pages'.id = pages.id /\ ToSet(pages'.list) \subseteq ToSet(pages.list)
  <2>1. PICK id \in Signatures \ {None} :
            LET cache == Current(id)
                i == Position(cache.list, q)
            IN  /\ Has(cache.list, q)
                /\ pages' = [cache EXCEPT !.list = Append(RemoveAt(@, i), @[i])]
      BY <1>4 DEF PageHit
  <2>2. Current(id) = pages /\ id = pages.id
      BY <2>1 DEF Has, Current
  <2> DEFINE i == Position(pages.list, q)
  <2>3. i \in DOMAIN pages.list
      BY <2>1, <2>2 DEF Has, Position
  <2>4. pages' = [pages EXCEPT !.list = Append(RemoveAt(@, i), @[i])]
      BY <2>1, <2>2
  <2> HIDE DEF i
  <2>5. pages.list \in Seq(PageType) /\ i \in 1..Len(pages.list) /\ Fits(pages)
      BY <2>3, LenProperties DEF Typed, Fits
  <2>6. pages'.id = pages.id /\ pages'.list = Append(RemoveAt(pages.list, i), pages.list[i])
      BY <2>4, <2>5 DEF Fits
  <2> QED BY <2>5, <2>6, MovedEntries, Sizes_Typed
<1>5. CASE Put(t)
  <2>1. CASE Keep(call[t].id, call[t].result)
    <3>1. PICK n \in 1..PageBytes : pages' = Store([result |-> call[t].result, size |-> n])
        BY <1>5, <2>1 DEF Put
    <3> DEFINE page == [result |-> call[t].result, size |-> n]
    <3>2. page \in PageType /\ page.result = call[t].result
        BY <2>1, CallTyped DEF Keep, PageType, CallType
    <3> HIDE DEF page
    <3>3. pages'.id = pages.id /\ ToSet(pages'.list) \subseteq ToSet(pages.list) \cup {page}
        BY <3>1, <3>2, PagesStored DEF Typed, page
    <3> QED BY <1>5, <2>1, <3>2, <3>3 DEF Put, At
  <2>2. CASE ~Keep(call[t].id, call[t].result)
      BY <1>1, <1>5, <2>2 DEF Put
  <2> QED BY <2>1, <2>2
<1> QED BY <1>2, <1>3, <1>4, <1>5 DEF Step

\* How a worker came to its answer, and what it did to the files.
Explains(t, via) ==
    \/ /\ Query(t) \in Selected \cup {"graph"} /\ via = "index" /\ now' = now
       /\ now.xrefs # 0 \/ (Query(t) = "graph" /\ now.calls # 0)
    \/ /\ Query(t) \in Selected /\ via = "restored"
       /\ now.xrefs = 0 /\ now' = [now EXCEPT !.xrefs = events + 1]
    \/ /\ Query(t) = "graph" /\ via \in {"restored", "built"}
       /\ now.xrefs = 0 /\ now.calls = 0 /\ now' = [now EXCEPT !.calls = events + 1]
    \/ /\ Query(t) \in Selected \cup {"graph"} /\ via = "scan" /\ now.xrefs = 0 /\ now' = now
    \/ Query(t) = "build"

Still(t) == /\ call'[t].id = call[t].id /\ Query(t)' = Query(t) /\ call'[t].grouped = call[t].grouped
            /\ call'[t].start = call[t].start /\ call'[t].seen = call[t].seen
            /\ call'[t].changed = call[t].changed

Runs(t) ==
    /\ call[t].pc = "run" /\ call'[t].pc = "work" /\ Still(t) /\ now' = now
    /\ call'[t].result.query = Query(t) /\ call'[t].result.engine = now.engine
    /\ call'[t].result.via = "scan" /\ call'[t].result # None /\ ~call'[t].hit

Finds(t) ==
    /\ call[t].pc \in {"work", "install"} /\ call'[t].pc = "finish" /\ Still(t)
    /\ \E via \in Vias : /\ Explains(t, via) /\ call'[t].result.via = via
    /\ call'[t].result.query = Query(t) /\ call'[t].result.engine = call[t].result.engine
    /\ ~call'[t].hit

Passes(t) ==
    /\ call[t].pc = "finish" /\ call'[t].pc = Returned(t) /\ call[t].result # None /\ Still(t)
    /\ call'[t].result = call[t].result /\ now' = now /\ ~call'[t].hit

Reads(t) ==
    /\ call[t].pc = "reading" /\ call'[t].pc = Returned(t) /\ Still(t) /\ now' = now
    /\ call[t].at = now /\ call'[t].at = now /\ call'[t].hit
    /\ \E e \in ToSet(refs.list) : e.key = <<Query(t), now>> /\ call'[t].result = e.result

Repeats(t) ==
    /\ call'[t].pc = "done" /\ call'[t].at = now /\ now' = now /\ pages.id = now
    /\ \E e \in ToSet(pages.list) : call'[t].result = e.result /\ Query(t)' = e.result.query
    /\ ~call'[t].grouped

\* Where the answer that a call holds comes from.
ResultNext(t) ==
    \/ call'[t].pc \notin {"work", "finish", "put", "chunk"} /\ ~call'[t].hit
    \/ call'[t].pc = "finish" /\ call'[t].result = None /\ ~call'[t].hit
    \/ Runs(t) \/ Finds(t) \/ Passes(t) \/ Reads(t) \/ Repeats(t)

\* An answer that is explained is one of Finds.
LEMMA AnswersFind ==
    ASSUME Typed, AllPlaced, NEW t \in Callers, call[t].pc \in {"work", "install"},
           NEW via \in Vias, NEW spooled, Answers(t, via, spooled), Explains(t, via)
    PROVE  Finds(t)
<1> DEFINE r == [call[t].result EXCEPT !.via = via]
<1>1. call' = [call EXCEPT ![t].pc = "finish", ![t].result = r]
    BY DEF Answers
<1>2. call[t].result \in Result /\ call[t].result.query = Query(t) /\ ~call[t].hit
    BY CallTyped DEF Placed
<1>3. r.via = via /\ r.query = Query(t) /\ r.engine = call[t].result.engine
    BY <1>2 DEF Result
<1> HIDE DEF r
<1>4. call'[t].pc = "finish" /\ call'[t].result = r /\ call'[t].hit = call[t].hit /\ Still(t)
    BY <1>1, CallTyped DEF CallType, Still, Query
<1> QED BY <1>2, <1>3, <1>4 DEF Finds

\* An answer in a call is new, was there before, or is from a cache.
LEMMA ResultShape ==
    ASSUME Typed, AllPlaced, NEW t \in Callers, Step(t)
    PROVE  ResultNext(t)
<1> USE CallTyped DEF CallType
<1>1. ASSUME NEW q \in Queries, PageHit(t, q) PROVE ResultNext(t)
  <2>1. PICK id \in Signatures \ {None} :
            LET cache == Current(id)
                i == Position(cache.list, q)
            IN  /\ Has(cache.list, q) /\ now' = now
                /\ call' = [call EXCEPT ![t] = [Idle EXCEPT !.pc = "done", !.query = q, !.at = id,
                                                !.hit = TRUE, !.result = cache.list[i].result]]
      BY <1>1 DEF PageHit
  <2>2. id = now /\ id = pages.id /\ Current(id) = pages
      BY <2>1, SignatureNow DEF Has, Current
  <2> DEFINE i == Position(pages.list, q)
             r == pages.list[i].result
  <2>3. i \in DOMAIN pages.list /\ r.query = q
      BY <2>1, <2>2 DEF Has, Position
  <2>4. call' = [call EXCEPT ![t] = [Idle EXCEPT !.pc = "done", !.query = q, !.at = now,
                                                !.hit = TRUE, !.result = r]]
      BY <2>1, <2>2
  <2>5. \E e \in ToSet(pages.list) : r = e.result /\ q = e.result.query
      BY <2>3 DEF ToSet
  <2> HIDE DEF r, i
  <2>6. /\ call'[t].pc = "done" /\ call'[t].at = now /\ call'[t].result = r /\ call'[t].query = q
        /\ ~call'[t].grouped
      BY <2>4 DEF Idle
  <2>7. Repeats(t)
      BY <2>1, <2>2, <2>5, <2>6 DEF Repeats, Query
  <2> QED BY <2>7 DEF ResultNext
<1>2. ASSUME NEW q \in Queries, PageMiss(t, q) \/ Start(t, q) PROVE ResultNext(t)
  <2>1. CASE PageMiss(t, q)
      BY <2>1 DEF PageMiss, Idle, ResultNext
  <2>2. CASE Start(t, q)
      BY <2>2 DEF Start, Idle, ResultNext
  <2> QED BY <1>2, <2>1, <2>2
<1>3. CASE StartBuild(t)
    BY <1>3 DEF StartBuild, Idle, ResultNext
<1>4. CASE Put(t) \/ Return(t)
    BY <1>4 DEF Put, Return, Idle, ResultNext
<1>5. CASE NoSets(t)
    BY <1>5 DEF NoSets, Looks, At, Goto, ResultNext, Placed
<1>6. CASE ReadOpen(t)
  <2>1. call[t].pc \in {"read", "lock"} /\ ~call[t].hit
      BY <1>6 DEF ReadOpen, Looks, At, Placed
  <2>2. \E id \in Signatures : \E pc \in {"begin", "reading"} :
            call' = [call EXCEPT ![t].at = id, ![t].pc = pc]
      BY <1>6, ReadOpenDoes
  <2> QED BY <2>1, <2>2 DEF ResultNext
<1>7. CASE ReadEnd(t)
  <2>1. PICK i \in Entry(Query(t), call[t].at) :
            call' = [call EXCEPT ![t].result = refs.list[i].result, ![t].hit = TRUE,
                                 ![t].pc = Returned(t)]
      BY <1>7 DEF ReadEnd
  <2>2. i \in DOMAIN refs.list /\ refs.list[i].key = <<Query(t), call[t].at>>
      BY DEF Entry
  <2>3. refs.list[i] \in SetType /\ refs.list[i] \in ToSet(refs.list)
      BY <2>2, ElementOfSeq, LenProperties DEF Typed, Counts, ToSet
  <2>4. call[t].at # None
    <3>1. refs.list[i].key[2] \in Signature
        BY <2>3 DEF SetType
    <3> QED BY <2>2, <3>1, NoneAssumption
  <2>5. call[t].pc = "reading" /\ call[t].at = now /\ now' = now
      BY <1>7, <2>4, SignatureNow DEF ReadEnd, At
  <2> DEFINE r == refs.list[i].result
  <2>6. \E e \in ToSet(refs.list) : e.key = <<Query(t), now>> /\ r = e.result
      BY <2>2, <2>3, <2>5
  <2>7. call' = [call EXCEPT ![t].result = r, ![t].hit = TRUE, ![t].pc = Returned(t)]
      BY <2>1
  <2> HIDE DEF r
  <2>8. call'[t].pc = Returned(t) /\ call'[t].hit /\ call'[t].at = call[t].at /\ call'[t].result = r
        /\ Still(t)
      BY <2>7 DEF Still, Query
  <2>9. Reads(t)
      BY <2>5, <2>6, <2>8 DEF Reads
  <2> QED BY <2>9 DEF ResultNext
<1>8. CASE ReadFails(t)
    BY <1>8 DEF ReadFails, At, Goto, ResultNext, Placed
<1>9. CASE Begin(t)
    BY <1>9 DEF Begin, At, Goto, ResultNext, Placed
<1>10. CASE Run(t)
  <2>1. Query(t) \in Queries /\ ~call[t].hit
      BY <1>10 DEF Run, At, Placed
  <2> DEFINE r == [query |-> Query(t), engine |-> now.engine, via |-> "scan"]
  <2>2. r \in Result /\ r.query = Query(t) /\ r.engine = now.engine /\ r.via = "scan"
      BY <2>1 DEF Result, Signature
  <2>3. call' = [call EXCEPT ![t].pc = "work", ![t].at = None, ![t].result = r] /\ now' = now
      BY <1>10 DEF Run
  <2> HIDE DEF r
  <2>4. call'[t].pc = "work" /\ call'[t].result = r /\ call'[t].hit = call[t].hit /\ Still(t)
      BY <2>3 DEF Still, Query
  <2>5. Runs(t)
      BY <1>10, <2>1, <2>2, <2>3, <2>4, NoneAssumption DEF Runs, Run, At
  <2> QED BY <2>5 DEF ResultNext
<1>11. CASE AnswerReference(t)
  <2>1. call[t].pc = "work" /\ Query(t) \in Selected
      BY <1>11 DEF AnswerReference, At
  <2>2. \E via \in Vias : Explains(t, via) /\ \E spooled : Answers(t, via, spooled)
      BY <1>11, <2>1, AnswerReferenceDoes DEF Explains, Vias
  <2> QED BY <2>1, <2>2, AnswersFind DEF ResultNext
<1>12. CASE AnswerGraph(t)
  <2>1. call[t].pc = "work" /\ Query(t) = "graph"
      BY <1>12 DEF AnswerGraph, At
  <2>2. \E via \in Vias : Explains(t, via) /\ \E spooled : Answers(t, via, spooled)
    <3>1. CASE /\ now.xrefs # 0 \/ now.calls # 0
               /\ Answers(t, "index", FALSE) /\ UNCHANGED <<now, events>>
        BY <2>1, <3>1 DEF Explains, Vias
    <3>2. CASE /\ now.xrefs = 0 /\ now.calls = 0
               /\ \E via \in {"restored", "built"} : Answers(t, via, FALSE)
               /\ now' = [now EXCEPT !.calls = events + 1] /\ events' = events + 1
        BY <2>1, <3>2 DEF Explains, Vias
    <3>3. CASE /\ now.xrefs = 0 /\ now.calls = 0
               /\ Answers(t, "scan", FALSE) /\ UNCHANGED <<now, events>>
        BY <2>1, <3>3 DEF Explains, Vias
    <3> QED BY <1>12, <3>1, <3>2, <3>3, AnswerGraphDoes
  <2> QED BY <2>1, <2>2, AnswersFind DEF ResultNext
<1>13. CASE AnswerBuild(t) \/ Install(t)
  <2>1. call[t].pc \in {"work", "install"} /\ Query(t) = "build" /\ ~call[t].hit
      BY <1>13 DEF AnswerBuild, Install, At, Placed
  <2>2. CASE call' = [call EXCEPT ![t].pc = "install"]
      BY <2>1, <2>2 DEF ResultNext
  <2>3. \A via \in Vias : Explains(t, via)
      BY <2>1 DEF Explains
  <2> QED BY <1>13, <2>1, <2>2, <2>3, AnswerBuildDoes, AnswersFind DEF ResultNext, Vias
<1>14. CASE Fail(t)
    BY <1>14 DEF Fail, ResultNext, Placed
<1>15. CASE Finish(t)
  <2>1. call[t].pc = "finish" /\ Returns(t) /\ ~call[t].hit /\ now' = now
      BY <1>15, FinishDoes DEF Placed
  <2>2. CASE call[t].result = None
      BY <2>1, <2>2 DEF Returns, Idle, ResultNext
  <2>3. CASE call[t].result # None
    <3>1. /\ call'[t].pc = Returned(t) /\ call'[t].result = call[t].result
          /\ call'[t].hit = call[t].hit /\ Still(t)
        BY <2>1, <2>3 DEF Returns, Still, Query
    <3>2. Passes(t)
        BY <2>1, <2>3, <3>1 DEF Passes
    <3> QED BY <3>2 DEF ResultNext
  <2> QED BY <2>2, <2>3
<1>16. CASE Chunk(t)
    BY <1>16 DEF Chunk, ResultNext
<1>17. CASE More(t)
    BY <1>17 DEF More, At, Goto, ResultNext, Placed
<1>18. CASE Grouped(t)
    BY <1>18 DEF Grouped, At, ResultNext, Placed
<1> HIDE DEF CallType
<1> QED BY <1>1, <1>2, <1>3, <1>4, <1>5, <1>6, <1>7, <1>8, <1>9, <1>10, <1>11, <1>12, <1>13,
           <1>14, <1>15, <1>16, <1>17, <1>18 DEF Step

Collects(t) ==
    /\ call[t].pc = "chunk" /\ Query(t)' = Query(t) /\ call'[t].start = call[t].start
    /\ call'[t].seen = call[t].seen \cup {call[t].result} /\ now' = now
    /\ \/ /\ call'[t].pc = "next"
          /\ call[t].seen = {} \/ \E r \in call[t].seen : r.via = call[t].result.via
       \/ call'[t].pc = "done" /\ call'[t].changed

Ends(t) ==
    /\ call[t].pc = "next" /\ call'[t].pc = "done" /\ now' = now
    /\ Query(t)' = Query(t) /\ call'[t].start = call[t].start /\ call'[t].seen = call[t].seen
    /\ ~call'[t].changed => now.engine = call[t].start

Starts(t) ==
    /\ call'[t].pc = "lock" /\ call'[t].seen = {} /\ call'[t].start = now.engine /\ now' = now

\* What becomes of a grouped query.
GroupNext(t) ==
    \/ ~call'[t].grouped
    \/ Starts(t)
    \/ call[t].grouped /\ Still(t) /\ call[t].pc # "done" /\ call'[t].pc \notin {"next", "done"}
    \/ call[t].grouped /\ (Collects(t) \/ Ends(t))

\* A grouped query starts, goes on, takes a flat page, or ends.
LEMMA GroupShape ==
    ASSUME Typed, AllPlaced, NEW t \in Callers, Step(t)
    PROVE  GroupNext(t)
<1> USE CallTyped DEF CallType
<1>1. ASSUME NEW q \in Queries, PageHit(t, q) \/ PageMiss(t, q) \/ Start(t, q) PROVE GroupNext(t)
  <2>1. CASE PageHit(t, q)
      BY <2>1 DEF PageHit, Idle, GroupNext
  <2>2. CASE PageMiss(t, q)
      BY <2>2 DEF PageMiss, Idle, GroupNext
  <2>3. CASE Start(t, q)
      BY <2>3 DEF Start, Idle, GroupNext, Starts
  <2> QED BY <1>1, <2>1, <2>2, <2>3
<1>2. CASE StartBuild(t) \/ Put(t) \/ Return(t)
  <2>1. ~call'[t].grouped
    <3>1. CASE StartBuild(t)
        BY <3>1 DEF StartBuild, Idle
    <3>2. CASE Put(t) \/ Return(t)
        BY <3>2 DEF Put, Return, Idle
    <3> QED BY <1>2, <3>1, <3>2
  <2> QED BY <2>1 DEF GroupNext
<1>3. ASSUME Still(t), call[t].pc # "done", call'[t].pc \notin {"next", "done"}
      PROVE  GroupNext(t)
    BY <1>3 DEF GroupNext, Still
<1>4. CASE NoSets(t)
  <2>1. Still(t) /\ call[t].pc # "done" /\ call'[t].pc = "run"
      BY <1>4 DEF NoSets, Looks, At, Goto, Still, Query
  <2> QED BY <1>3, <2>1
<1>5. CASE ReadOpen(t)
  <2>1. call[t].pc \in {"read", "lock"}
      BY <1>5 DEF ReadOpen, Looks, At
  <2>2. \E id \in Signatures : \E pc \in {"begin", "reading"} :
            call' = [call EXCEPT ![t].at = id, ![t].pc = pc]
      BY <1>5, ReadOpenDoes
  <2>3. Still(t) /\ call'[t].pc \in {"begin", "reading"}
      BY <2>2 DEF Still, Query
  <2> QED BY <1>3, <2>1, <2>3
<1>6. CASE ReadEnd(t)
  <2>1. Still(t) /\ call[t].pc = "reading" /\ call'[t].pc \in {"put", "chunk"}
      BY <1>6 DEF ReadEnd, At, Returned, Still, Query
  <2> QED BY <1>3, <2>1
<1>7. CASE ReadFails(t)
  <2>1. Still(t) /\ call[t].pc = "reading" /\ call'[t].pc = "begin"
      BY <1>7 DEF ReadFails, At, Goto, Still, Query
  <2> QED BY <1>3, <2>1
<1>8. CASE Begin(t)
  <2>1. Still(t) /\ call[t].pc = "begin" /\ call'[t].pc = "run"
      BY <1>8 DEF Begin, At, Goto, Still, Query
  <2> QED BY <1>3, <2>1
<1>9. CASE Run(t)
  <2>1. Still(t) /\ call[t].pc = "run" /\ call'[t].pc = "work"
      BY <1>9 DEF Run, At, Still, Query
  <2> QED BY <1>3, <2>1
<1>10. CASE Fail(t)
  <2>1. Still(t) /\ call[t].pc \in {"work", "install"} /\ call'[t].pc = "finish"
      BY <1>10 DEF Fail, Still, Query
  <2> QED BY <1>3, <2>1
<1>11. ASSUME call[t].pc \in {"work", "install"}, NEW via, NEW spooled, Answers(t, via, spooled)
       PROVE  GroupNext(t)
  <2>1. Still(t) /\ call'[t].pc = "finish"
      BY <1>11 DEF Answers, Still, Query
  <2> QED BY <1>3, <1>11, <2>1
<1>12. CASE AnswerReference(t)
    BY <1>11, <1>12, AnswerReferenceDoes DEF AnswerReference, At
<1>13. CASE AnswerGraph(t)
    BY <1>11, <1>13, AnswerGraphDoes DEF AnswerGraph, At
<1>14. CASE AnswerBuild(t) \/ Install(t)
  <2>1. call[t].pc \in {"work", "install"}
      BY <1>14 DEF AnswerBuild, Install, At
  <2>2. CASE call' = [call EXCEPT ![t].pc = "install"]
    <3>1. Still(t) /\ call'[t].pc = "install"
        BY <2>2 DEF Still, Query
    <3> QED BY <1>3, <2>1, <3>1
  <2> QED BY <1>11, <1>14, <2>1, <2>2, AnswerBuildDoes
<1>15. CASE Finish(t)
  <2>1. call[t].pc = "finish" /\ Returns(t)
      BY <1>15, FinishDoes
  <2>2. CASE call[t].result = None
      BY <2>1, <2>2 DEF Returns, Idle, GroupNext
  <2>3. CASE call[t].result # None
    <3>1. Still(t) /\ call'[t].pc \in {"put", "chunk"}
        BY <2>1, <2>3 DEF Returns, Returned, Still, Query
    <3> QED BY <1>3, <2>1, <3>1
  <2> QED BY <2>2, <2>3
<1>16. CASE Chunk(t)
  <2>1. call[t].pc = "chunk" /\ call[t].grouped /\ now' = now
      BY <1>16 DEF Chunk, At, Placed
  <2> DEFINE n == call[t].chunk + 1
             seen == call[t].seen \cup {call[t].result}
             got == [call[t] EXCEPT !.result = None, !.at = None, !.hit = FALSE,
                                    !.chunk = n, !.seen = seen]
             other == Metadata(t) # {} /\ call[t].result.via \notin Metadata(t)
  <2>2. \/ other /\ call' = [call EXCEPT ![t] = [got EXCEPT !.pc = "done", !.changed = TRUE]]
        \/ ~other /\ call' = [call EXCEPT ![t] = [got EXCEPT !.pc = "next"]]
      BY <1>16 DEF Chunk
  <2>3. ~other => call[t].seen = {} \/ \E r \in call[t].seen : r.via = call[t].result.via
      BY DEF Metadata
  <2> HIDE DEF n, seen, other
  <2>4. /\ got.query = call[t].query /\ got.start = call[t].start /\ got.seen = seen
        /\ got \in [DOMAIN call[t] -> {got[f] : f \in DOMAIN call[t]}]
        /\ {"pc", "query", "start", "seen", "changed"} \subseteq DOMAIN call[t]
      OBVIOUS
  <2> HIDE DEF got
  <2>5. Query(t)' = Query(t) /\ call'[t].start = call[t].start /\ call'[t].seen = seen
      BY <2>2, <2>4 DEF Query
  <2>6. \/ other /\ call'[t].pc = "done" /\ call'[t].changed
        \/ ~other /\ call'[t].pc = "next"
      BY <2>2, <2>4
  <2>7. Collects(t)
      BY <2>1, <2>3, <2>5, <2>6 DEF Collects, seen
  <2> QED BY <2>1, <2>7 DEF GroupNext
<1>17. CASE More(t)
  <2>1. Still(t) /\ call[t].pc = "next" /\ call'[t].pc = "lock"
      BY <1>17 DEF More, At, Goto, Still, Query
  <2> QED BY <1>3, <2>1
<1>18. CASE Grouped(t)
  <2>1. call[t].pc = "next" /\ call[t].grouped /\ now' = now
      BY <1>18 DEF Grouped, At, Placed
  <2>2. /\ call'[t].pc = "done" /\ Query(t)' = Query(t) /\ call'[t].start = call[t].start
        /\ call'[t].seen = call[t].seen
      BY <1>18 DEF Grouped, Query
  <2>3. ~call'[t].changed => now.engine = call[t].start
      BY <1>18 DEF Grouped
  <2>4. Ends(t)
      BY <2>1, <2>2, <2>3 DEF Ends
  <2> QED BY <2>1, <2>4 DEF GroupNext
<1> HIDE DEF CallType
<1> QED BY <1>1, <1>2, <1>4, <1>5, <1>6, <1>7, <1>8, <1>9, <1>10, <1>12, <1>13,
           <1>14, <1>15, <1>16, <1>17, <1>18 DEF Step

\* No signature is from the future.
LEMMA KnownKept ==
    ASSUME Typed, AllPlaced, Known, Next
    PROVE  Known'
<1>1. Past \subseteq Past' /\ now \in Past /\ now' \in Past'
    BY TypedKept, PastGrows DEF Known
<1>2. \A i \in 0..events : i \in (0..events)'
    BY TypedKept, CacheAssumption DEF Typed, Advances
<1>3. CASE Upgrade
  <2>1. UNCHANGED <<pages, refs, pend, call>>
      BY <1>3 DEF Upgrade
  <2> QED BY <1>1, <1>2, <2>1 DEF Known
<1>4. ASSUME NEW t \in Callers, Step(t)
      PROVE  Known'
  <2>1. pages'.id \in Past' \cup {None}
      BY <1>1, <1>4, PagesShape DEF Known
  <2>2. \A e \in ToSet(refs'.list) : e.key[2] \in Past'
      BY <1>1, <1>4, SetsShape DEF Known, Arrived, Ticket
  <2>3. \A x \in pend' : x.key[2] \in Past'
      BY <1>1, <1>4, TicketsShape DEF Known, TicketNext, Ticket
  <2>4. call'[t].id \in Past' \cup {None}
      BY <1>1, <1>4, IdShape DEF Known, IdNext
  <2>5. call'[t].grouped => call'[t].start \in (0..events)'
    <3>1. now.engine \in 0..events
        BY DEF Known, Past
    <3> QED BY <1>2, <1>4, <3>1, GroupShape DEF Known, GroupNext, Starts, Still, Collects, Ends
  <2>6. \A u \in Callers \ {t} : call'[u] = call[u]
      BY <1>4, StepShape
  <2>7. \A u \in Callers : /\ call'[u].id \in Past' \cup {None}
                           /\ call'[u].grouped => call'[u].start \in (0..events)'
      BY <1>1, <1>2, <2>4, <2>5, <2>6 DEF Known
  <2> QED BY <1>1, <2>1, <2>2, <2>3, <2>7 DEF Known
<1> QED BY <1>3, <1>4 DEF Next

-----------------------------------------------------------------------------
(***************************************************************************)
(* What is true of the answers.  An answer is kept for a signature; it may *)
(* be wrong for it only once that signature cannot come back (Over).       *)
(***************************************************************************)

\* An answer that may be kept for a signature.
Truthful(r, id) == Over(id) \/ Fresh(r, id)

\* The same in the next state, of an answer and a signature of this one.
OverThen(id) ==
    \/ id.engine # now'.engine \/ id.xrefs # now'.xrefs
    \/ id.calls \notin {0, now'.calls}
TruthfulThen(r, id) == OverThen(id) \/ Fresh(r, id)

\* What may be kept for a signature may be kept for ever.
LEMMA TruthStable ==
    ASSUME Typed, Known, Advances, NEW id \in Past
    PROVE  /\ Over(id) => OverThen(id)
           /\ \A r : Truthful(r, id) => TruthfulThen(r, id)
<1>1. Over(id) => OverThen(id)
    BY OverStable DEF Known, Over, OverThen
<1> QED BY <1>1 DEF Truthful, TruthfulThen

\* What is not over has the engine and the index of now.
LEMMA NotOver ==
    ASSUME Known, NEW id \in Past, ~Over(id)
    PROVE  /\ id.engine = now.engine /\ id.xrefs = now.xrefs
           /\ id.calls = now.calls \/ id.calls = 0
           /\ id.calls = now.calls => id = now
<1>1. id.engine = now.engine /\ id.xrefs = now.xrefs /\ (id.calls = now.calls \/ id.calls = 0)
    BY DEF Over
<1>2. id.calls = now.calls => id = now
    BY <1>1 DEF Known, Past
<1> QED BY <1>1, <1>2

\* Sets and what workers have spooled.
SetsTrue ==
    /\ \A e \in ToSet(refs.list) : Truthful(e.result, e.key[2])
    /\ \A p \in pend : p.set # None => Truthful(p.set, p.key[2])

\* A worker's engine is that of the signature taken before it started, and the
\* index of the calls is as it was then while a call graph is made.
WorkTrue ==
    /\ \A t \in Callers : call[t].pc = "work" /\ call[t].id # None =>
        Over(call[t].id) \/ call[t].result.engine = call[t].id.engine
    /\ \A p \in pend : p.owner # None /\ call[p.owner].pc = "work" =>
        Over(p.key[2]) \/ call[p.owner].result.engine = p.key[2].engine
CallsHeld ==
    \A t \in Callers : call[t].pc \in {"run", "work"} /\ Query(t) = "graph" /\ call[t].id # None =>
        Over(call[t].id) \/ call[t].id.calls = now.calls

\* What a worker spools is true of the signature of its reservation.
LEMMA SetsTrueKept ==
    ASSUME Typed, AllPlaced, Known, Ticketed, SetsTrue, WorkTrue, Next
    PROVE  SetsTrue'
<1>1. Advances
    BY TypedKept
<1>2. ASSUME NEW id \in Past, NEW r, Truthful(r, id) PROVE TruthfulThen(r, id)
    BY <1>1, <1>2, TruthStable
<1>3. \A e \in ToSet(refs.list) : TruthfulThen(e.result, e.key[2])
    BY <1>2 DEF SetsTrue, Known
<1>4. \A p \in pend : p.set # None => TruthfulThen(p.set, p.key[2])
    BY <1>2 DEF SetsTrue, Known
<1>5. CASE Upgrade
    BY <1>3, <1>4, <1>5 DEF Upgrade, SetsTrue, Truthful, TruthfulThen, Over, OverThen
<1>6. ASSUME NEW t \in Callers, Step(t)
      PROVE  SetsTrue'
  <2>1. \A e \in ToSet(refs'.list) : TruthfulThen(e.result, e.key[2])
      BY <1>3, <1>4, <1>6, SetsShape DEF Arrived, Ticket
  <2>2. ASSUME NEW x \in pend', x.set # None
        PROVE  TruthfulThen(x.set, x.key[2])
    <3>1. CASE x \in pend
        BY <1>4, <2>2, <3>1
    <3>2. ASSUME NEW p \in Ticket(t), x.key = p.key, Scanned(t, x)
          PROVE  TruthfulThen(x.set, x.key[2])
      <4>1. p \in pend /\ p.owner = t /\ p.key[2] \in Past /\ t # None
          BY NoneAssumption DEF Ticket, Known
      <4>2. Over(p.key[2]) \/ call[t].result.engine = p.key[2].engine
          BY <3>2, <4>1 DEF WorkTrue, Scanned
      <4>3. CASE Over(p.key[2])
          BY <1>1, <3>2, <4>1, <4>3, TruthStable DEF TruthfulThen
      <4>4. CASE ~Over(p.key[2])
        <5>1. p.key[2].xrefs = 0
            BY <3>2, <4>1, <4>4, NotOver DEF Scanned
        <5> QED BY <3>2, <4>2, <4>4, <5>1 DEF Scanned, TruthfulThen, Fresh
      <4> QED BY <4>3, <4>4
    <3> QED BY <1>6, <2>2, <3>1, <3>2, TicketsShape DEF TicketNext
  <2> QED BY <2>1, <2>2 DEF SetsTrue, Truthful, TruthfulThen, Over, OverThen
<1> QED BY <1>5, <1>6 DEF Next

\* A worker starts after the signature of its query was taken, so that with
\* another engine that signature is over.
LEMMA WorkTrueKept ==
    ASSUME Typed, AllPlaced, Known, Ticketed, WorkTrue, Next
    PROVE  WorkTrue'
<1>1. Advances
    BY TypedKept
<1>2. ASSUME NEW id \in Past, Over(id) PROVE OverThen(id)
    BY <1>1, <1>2, TruthStable
<1>3. \A u \in Callers : call[u].pc = "work" /\ call[u].id # None =>
            OverThen(call[u].id) \/ call[u].result.engine = call[u].id.engine
    BY <1>2 DEF WorkTrue, Known
<1>4. \A p \in pend : p.owner # None /\ call[p.owner].pc = "work" =>
            OverThen(p.key[2]) \/ call[p.owner].result.engine = p.key[2].engine
    BY <1>2 DEF WorkTrue, Known
<1>5. CASE Upgrade
    BY <1>3, <1>4, <1>5 DEF Upgrade, WorkTrue, Over, OverThen
<1>6. ASSUME NEW t \in Callers, Step(t)
      PROVE  WorkTrue'
  <2>1. \A u \in Callers \ {t} : call'[u] = call[u]
      BY <1>6, StepShape
  <2>2. call'[t].pc = "work" => Runs(t)
    <3>1. call'[t].pc = "work" => ~Repeats(t) /\ ~Finds(t) /\ ~Passes(t) /\ ~Reads(t)
        BY DEF Repeats, Finds, Passes, Reads, Returned
    <3> QED BY <1>6, <3>1, ResultShape DEF ResultNext
  <2>3. ASSUME NEW id \in Past, Runs(t)
        PROVE  OverThen(id) \/ call'[t].result.engine = id.engine
      BY <2>3 DEF Runs, OverThen
  <2>4. call'[t].pc = "work" /\ call'[t].id # None =>
            OverThen(call'[t].id) \/ call'[t].result.engine = call'[t].id.engine
    <3>1. Runs(t) => call'[t].id = call[t].id
        BY DEF Runs, Still
    <3>2. call[t].id \in Past \cup {None}
        BY DEF Known
    <3> QED BY <2>2, <2>3, <3>1, <3>2
  <2>5. \A u \in Callers : call'[u].pc = "work" /\ call'[u].id # None =>
            OverThen(call'[u].id) \/ call'[u].result.engine = call'[u].id.engine
      BY <1>3, <2>1, <2>4
  <2>6. ASSUME NEW x \in pend', x.owner # None, call'[x.owner].pc = "work"
        PROVE  OverThen(x.key[2]) \/ call'[x.owner].result.engine = x.key[2].engine
    <3>1. CASE x \in pend /\ x.owner # t
      <4>1. x.owner \in Callers \ {t}
          BY <2>6, <3>1 DEF Typed, TicketType
      <4> QED BY <1>4, <2>1, <2>6, <3>1, <4>1
    <3>2. CASE x.owner = t
      <4>1. Runs(t)
          BY <2>2, <2>6, <3>2
      <4>2. x \in pend
        <5>1. call'[t].pc # "finish" /\ call'[t].pc # "run" /\ x.owner # None
            BY <2>6, <3>2, <4>1 DEF Runs
        <5> QED BY <1>6, <3>2, <5>1, TicketsShape DEF TicketNext
      <4>3. x.key[2] \in Past
          BY <4>2 DEF Known
      <4> QED BY <2>3, <3>2, <4>1, <4>3
    <3>3. x \in pend \/ x.owner = t
        BY <1>6, <2>6, TicketsShape DEF TicketNext
    <3> QED BY <3>1, <3>2, <3>3
  <2> QED BY <2>5, <2>6 DEF WorkTrue, Over, OverThen
<1> QED BY <1>5, <1>6 DEF Next

\* The index of the calls is written or removed by a query of the index stripe.
LEMMA CallsWritten ==
    ASSUME Typed, AllPlaced, NEW t \in Callers, Step(t)
    PROVE  \/ now'.calls = now.calls
           \/ /\ call[t].pc \in {"work", "install"} /\ Query(t) \in {"graph", "build"}
              /\ call'[t].pc \in {"finish", "install"}
<1> USE DEF Signature
<1>1. CASE now' = now
    BY <1>1
<1>2. CASE \/ \E q \in Queries : PageHit(t, q) \/ PageMiss(t, q) \/ Start(t, q)
           \/ StartBuild(t) \/ Put(t) \/ NoSets(t) \/ ReadOpen(t) \/ ReadEnd(t) \/ ReadFails(t)
           \/ Begin(t) \/ Run(t) \/ Fail(t) \/ Finish(t)
           \/ Chunk(t) \/ More(t) \/ Grouped(t) \/ Return(t)
    BY <1>1, <1>2 DEF PageHit, PageMiss, Start, StartBuild, Put, NoSets, ReadOpen, ReadEnd, ReadFails,
                      Begin, Run, Fail, Finish, Chunk, More, Grouped, Return
<1>3. CASE AnswerReference(t)
  <2>1. now' = now \/ now' = [now EXCEPT !.xrefs = events + 1]
      BY <1>3, AnswerReferenceDoes
  <2> QED BY <2>1, CallTyped
<1>4. ASSUME NEW via, NEW spooled, Answers(t, via, spooled) PROVE call'[t].pc = "finish"
    BY <1>4, CallTyped DEF Answers, CallType
<1>5. CASE AnswerGraph(t)
  <2>1. call'[t].pc = "finish"
      BY <1>4, <1>5, AnswerGraphDoes
  <2> QED BY <1>5, <2>1 DEF AnswerGraph, At
<1>6. CASE AnswerBuild(t) \/ Install(t)
  <2>1. call[t].pc \in {"work", "install"} /\ Query(t) = "build"
      BY <1>6, CallTyped DEF AnswerBuild, Install, At, Placed
  <2>2. ASSUME call' = [call EXCEPT ![t].pc = "install"] PROVE call'[t].pc = "install"
      BY <2>2, CallTyped DEF CallType
  <2>3. call'[t].pc \in {"finish", "install"}
      BY <1>4, <1>6, <2>2, AnswerBuildDoes
  <2> QED BY <2>1, <2>3
<1> QED BY <1>2, <1>3, <1>5, <1>6 DEF Step

\* Nobody else is in the index stripe while a call graph is made.
LEMMA CallsHeldKept ==
    ASSUME Typed, AllPlaced, Known, Exclusive, CallsHeld, Next
    PROVE  CallsHeld'
<1>1. Advances
    BY TypedKept
<1>2. \A u \in Callers : call[u].pc \in {"run", "work"} /\ Query(u) = "graph" /\ call[u].id # None =>
            OverThen(call[u].id) \/ call[u].id.calls = now.calls
    BY <1>1, TruthStable DEF CallsHeld, Known
<1>3. CASE Upgrade
  <2>1. now'.calls = now.calls /\ call' = call
      BY <1>3 DEF Upgrade, Write, Typed, Signature
  <2> QED BY <1>2, <2>1 DEF CallsHeld, Over, OverThen, Query
<1>4. ASSUME NEW t \in Callers, Step(t)
      PROVE  CallsHeld'
  <2>1. \A u \in Callers \ {t} : call'[u] = call[u]
      BY <1>4, StepShape
  <2>2. ASSUME NEW u \in Callers \ {t}, call[u].pc \in {"run", "work"}, Query(u) = "graph"
        PROVE  now'.calls = now.calls
    <3>1. ASSUME call[t].pc \in {"work", "install"}, Query(t) \in {"graph", "build"}
          PROVE  FALSE
      <4>1. Inside(t) /\ Inside(u) /\ Stripe(Query(t)) = Stripe(Query(u))
          BY <2>2, <3>1, CacheAssumption DEF Inside, Stripe
      <4> QED BY <4>1 DEF Exclusive
    <3> QED BY <1>4, <3>1, CallsWritten
  <2>3. ASSUME NEW u \in Callers \ {t}, call'[u].pc \in {"run", "work"}, Query(u)' = "graph",
               call'[u].id # None
        PROVE  OverThen(call'[u].id) \/ call'[u].id.calls = now'.calls
      BY <1>2, <2>1, <2>2, <2>3 DEF Query
  <2>4. ASSUME call'[t].pc \in {"run", "work"}, Query(t)' = "graph", call'[t].id # None
        PROVE  OverThen(call'[t].id) \/ call'[t].id.calls = now'.calls
    <3>1. now'.calls = now.calls
        BY <1>4, <2>4, CallsWritten
    <3>2. CASE call'[t].id = now
        BY <3>1, <3>2
    <3>3. CASE call[t].pc \in {"run", "work"} /\ call'[t].id = call[t].id /\ Query(t)' = Query(t)
        BY <1>2, <2>4, <3>1, <3>3
    <3>4. call'[t].pc = "work" => call[t].pc = "run"
      <4>1. call'[t].pc = "work" => ~Repeats(t) /\ ~Finds(t) /\ ~Passes(t) /\ ~Reads(t)
          BY DEF Repeats, Finds, Passes, Reads, Returned
      <4> QED BY <1>4, <4>1, ResultShape DEF ResultNext, Runs
    <3>5. CASE call'[t].pc = "run"
        BY <1>4, <2>4, <3>2, <3>5, IdShape, CacheAssumption DEF IdNext
    <3> QED BY <1>4, <2>4, <3>2, <3>3, <3>4, <3>5, IdShape DEF IdNext
  <2>5. CallsHeld' = \A u \in Callers : call'[u].pc \in {"run", "work"} /\ Query(u)' = "graph"
                        /\ call'[u].id # None =>
                            OverThen(call'[u].id) \/ call'[u].id.calls = now'.calls
      BY DEF CallsHeld, Over, OverThen, Query
  <2> QED BY <2>3, <2>4, <2>5
<1> QED BY <1>3, <1>4 DEF Next

\* An answer that may go to the page cache is true of its signature, or the
\* signature is not that of the files any more.
Late(t) == Query(t) = "graph" /\ call[t].id.calls # now.calls
AnswersTrue ==
    \A t \in Callers :
        call[t].pc \in {"finish", "put"} /\ call[t].id # None /\ call[t].result # None =>
            Truthful(call[t].result, call[t].id) \/ Late(t)

\* What a worker answers is true of the signature before it, if it ran in time.
LEMMA FindsTrue ==
    ASSUME Typed, AllPlaced, Known, WorkTrue, CallsHeld, NEW t \in Callers, Step(t), Finds(t),
           call[t].id # None
    PROVE  TruthfulThen(call'[t].result, call'[t].id) \/ Late(t)'
<1> DEFINE id == call[t].id
<1>1. id \in Past /\ call'[t].id = id /\ Query(t)' = Query(t)
    BY DEF Known, Finds, Still
<1>2. call[t].pc = "work" /\ Query(t) # "build"
    BY CallTyped DEF Placed, Finds
<1>3. Over(id) \/ call'[t].result.engine = id.engine
    BY <1>2 DEF WorkTrue, Finds
<1>4. CASE Over(id)
    BY <1>1, <1>4, StepShape, TruthStable DEF TruthfulThen
<1>5. CASE ~Over(id)
  <2>1. /\ id.engine = now.engine /\ id.xrefs = now.xrefs /\ id.xrefs \in 0..events
        /\ id.calls \in 0..events /\ call'[t].result.engine = id.engine
      BY <1>1, <1>3, <1>5, NotOver DEF Past
  <2>2. Query(t) = "graph" => id.calls = now.calls
      BY <1>2, <1>5 DEF CallsHeld
  <2>3. events \in Nat /\ now \in Signature
      BY CacheAssumption DEF Typed
  <2> HIDE DEF id
  <2>4. PICK via \in Vias : Explains(t, via) /\ call'[t].result.via = via
      BY DEF Finds
  <2>5. CASE via = "index" /\ (now.xrefs # 0 \/ (Query(t) = "graph" /\ now.calls # 0))
      BY <1>1, <2>1, <2>2, <2>4, <2>5 DEF TruthfulThen, Fresh
  <2>6. CASE now' = [now EXCEPT !.xrefs = events + 1]
    <3>1. now'.xrefs = events + 1
        BY <2>3, <2>6 DEF Signature
    <3> QED BY <1>1, <2>1, <2>3, <3>1 DEF TruthfulThen, OverThen
  <2>7. CASE Query(t) = "graph" /\ now' = [now EXCEPT !.calls = events + 1]
    <3>1. now'.calls = events + 1
        BY <2>3, <2>7 DEF Signature
    <3>2. call'[t].id.calls # now'.calls
        BY <1>1, <2>1, <2>3, <3>1
    <3> QED BY <1>1, <2>7, <3>2 DEF Late
  <2>8. CASE via = "scan" /\ now.xrefs = 0
      BY <1>1, <2>1, <2>4, <2>8 DEF TruthfulThen, Fresh
  <2> QED BY <1>2, <2>4, <2>5, <2>6, <2>7, <2>8 DEF Explains
<1> QED BY <1>4, <1>5

\* A set that is read is true of the files now, and so of a signature in time.
LEMMA ReadsTrue ==
    ASSUME Typed, Known, Named, SetsTrue, NEW t \in Callers, Reads(t)
    PROVE  /\ Fresh(call'[t].result, now) /\ call'[t].result.query = Query(t)
           /\ \A id \in Past : Truthful(call'[t].result, id)
<1>1. PICK e \in ToSet(refs.list) : e.key = <<Query(t), now>> /\ call'[t].result = e.result
    BY DEF Reads
<1>2. e.key[1] = Query(t) /\ e.key[2] = now
    BY <1>1
<1>3. ~Over(now)
    BY DEF Over
<1>4. /\ Fresh(e.result, now) /\ e.result.via = "scan" /\ e.result.query = Query(t)
    BY <1>2, <1>3 DEF SetsTrue, Named, Truthful
<1>5. ASSUME NEW id \in Past, ~Over(id) PROVE Fresh(e.result, id)
    BY <1>4, <1>5, NotOver DEF Fresh
<1> QED BY <1>1, <1>4, <1>5 DEF Truthful

\* Answers on their way to the pages.
LEMMA AnswersTrueKept ==
    ASSUME Typed, AllPlaced, Known, Named, Exclusive, SetsTrue, WorkTrue, CallsHeld, AnswersTrue, Next
    PROVE  AnswersTrue'
<1>1. Advances
    BY TypedKept
<1>2. ASSUME NEW u \in Callers, call[u].pc \in {"finish", "put"}, call[u].id # None,
             call[u].result # None
      PROVE  TruthfulThen(call[u].result, call[u].id) \/ Late(u)
  <2>1. call[u].id \in Past
      BY <1>2 DEF Known
  <2> QED BY <1>1, <1>2, <2>1, TruthStable DEF AnswersTrue
<1>3. CASE Upgrade
  <2>1. now'.calls = now.calls /\ call' = call
      BY <1>3 DEF Upgrade, Write, Typed, Signature
  <2> QED BY <1>2, <2>1 DEF AnswersTrue, Truthful, TruthfulThen, Over, OverThen, Late, Query
<1>4. ASSUME NEW t \in Callers, Step(t)
      PROVE  AnswersTrue'
  <2>1. \A u \in Callers \ {t} : call'[u] = call[u]
      BY <1>4, StepShape
  <2>2. ASSUME NEW u \in Callers \ {t}, call[u].pc \in {"finish", "put"}, Query(u) = "graph"
        PROVE  now'.calls = now.calls
    <3>1. ASSUME call[t].pc \in {"work", "install"}, Query(t) \in {"graph", "build"}
          PROVE  FALSE
      <4>1. Inside(t) /\ Inside(u) /\ Stripe(Query(t)) = Stripe(Query(u))
          BY <2>2, <3>1, CacheAssumption DEF Inside, Stripe
      <4> QED BY <4>1 DEF Exclusive
    <3> QED BY <1>4, <3>1, CallsWritten
  <2>3. ASSUME NEW u \in Callers \ {t}, call'[u].pc \in {"finish", "put"}, call'[u].id # None,
               call'[u].result # None
        PROVE  TruthfulThen(call'[u].result, call'[u].id) \/ Late(u)'
      BY <1>2, <2>1, <2>2, <2>3 DEF Late, Query
  <2>4. ASSUME call'[t].pc \in {"finish", "put"}, call'[t].id # None, call'[t].result # None
        PROVE  TruthfulThen(call'[t].result, call'[t].id) \/ Late(t)'
    <3>1. CASE Finds(t)
      <4>1. call[t].id # None
          BY <2>4, <3>1 DEF Finds, Still
      <4> QED BY <1>4, <3>1, <4>1, FindsTrue
    <3>2. CASE Passes(t)
      <4>1. /\ call[t].pc = "finish" /\ call[t].result # None /\ call[t].id # None /\ now' = now
            /\ call'[t].result = call[t].result /\ call'[t].id = call[t].id /\ Query(t)' = Query(t)
          BY <2>4, <3>2 DEF Passes, Still
      <4> QED BY <1>2, <4>1 DEF Late
    <3>3. CASE Reads(t)
      <4>1. call'[t].id \in Past
          BY <2>4, <3>3 DEF Reads, Still, Known
      <4>2. Truthful(call'[t].result, call'[t].id) /\ now' = now
          BY <3>3, <4>1, ReadsTrue DEF Reads
      <4> QED BY <4>2 DEF Truthful, TruthfulThen, Over, OverThen
    <3>4. ~Runs(t) /\ ~Repeats(t)
        BY <2>4 DEF Runs, Repeats
    <3> QED BY <1>4, <2>4, <3>1, <3>2, <3>3, <3>4, ResultShape DEF ResultNext
  <2>5. AnswersTrue' = \A u \in Callers :
            call'[u].pc \in {"finish", "put"} /\ call'[u].id # None /\ call'[u].result # None =>
                TruthfulThen(call'[u].result, call'[u].id) \/ Late(u)'
      BY DEF AnswersTrue, Truthful, TruthfulThen, Over, OverThen
  <2> QED BY <2>3, <2>4, <2>5
<1> QED BY <1>3, <1>4 DEF Next

\* Between a look at the pages and the answer the cache may have changed hands.
Relabelled ==
    \A t \in Callers : Inside(t) /\ call[t].id # None =>
        \/ pages.id \in {None, call[t].id} \/ Over(call[t].id)
        \/ Over(pages.id) \/ pages.id.calls # 0

\* The pages of a later look belong to a signature that is still to come, or
\* to one with an index of the calls.
LEMMA RelabelledKept ==
    ASSUME Typed, AllPlaced, Known, Relabelled, Next
    PROVE  Relabelled'
<1> DEFINE Then(u) == Inside(u)' /\ call'[u].id # None =>
                \/ pages'.id \in {None, call'[u].id} \/ OverThen(call'[u].id)
                \/ OverThen(pages'.id) \/ pages'.id.calls # 0
<1>0. SUFFICES \A u \in Callers : Then(u)
    BY DEF Relabelled, Over, OverThen
<1>1. Advances
    BY TypedKept
<1>2. ASSUME NEW u \in Callers, Inside(u), call[u].id # None
      PROVE  \/ pages.id \in {None, call[u].id} \/ OverThen(call[u].id)
             \/ OverThen(pages.id) \/ pages.id.calls # 0
  <2>1. call[u].id \in Past /\ pages.id \in Past \cup {None}
      BY <1>2 DEF Known
  <2> QED BY <1>1, <1>2, <2>1, TruthStable DEF Relabelled
<1>3. CASE Upgrade
    BY <1>2, <1>3 DEF Upgrade, Inside
<1>4. ASSUME NEW t \in Callers, Step(t)
      PROVE  \A u \in Callers : Then(u)
  <2>1. \A u \in Callers \ {t} : call'[u] = call[u]
      BY <1>4, StepShape
  <2>2. ASSUME NEW id \in Past, pages'.id = now, now' = now
        PROVE  \/ pages'.id = id \/ OverThen(id) \/ pages'.id.calls # 0
    <3>1. CASE ~Over(id)
      <4>1. (id.calls = now.calls \/ id.calls = 0) /\ (id.calls = now.calls => id = now)
          BY <3>1, NotOver
      <4> QED BY <2>2, <4>1
    <3>2. CASE Over(id)
        BY <1>1, <3>2, TruthStable
    <3> QED BY <3>1, <3>2
  <2>3. pages'.id \in {pages.id, None} \/ (pages'.id = now /\ now' = now)
      BY <1>4, PagesShape
  <2>4. ASSUME NEW u \in Callers \ {t} PROVE Then(u)
    <3>1. call'[u] = call[u] /\ Inside(u)' = Inside(u) /\ call[u].id \in Past \cup {None}
        BY <2>1 DEF Inside, Known
    <3> QED BY <1>2, <2>2, <2>3, <3>1
  <2>5. Then(t)
    <3>1. CASE call'[t].id = None
        BY <3>1
    <3>2. CASE call'[t].id = call[t].id /\ Inside(t) /\ pages'.id = pages.id
        BY <1>2, <3>2
    <3>3. CASE call'[t].id = now /\ pages'.id = now
        BY <3>3
    <3> QED BY <1>4, <3>1, <3>2, <3>3, IdShape DEF IdNext
  <2> QED BY <2>4, <2>5
<1> QED BY <1>3, <1>4 DEF Next

PagesTrue == pages.id # None => \A e \in ToSet(pages.list) : Truthful(e.result, pages.id)

\* A put compares the signature with that of now, not with that of the pages:
\* by Relabelled that is enough.
LEMMA PagesTrueKept ==
    ASSUME Typed, AllPlaced, Known, AnswersTrue, Relabelled, PagesTrue, Next
    PROVE  PagesTrue'
<1>0. SUFFICES ASSUME pages'.id # None, NEW e \in ToSet(pages'.list)
               PROVE  TruthfulThen(e.result, pages'.id)
    BY DEF PagesTrue, Truthful, TruthfulThen, Over, OverThen
<1>1. Advances
    BY TypedKept
<1>2. ASSUME NEW r, pages.id # None, Truthful(r, pages.id)
      PROVE  TruthfulThen(r, pages.id)
  <2>1. pages.id \in Past
      BY <1>2 DEF Known
  <2> QED BY <1>1, <1>2, <2>1, TruthStable
<1>3. ASSUME pages'.id = pages.id, e \in ToSet(pages.list)
      PROVE  TruthfulThen(e.result, pages'.id)
    BY <1>0, <1>2, <1>3 DEF PagesTrue
<1>4. CASE Upgrade
    BY <1>3, <1>4 DEF Upgrade
<1>5. ASSUME NEW t \in Callers, Step(t)
      PROVE  TruthfulThen(e.result, pages'.id)
  <2>1. ASSUME pages'.id = pages.id, call[t].pc = "put", Keep(call[t].id, call[t].result),
               e.result = call[t].result
        PROVE  TruthfulThen(e.result, pages'.id)
    <3>1. call[t].id = now /\ call[t].id # None /\ call[t].result # None
        BY <2>1, SignatureNow DEF Keep
    <3>2. Truthful(call[t].result, now)
        BY <2>1, <3>1 DEF AnswersTrue, Late
    <3>3. ~Over(now) /\ now \in Past
        BY DEF Over, Known
    <3>4. Fresh(e.result, now)
        BY <2>1, <3>2, <3>3 DEF Truthful
    <3>5. pages.id = now \/ Over(pages.id) \/ pages.id.calls # 0
        BY <1>0, <2>1, <3>1, <3>3 DEF Relabelled, Inside
    <3>6. pages.id = now \/ Over(pages.id)
      <4>1. pages.id \in Past
          BY <1>0, <2>1 DEF Known
      <4> QED BY <3>5, <4>1, NotOver
    <3>7. Truthful(e.result, pages.id)
        BY <3>4, <3>6 DEF Truthful
    <3> QED BY <1>0, <1>2, <2>1, <3>7
  <2> QED BY <1>0, <1>3, <1>5, <2>1, PagesShape
<1> QED BY <1>4, <1>5 DEF Next

HitsTrue ==
    \A t \in Callers : call[t].hit =>
        call[t].result.query = Query(t) /\ Fresh(call[t].result, call[t].at)

\* What is read from a cache is true of now, because now is not over.
LEMMA HitsTrueKept ==
    ASSUME Typed, AllPlaced, Known, Named, SetsTrue, PagesTrue, HitsTrue, Next
    PROVE  HitsTrue'
<1>1. CASE Upgrade
    BY <1>1 DEF Upgrade, HitsTrue, Query
<1>2. ASSUME NEW t \in Callers, Step(t)
      PROVE  HitsTrue'
  <2>1. \A u \in Callers \ {t} : call'[u] = call[u]
      BY <1>2, StepShape
  <2>2. ASSUME call'[t].hit
        PROVE  call'[t].result.query = Query(t)' /\ Fresh(call'[t].result, call'[t].at)
    <3>1. CASE Reads(t)
        BY <3>1, ReadsTrue DEF Reads, Still
    <3>2. CASE Repeats(t)
      <4>1. PICK e \in ToSet(pages.list) : call'[t].result = e.result /\ Query(t)' = e.result.query
          BY <3>2 DEF Repeats
      <4>2. pages.id = now /\ call'[t].at = now /\ pages.id # None /\ ~Over(now)
          BY <3>2, NoneAssumption DEF Repeats, Typed, Over
      <4>3. Fresh(e.result, now)
          BY <4>2 DEF PagesTrue, Truthful
      <4> QED BY <4>1, <4>2, <4>3
    <3>3. ~Runs(t) /\ ~Finds(t) /\ ~Passes(t)
        BY <2>2 DEF Runs, Finds, Passes
    <3> QED BY <1>2, <2>2, <3>1, <3>2, <3>3, ResultShape DEF ResultNext
  <2> QED BY <2>1, <2>2 DEF HitsTrue, Query
<1> QED BY <1>1, <1>2 DEF Next

\* An answer to a grouped query, by the engine it started with or before an upgrade.
Same(t, r) == r.query = Query(t) /\ (r.engine = call[t].start \/ call[t].start # now.engine)

CollectedBy(t) ==
    /\ \A r \in call[t].seen : Same(t, r)
    /\ call[t].pc \in {"work", "finish", "chunk"} /\ call[t].result # None => Same(t, call[t].result)
    /\ ~call[t].changed => \A r, s \in call[t].seen : r.via = s.via
    /\ call[t].pc \in {"next", "done"} => call[t].seen # {}
    /\ call[t].pc = "done" /\ ~call[t].changed => \A r \in call[t].seen : r.engine = call[t].start
Collecting == \A t \in Callers : call[t].grouped => CollectedBy(t)

\* The same of what is in the next state, with the files of the next state.
SameThen(t, r) ==
    r.query = Query(t)' /\ (r.engine = call'[t].start \/ call'[t].start # now'.engine)

\* An engine that has been replaced does not come back.
LEMMA EngineStable ==
    ASSUME Typed, Known, Advances, NEW i \in 0..events, i # now.engine
    PROVE  i # now'.engine
<1>1. events \in Nat /\ i # events + 1 /\ now \in Signature
    BY CacheAssumption DEF Typed
<1>2. now'.engine \in {now.engine, events + 1}
    BY <1>1 DEF Advances, Signature
<1> QED BY <1>1, <1>2

\* Each flat page is by the engine of the start, or the end will notice.
LEMMA CollectingKept ==
    ASSUME Typed, AllPlaced, Known, Named, SetsTrue, Collecting, Next
    PROVE  Collecting'
<1>0. Advances
    BY TypedKept
<1>1. ASSUME NEW u \in Callers, call[u].grouped, call'[u].start = call[u].start,
             Query(u)' = Query(u), NEW r, Same(u, r)
      PROVE  SameThen(u, r)
  <2>1. call[u].start \in 0..events
      BY <1>1 DEF Known
  <2> QED BY <1>0, <1>1, <2>1, EngineStable DEF Same, SameThen
<1>2. ASSUME NEW u \in Callers, call'[u] = call[u], call'[u].grouped
      PROVE  CollectedBy(u)'
    BY <1>1, <1>2 DEF Collecting, CollectedBy, Same, SameThen, Query
<1>3. CASE Upgrade
    BY <1>2, <1>3 DEF Upgrade, Collecting
<1>4. ASSUME NEW t \in Callers, Step(t)
      PROVE  Collecting'
  <2>1. \A u \in Callers \ {t} : call'[u] = call[u]
      BY <1>4, StepShape
  <2>2. ASSUME call'[t].grouped PROVE CollectedBy(t)'
    <3>1. CASE Starts(t)
        BY <3>1 DEF Starts, CollectedBy
    <3>2. CASE call[t].grouped /\ Still(t) /\ call[t].pc # "done" /\ call'[t].pc \notin {"next", "done"}
      <4>1. /\ call'[t].start = call[t].start /\ Query(t)' = Query(t) /\ call'[t].seen = call[t].seen
            /\ ~call'[t].changed /\ ~call[t].changed /\ CollectedBy(t)
          BY <3>2, CallTyped DEF Still, Placed, Collecting
      <4>2. \A r \in call'[t].seen : SameThen(t, r)
          BY <1>1, <3>2, <4>1 DEF CollectedBy
      <4>3. ASSUME call'[t].pc \in {"work", "finish", "chunk"}, call'[t].result # None
            PROVE  SameThen(t, call'[t].result)
        <5>1. CASE Runs(t)
            BY <4>1, <5>1 DEF Runs, SameThen
        <5>2. CASE Finds(t)
          <6>1. call[t].pc = "work" /\ call[t].result # None
            <7>1. call[t].pc # "install"
                BY <3>2, CallTyped, CacheAssumption DEF Placed
            <7> QED BY <5>2, <7>1, CallTyped, NoneAssumption DEF Finds, Placed
          <6>2. SameThen(t, call[t].result)
              BY <1>1, <3>2, <4>1, <6>1 DEF CollectedBy
          <6> QED BY <4>1, <5>2, <6>2 DEF Finds, SameThen
        <5>3. CASE Passes(t)
            BY <1>1, <3>2, <4>1, <5>3 DEF Passes, CollectedBy
        <5>4. CASE Reads(t)
          <6>1. Fresh(call'[t].result, now) /\ call'[t].result.query = Query(t) /\ now' = now
              BY <5>4, ReadsTrue DEF Reads
          <6> QED BY <4>1, <6>1 DEF Fresh, SameThen
        <5> QED BY <1>4, <3>2, <4>3, <5>1, <5>2, <5>3, <5>4, ResultShape DEF ResultNext, Repeats
      <4> QED BY <3>2, <4>1, <4>2, <4>3 DEF CollectedBy, Same, SameThen
    <3>3. CASE call[t].grouped /\ Collects(t)
      <4>1. /\ call'[t].start = call[t].start /\ Query(t)' = Query(t)
            /\ call'[t].seen = call[t].seen \cup {call[t].result} /\ call[t].pc = "chunk"
            /\ ~call[t].changed /\ CollectedBy(t) /\ call[t].result # None
          BY <3>3, CallTyped, NoneAssumption DEF Collects, Placed, Collecting
      <4>2. \A r \in call'[t].seen : SameThen(t, r)
          BY <1>1, <3>3, <4>1 DEF CollectedBy
      <4>3. ~call'[t].changed =>
                /\ call'[t].pc = "next"
                /\ \A r, s \in call'[t].seen : r.via = s.via
          BY <3>3, <4>1 DEF Collects, CollectedBy
      <4>4. call'[t].pc \in {"next", "done"} /\ call'[t].seen # {}
          BY <3>3, <4>1 DEF Collects
      <4> QED BY <4>2, <4>3, <4>4 DEF CollectedBy, Same, SameThen
    <3>4. CASE call[t].grouped /\ Ends(t)
      <4>1. /\ call'[t].start = call[t].start /\ Query(t)' = Query(t) /\ call'[t].seen = call[t].seen
            /\ call'[t].pc = "done" /\ call[t].pc = "next"
            /\ ~call[t].changed /\ CollectedBy(t)
          BY <3>4, CallTyped DEF Ends, Placed, Collecting
      <4>2. \A r \in call'[t].seen : SameThen(t, r)
          BY <1>1, <3>4, <4>1 DEF CollectedBy
      <4>3. ~call'[t].changed => \A r \in call'[t].seen : r.engine = call'[t].start
          BY <3>4, <4>1 DEF Ends, CollectedBy, Same
      <4> QED BY <4>1, <4>2, <4>3 DEF CollectedBy, Same, SameThen
    <3> QED BY <1>4, <2>2, <3>1, <3>2, <3>3, <3>4, GroupShape DEF GroupNext
  <2> QED BY <1>2, <2>1, <2>2 DEF Collecting
<1> QED BY <1>3, <1>4 DEF Next

-----------------------------------------------------------------------------
(***************************************************************************)
(* The bytes reserved for the sets.                                        *)
(***************************************************************************)

Orphans == {p \in pend : p.owner = None}

Budgeted ==
    /\ refs.used + Reserved <= Budget
    /\ refs.junk = Cardinality(Orphans)

\* So many bytes and so many pending sets are within the budget.
Room(used, n) == used + SetBytes * n <= Budget

\* What fits, fits with less; a pending set makes room for a complete one.
LEMMA Rooms ==
    ASSUME NEW used \in Nat, NEW n \in Nat, Room(used, n)
    PROVE  /\ \A u \in Nat : u <= used => Room(u, n)
           /\ n > 0 => \A u \in Nat : u <= used + SetBytes => Room(u, n - 1)
<1> DEFINE all == SetBytes * n
           less == SetBytes * (n - 1)
<1>1. SetBytes \in Nat /\ Budget \in Nat
    BY CacheAssumption
<1>2. all \in Nat /\ (n > 0 => less \in Nat /\ all = less + SetBytes)
    BY <1>1
<1>3. used + all <= Budget
    BY DEF Room
<1> HIDE DEF all, less
<1>4. \A u \in Nat : u <= used => u + all <= Budget
    BY <1>1, <1>2, <1>3
<1>5. n > 0 => \A u \in Nat : u <= used + SetBytes => u + less <= Budget
    BY <1>1, <1>2, <1>3
<1> QED BY <1>4, <1>5 DEF Room, all, less

\* The test before a reservation.
LEMMA RoomForOne ==
    ASSUME NEW used \in Nat, NEW n \in Nat, used + SetBytes * n + SetBytes <= Budget
    PROVE  Room(used, n + 1)
<1> DEFINE all == SetBytes * n
<1>1. SetBytes \in Nat /\ Budget \in Nat
    BY CacheAssumption
<1>2. all \in Nat /\ SetBytes * (n + 1) = all + SetBytes
    BY <1>1
<1> QED BY <1>1, <1>2 DEF Room

\* One ticket in the place of another.
LEMMA Replaced ==
    ASSUME NEW S, IsFiniteSet(S), NEW p \in S, NEW x, x \notin S \ {p}
    PROVE  /\ IsFiniteSet(S \ {p}) /\ Cardinality(S \ {p}) = Cardinality(S) - 1
           /\ Cardinality(S) \in Nat /\ Cardinality(S) > 0
           /\ Cardinality((S \ {p}) \cup {x}) = Cardinality(S)
<1>1. /\ IsFiniteSet(S \ {p}) /\ Cardinality(S \ {p}) = Cardinality(S) - 1
      /\ Cardinality(S) \in Nat /\ Cardinality(S \ {p}) \in Nat
    BY FS_RemoveElement, FS_CardinalityType
<1>2. Cardinality((S \ {p}) \cup {x}) = Cardinality(S \ {p}) + 1
    BY <1>1, FS_AddElement
<1> QED BY <1>1, <1>2

\* A query has one ticket at most.
LEMMA OneTicket ==
    ASSUME Typed, Ticketed, NEW t \in Callers, NEW p \in Ticket(t)
    PROVE  /\ Ticket(t) = {p} /\ p \in pend /\ p.owner = t /\ t # None
           /\ \A x \in pend \ {p} : x.key # p.key
<1>1. p \in pend /\ p.owner = t /\ t # None
    BY NoneAssumption DEF Ticket
<1>2. \A x \in pend : x.key = p.key \/ x.owner = t => x = p
    BY <1>1 DEF Ticketed
<1> QED BY <1>1, <1>2 DEF Ticket

\* Steps that add no bytes and no tickets.
LEMMA BudgetedQuiet ==
    ASSUME Typed, Budgeted, Typed', refs'.used <= refs.used, refs'.junk = refs.junk, pend' = pend
    PROVE  Budgeted'
<1>1. refs.used \in Nat /\ refs'.used \in Nat /\ Cardinality(pend) \in Nat
    BY FS_CardinalityType DEF Typed, Counts
<1>2. Room(refs.used, Cardinality(pend))
    BY DEF Budgeted, Reserved, Room
<1>3. Room(refs'.used, Cardinality(pend))
    BY <1>1, <1>2, Rooms
<1>4. refs'.used + SetBytes * Cardinality(pend') <= Budget
    BY <1>3 DEF Room
<1> QED BY <1>4 DEF Budgeted, Reserved, Orphans

\* An answer changes a ticket, not their number.
LEMMA BudgetedAnswers ==
    ASSUME Typed, Ticketed, Budgeted, Typed', NEW t \in Callers, NEW via, NEW spooled,
           Answers(t, via, spooled)
    PROVE  Budgeted'
<1> DEFINE r == [call[t].result EXCEPT !.via = via]
           with(p) == [p EXCEPT !.set = IF spooled THEN r ELSE None]
<1>1. /\ pend' = (pend \ Ticket(t)) \cup {with(p) : p \in Ticket(t)}
      /\ refs' = refs
    BY DEF Answers, Answered
<1>2. \A p \in pend : with(p).owner = p.owner /\ with(p).key = p.key
    BY DEF Typed, TicketType
<1> HIDE DEF with, r
<1>3. CASE Ticket(t) = {}
  <2>1. pend' = pend
      BY <1>1, <1>3
  <2>2. refs'.used <= refs.used
      BY <1>1 DEF Typed, Counts
  <2> QED BY <1>1, <2>1, <2>2, BudgetedQuiet
<1>4. ASSUME NEW p \in Ticket(t) PROVE Budgeted'
  <2>1. /\ Ticket(t) = {p} /\ p \in pend /\ p.owner = t /\ t # None
        /\ \A x \in pend \ {p} : x.key # p.key
      BY <1>4, OneTicket
  <2>2. pend' = (pend \ {p}) \cup {with(p)} /\ with(p).owner = t /\ with(p) \notin pend \ {p}
      BY <1>1, <1>2, <2>1
  <2>3. Cardinality(pend') = Cardinality(pend)
      BY <2>1, <2>2, Replaced DEF Typed
  <2>4. Orphans' = Orphans
      BY <2>1, <2>2 DEF Orphans
  <2> QED BY <1>1, <2>3, <2>4 DEF Budgeted, Reserved
<1> QED BY <1>3, <1>4

\* A complete set replaces its reservation; a directory that stays keeps it.
LEMMA BudgetedFinish ==
    ASSUME Typed, AllPlaced, Ticketed, Budgeted, Typed', NEW t \in Callers, Finish(t)
    PROVE  Budgeted'
<1>1. /\ refs.used \in Nat /\ refs'.used \in Nat /\ Cardinality(pend) \in Nat /\ SetBytes \in Nat
      /\ refs \in [id : MaySign, list : Seq(SetType), used : Nat, junk : Nat]
    BY FS_CardinalityType, CacheAssumption DEF Typed, Counts
<1>2. Room(refs.used, Cardinality(pend))
    BY DEF Budgeted, Reserved, Room
<1>3. CASE refs' = refs /\ pend' = pend
    BY <1>1, <1>3, BudgetedQuiet
<1>4. ASSUME NEW p \in Ticket(t), refs'.used <= refs.used + SetBytes, refs'.junk = refs.junk,
             pend' = pend \ {p}
      PROVE  Budgeted'
  <2>1. p \in pend /\ p.owner # None
      BY <1>4, OneTicket
  <2>2. Cardinality(pend') = Cardinality(pend) - 1 /\ Cardinality(pend) > 0
    <3>1. IsFiniteSet(pend) /\ p \notin pend \ {p}
        BY DEF Typed
    <3> QED BY <1>4, <2>1, <3>1, Replaced
  <2>3. Room(refs'.used, Cardinality(pend'))
      BY <1>1, <1>2, <1>4, <2>2, Rooms
  <2>4. Orphans' = Orphans
      BY <1>4, <2>1 DEF Orphans
  <2> QED BY <1>4, <2>3, <2>4 DEF Budgeted, Reserved, Room
<1>5. ASSUME NEW p \in Ticket(t), refs' = [refs EXCEPT !.junk = @ + 1],
             pend' = (pend \ {p}) \cup {Orphan(p)}
      PROVE  Budgeted'
  <2>1. /\ p \in pend /\ p.owner # None /\ p \in TicketType
        /\ \A x \in pend \ {p} : x.key # p.key
      BY <1>5, OneTicket DEF Typed
  <2>2. Orphan(p).owner = None /\ Orphan(p).key = p.key
      BY <2>1 DEF Orphan, TicketType
  <2>3. Orphan(p) \notin pend
      BY <2>1, <2>2
  <2>4. Cardinality(pend') = Cardinality(pend)
    <3>1. IsFiniteSet(pend) /\ Orphan(p) \notin pend \ {p}
        BY <2>3 DEF Typed
    <3> QED BY <1>5, <2>1, <3>1, Replaced
  <2>5. Orphans' = Orphans \cup {Orphan(p)} /\ Orphan(p) \notin Orphans
      BY <1>5, <2>1, <2>2, <2>3 DEF Orphans
  <2>6. Cardinality(Orphans') = Cardinality(Orphans) + 1
    <3>1. IsFiniteSet(Orphans)
        BY FS_Subset DEF Orphans, Typed
    <3> QED BY <2>5, <3>1, FS_AddElement
  <2>7. refs'.used = refs.used /\ refs'.junk = refs.junk + 1
      BY <1>1, <1>5
  <2> QED BY <2>4, <2>6, <2>7 DEF Budgeted, Reserved
<1>6. CASE \E p \in Ticket(t), n \in 1..SetBytes :
                /\ refs' = [refs EXCEPT !.list = Append(@, Entered(p, n)), !.used = @ + n]
                /\ pend' = pend \ {p}
  <2>1. PICK p \in Ticket(t), n \in 1..SetBytes :
                /\ refs' = [refs EXCEPT !.list = Append(@, Entered(p, n)), !.used = @ + n]
                /\ pend' = pend \ {p}
      BY <1>6
  <2>2. refs'.used = refs.used + n /\ refs'.junk = refs.junk
      BY <1>1, <2>1
  <2> QED BY <1>1, <1>4, <2>1, <2>2
<1>7. ASSUME NEW p \in Ticket(t), refs' = refs, pend' = pend \ {p} PROVE Budgeted'
    BY <1>1, <1>4, <1>7
<1> QED BY <1>3, <1>5, <1>6, <1>7, FinishDoes

\* The budget of the sets is never exceeded.
LEMMA BudgetedKept ==
    ASSUME Typed, AllPlaced, Ticketed, Budgeted, Next
    PROVE  Budgeted'
<1>1. Typed'
    BY TypedKept
<1>2. CASE refs' = refs /\ pend' = pend
  <2>1. refs'.used <= refs.used
      BY <1>2 DEF Typed, Counts
  <2> QED BY <1>1, <1>2, <2>1, BudgetedQuiet
<1>3. ASSUME NEW t \in Callers, Step(t) PROVE Budgeted'
  <2>1. CASE \/ \E q \in Queries : PageHit(t, q) \/ PageMiss(t, q) \/ Start(t, q)
             \/ StartBuild(t) \/ Put(t) \/ NoSets(t) \/ Run(t) \/ Fail(t)
             \/ Chunk(t) \/ More(t) \/ Grouped(t) \/ Return(t)
      BY <1>2, <2>1 DEF PageHit, PageMiss, Start, StartBuild, Put, NoSets, Run, Fail,
                        Chunk, More, Grouped, Return
  <2>2. CASE ReadOpen(t)
      BY <1>1, <2>2, ReadOpenDoes, BudgetedQuiet
  <2>3. CASE ReadEnd(t)
    <3>1. PICK i \in DOMAIN refs.list : refs' = [refs EXCEPT !.list = Append(RemoveAt(@, i), @[i])]
        BY <2>3 DEF ReadEnd, Entry
    <3>2. refs'.used = refs.used /\ refs'.junk = refs.junk /\ refs.used \in Nat /\ pend' = pend
        BY <2>3, <3>1, RefsMoved DEF Typed, Counts, ReadEnd
    <3> QED BY <1>1, <3>2, BudgetedQuiet
  <2>4. CASE ReadFails(t)
    <3>1. pend' = pend
        BY <2>4 DEF ReadFails
    <3>2. ASSUME NEW i \in DOMAIN refs.list,
                 refs' = [refs EXCEPT !.list = RemoveAt(@, i), !.used = @ - refs.list[i].size]
          PROVE  Budgeted'
        BY <1>1, <3>1, <3>2, RefsRemoved, BudgetedQuiet DEF Typed
    <3>3. \/ refs' = refs
          \/ \E i \in DOMAIN refs.list :
                refs' = [refs EXCEPT !.list = RemoveAt(@, i), !.used = @ - refs.list[i].size]
        BY <2>4 DEF ReadFails, Entry
    <3> QED BY <1>2, <3>1, <3>2, <3>3
  <2>5. CASE Begin(t)
    <3>1. PICK p : /\ p = [key |-> <<Query(t), now>>, owner |-> t, set |-> None]
                   /\ refs'.used <= refs.used /\ refs'.junk = refs.junk
                   /\ \/ pend' = pend
                      \/ /\ pend' = pend \cup {p} /\ ~Full(refs'.used)
                         /\ \A x \in pend : x.key # p.key
        BY <2>5, BeginDoes
    <3>2. CASE pend' = pend
        BY <1>1, <3>1, <3>2, BudgetedQuiet
    <3>3. CASE pend' = pend \cup {p} /\ ~Full(refs'.used) /\ \A x \in pend : x.key # p.key
      <4>1. p \notin pend /\ p.owner # None
          BY <3>1, <3>3, NoneAssumption
      <4>2. Cardinality(pend') = Cardinality(pend) + 1 /\ Cardinality(pend) \in Nat
          BY <3>3, <4>1, FS_AddElement, FS_CardinalityType DEF Typed
      <4>3. refs'.used \in Nat
          BY <1>1 DEF Typed, Counts
      <4>4. refs'.used + SetBytes * Cardinality(pend) + SetBytes <= Budget
        <5>1. SetBytes * Cardinality(pend) \in Nat /\ SetBytes \in Nat /\ Budget \in Nat
            BY <4>2, CacheAssumption
        <5> QED BY <3>3, <4>3, <5>1 DEF Full, Reserved
      <4>5. Room(refs'.used, Cardinality(pend'))
          BY <4>2, <4>3, <4>4, RoomForOne
      <4>6. Orphans' = Orphans
          BY <3>3, <4>1 DEF Orphans
      <4> QED BY <3>1, <4>5, <4>6 DEF Budgeted, Reserved, Room
    <3> QED BY <3>1, <3>2, <3>3
  <2>6. CASE AnswerReference(t)
      BY <1>1, <2>6, AnswerReferenceDoes, BudgetedAnswers
  <2>7. CASE AnswerGraph(t)
      BY <1>1, <2>7, AnswerGraphDoes, BudgetedAnswers
  <2>8. CASE AnswerBuild(t) \/ Install(t)
      BY <1>1, <1>2, <2>8, AnswerBuildDoes, BudgetedAnswers
  <2>9. CASE Finish(t)
      BY <1>1, <2>9, BudgetedFinish
  <2> QED BY <1>3, <2>1, <2>2, <2>3, <2>4, <2>5, <2>6, <2>7, <2>8, <2>9 DEF Step
<1>4. CASE Upgrade
    BY <1>2, <1>4 DEF Upgrade
<1> QED BY <1>3, <1>4 DEF Next

-----------------------------------------------------------------------------

\* The inductive invariant.
IInv ==
    /\ Typed /\ AllPlaced /\ Named /\ Known /\ Exclusive /\ Ticketed
    /\ SetsTrue /\ WorkTrue /\ CallsHeld /\ AnswersTrue /\ Relabelled /\ PagesTrue
    /\ HitsTrue /\ Collecting /\ Budgeted

\* At first there is nothing in the caches and nobody inside.
LEMMA IInvInit ==
    ASSUME Init
    PROVE  IInv
<1>1. \A t \in Callers : call[t] = Idle
    BY DEF Init
<1>2. now = [engine |-> 0, xrefs |-> 0, calls |-> 0] /\ events = 0 /\ pend = {}
    BY DEF Init
<1>3. /\ pages = [id |-> None, list |-> <<>>, used |-> 0]
      /\ refs = [id |-> None, list |-> <<>>, used |-> 0, junk |-> 0]
    BY DEF Init
<1>4. ToSet(pages.list) = {} /\ ToSet(refs.list) = {}
    BY <1>3 DEF ToSet
<1>5. Typed
  <2>1. Idle \in CallType
      BY DEF Idle, CallType, Places, MaySign
  <2>2. call \in [Callers -> CallType]
      BY <2>1 DEF Init
  <2>3. MaxEvents \in Nat /\ Pages \in Nat /\ PageBytes \in Nat
      BY CacheAssumption
  <2>4. Size(<<>>) = 0 /\ Len(<<>>) = 0 /\ DOMAIN <<>> = {}
      BY SizeEmpty, EmptySeq
  <2>5. Fits(pages)
      BY <1>3, <2>3, <2>4 DEF Fits, MaySign, Distinct
  <2>6. Counts(refs)
      BY <1>3, <2>4 DEF Counts, MaySign
  <2>7. now \in Signature /\ events \in 0..MaxEvents
      BY <1>2, <2>3 DEF Signature
  <2> QED BY <1>2, <2>2, <2>5, <2>6, <2>7, FS_EmptySet DEF Typed
<1>6. AllPlaced
    BY <1>1 DEF AllPlaced, Placed, Query, Idle
<1>7. Known
    BY <1>1, <1>2, <1>3, <1>4 DEF Known, Past, Idle
<1>8. Named /\ Ticketed /\ SetsTrue /\ PagesTrue
    BY <1>2, <1>3, <1>4 DEF Named, Ticketed, SetsTrue, PagesTrue
<1>9. Exclusive /\ Relabelled
    BY <1>1 DEF Exclusive, Relabelled, Inside, Idle
<1>10. WorkTrue /\ CallsHeld /\ AnswersTrue
    BY <1>1, <1>2 DEF WorkTrue, CallsHeld, AnswersTrue, Idle
<1>11. HitsTrue /\ Collecting
    BY <1>1 DEF HitsTrue, Collecting, Idle
<1>12. Budgeted
  <2>1. Cardinality(pend) = 0 /\ Cardinality(Orphans) = 0
      BY <1>2, FS_EmptySet DEF Orphans
  <2> QED BY <1>3, <2>1, CacheAssumption DEF Budgeted, Reserved
<1> QED BY <1>5, <1>6, <1>7, <1>8, <1>9, <1>10, <1>11, <1>12 DEF IInv

\* Each part from the parts named in its lemma.
LEMMA IInvStep ==
    ASSUME IInv, [Next]_vars
    PROVE  IInv'
<1>1. CASE Next
  <2>1. Typed' /\ AllPlaced' /\ Named' /\ Known' /\ Exclusive' /\ Ticketed'
      BY <1>1, TypedKept, PlacedKept, NamedKept, KnownKept, ExclusiveKept, TicketedKept DEF IInv
  <2>2. SetsTrue' /\ WorkTrue' /\ CallsHeld' /\ AnswersTrue' /\ Relabelled' /\ PagesTrue'
      BY <1>1, SetsTrueKept, WorkTrueKept, CallsHeldKept, AnswersTrueKept, RelabelledKept,
         PagesTrueKept DEF IInv
  <2>3. HitsTrue' /\ Collecting' /\ Budgeted'
      BY <1>1, HitsTrueKept, CollectingKept, BudgetedKept DEF IInv
  <2> QED BY <2>1, <2>2, <2>3 DEF IInv
<1>2. CASE UNCHANGED vars
  <2> USE <1>2 DEF vars
  <2>1. Typed' /\ AllPlaced' /\ Named' /\ Known' /\ Exclusive' /\ Ticketed'
      BY DEF IInv, Typed, Fits, Counts, AllPlaced, Placed, Query, Named, Known, Past,
             Exclusive, Inside, Ticketed, Held
  <2>2. SetsTrue' /\ WorkTrue' /\ CallsHeld' /\ AnswersTrue' /\ Relabelled' /\ PagesTrue'
      BY DEF IInv, SetsTrue, WorkTrue, CallsHeld, AnswersTrue, Late, Relabelled, PagesTrue,
             Truthful, Over, Query, Inside
  <2>3. HitsTrue' /\ Collecting' /\ Budgeted'
      BY DEF IInv, HitsTrue, Collecting, CollectedBy, Same, Budgeted, Reserved, Orphans, Query
  <2> QED BY <2>1, <2>2, <2>3 DEF IInv
<1> QED BY <1>1, <1>2

\* Every reachable state satisfies the invariant.
THEOREM CachesInvariant == Spec => []IInv
BY IInvInit, IInvStep, PTL DEF Spec

\* Every variable has its type, and the counters of both caches are the sums of
\* their entries (memory_cache.used, reference_cache.used).
THEOREM CacheTypes == Spec => []TypeOK
<1>1. ASSUME IInv PROVE TypeOK
  <2>1. Typed
      BY <1>1 DEF IInv
  <2>2. \A E : \A list \in Seq(E) : ToSet(list) \subseteq E
      BY ElementOfSeq, LenProperties DEF ToSet
  <2>3. ToSet(pages.list) \subseteq PageType /\ ToSet(refs.list) \subseteq SetType
      BY <2>1, <2>2 DEF Typed, Fits, Counts
  <2>4. \A e \in ToSet(pages.list) : e.result \in Result /\ e.size \in 1..PageBytes
      BY <2>3 DEF PageType
  <2>5. \A e \in ToSet(refs.list) : e.key \in Queries \X Signature /\ e.size \in 0..SetBytes
      BY <2>3, CacheAssumption DEF SetType, Queries
  <2>6. \A p \in pend : /\ p.key \in Selected \X Signature
                        /\ p.owner \in Callers \cup {None} /\ p.set \in Result \cup {None}
      BY <2>1 DEF Typed, TicketType
  <2>7. \A t \in Callers : /\ call[t].pc \in Places /\ call[t].query \in Queries \cup {None}
                           /\ {call[t].id, call[t].at} \subseteq MaySign
                           /\ call[t].result \in Result \cup {None}
      BY <2>1 DEF Typed, CallType
  <2> QED BY <2>1, <2>4, <2>5, <2>6, <2>7 DEF Typed, Fits, Counts, TypeOK
<1> QED BY <1>1, CachesInvariant, PTL

\* Whatever PageCache or ReferenceCache answers is what a worker could have
\* given for the files as they were when the cache was asked, however queries,
\* builds, restores and upgrades interleave.
THEOREM HitsAreCurrent == Spec => []HitsCurrent
<1>1. ASSUME IInv PROVE HitsCurrent
    BY <1>1 DEF IInv, HitsTrue, HitsCurrent
<1> QED BY <1>1, CachesInvariant, PTL

\* Complete sets, pending ones and directories that could not be removed stay
\* within the bytes of the session, pages within theirs and their number.
THEOREM CachesStayBounded == Spec => []CachesBounded
<1>1. ASSUME IInv PROVE CachesBounded
  <2> DEFINE pending == {p \in pend : p.owner # None}
  <2>1. Fits(pages) /\ Counts(refs) /\ IsFiniteSet(pend) /\ Budgeted
      BY <1>1 DEF IInv, Typed
  <2>2. Cardinality(pend) = Cardinality(pending) + Cardinality(Orphans)
    <3>1. pending \cap Orphans = {} /\ pending \cup Orphans = pend
        BY DEF Orphans
    <3>2. IsFiniteSet(pending) /\ IsFiniteSet(Orphans)
        BY <2>1, FS_Subset DEF Orphans
    <3>3. /\ Cardinality(pending) \in Nat /\ Cardinality(Orphans) \in Nat
          /\ Cardinality(pending \cap Orphans) = 0
        BY <3>1, <3>2, FS_CardinalityType, FS_EmptySet
    <3> HIDE DEF pending
    <3>4. Cardinality(pending \cup Orphans) =
            Cardinality(pending) + Cardinality(Orphans) - Cardinality(pending \cap Orphans)
        BY <3>2, FS_Union
    <3>5. Cardinality(pend) = Cardinality(pending) + Cardinality(Orphans) - 0
        BY <3>1, <3>3, <3>4
    <3> QED BY <3>3, <3>5
  <2>3. Size(refs.list) + SetBytes * (Cardinality(pending) + refs.junk) <= Budget
      BY <2>1, <2>2 DEF Counts, Budgeted, Reserved
  <2>4. /\ Size(pages.list) <= PageBytes /\ Len(pages.list) <= Pages
        /\ \A i, j \in DOMAIN pages.list :
            i # j => pages.list[i].result.query # pages.list[j].result.query
      BY <2>1 DEF Fits, Distinct
  <2> QED BY <2>3, <2>4 DEF CachesBounded
<1> QED BY <1>1, CachesInvariant, PTL

\* A grouped page is returned only if all flat pages it was collected from
\* answer one query, by the engine of its start, from one kind of source.
THEOREM GroupedPagesConsistent == Spec => []GroupedConsistent
<1>1. ASSUME IInv PROVE GroupedConsistent
  <2>1. ASSUME NEW t \in Callers, At(t, "done"), call[t].grouped, ~call[t].changed
        PROVE  /\ \A r \in call[t].seen : r.query = Query(t) /\ r.engine = call[t].start
               /\ Cardinality(Metadata(t)) = 1
    <3>1. CollectedBy(t) /\ call[t].pc = "done"
        BY <1>1, <2>1 DEF IInv, Collecting, At
    <3>2. \A r \in call[t].seen : r.query = Query(t) /\ r.engine = call[t].start
        BY <2>1, <3>1 DEF CollectedBy, Same
    <3>3. PICK r \in call[t].seen : \A s \in call[t].seen : s.via = r.via
        BY <2>1, <3>1 DEF CollectedBy
    <3>4. Metadata(t) = {r.via}
        BY <3>3 DEF Metadata
    <3> QED BY <3>2, <3>4, FS_Singleton
  <2> QED BY <2>1 DEF GroupedConsistent
<1> QED BY <1>1, CachesInvariant, PTL
===============================================================================
