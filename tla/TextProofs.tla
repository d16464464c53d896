------------------------------ MODULE TextProofs ------------------------------
(***************************************************************************)
(* Proofs about the text buffer and its view.  The lists of TextBuffer are *)
(* folds and sorted sets, so the first sections say what those are: the    *)
(* steps of a fold, by induction over a set of numbers, and the order of   *)
(* Sorted.  On them rest the types of the buffer, the columns a range of   *)
(* them is highlighted on, the runs a line is coloured with, the virtual   *)
(* lines a text is cut into, the cells that are drawn and their keys, the  *)
(* selection a drag makes, and the columns styled text is put on.          *)
(***************************************************************************)
EXTENDS TextView, SequenceTheorems, FiniteSetTheorems, WellFoundedInduction, TLAPS

(***************************************************************************)
(* Numbers, folds and sorted sets.                                         *)
(***************************************************************************)
\* A set of natural numbers that has zero and, with each number, the next one
\* has them all: induction, said of a set.
LEMMA Induction ==
    ASSUME NEW n \in Nat, NEW S, 0 \in S, \A k \in 1..n : k - 1 \in S => k \in S
    PROVE  \A k \in 0..n : k \in S
<1> DEFINE out == {k \in 0..n : k \notin S}
<1> SUFFICES ASSUME out # {} PROVE FALSE
  OBVIOUS
<1>1. PICK k \in out : \A j \in out : ~(j < k)
  <2>1. out \subseteq Nat
    OBVIOUS
  <2> HIDE DEF out
  <2>2. PICK k \in out : \A j \in out : ~(<<j, k>> \in OpToRel(<, Nat))
    BY <2>1, NatLessThanWellFounded, WFMin
  <2>3. QED BY <2>1, <2>2 DEF OpToRel
<1>2. k \in 1..n
  OBVIOUS
<1>3. k - 1 \in 0..n /\ k - 1 \notin out
  BY <1>1, <1>2
<1>4. QED BY <1>2, <1>3

LEMMA MaxOfInterval ==
    ASSUME NEW k \in Nat \ {0}
    PROVE  1..k # {} /\ Max(1..k) = k /\ (1..k) \ {k} = 1..(k - 1)
<1>1. 1..k # {} /\ (1..k) \ {k} = 1..(k - 1)
  OBVIOUS
<1>2. k \in 1..k /\ \A y \in 1..k : k >= y
  OBVIOUS
<1>3. \A x \in 1..k : (\A y \in 1..k : x >= y) => x = k
  OBVIOUS
<1>4. Max(1..k) = k
  BY <1>2, <1>3 DEF Max
<1>5. QED BY <1>1, <1>4

LEMMA MaxIs ==
    ASSUME NEW S \in SUBSET Int, NEW m \in S, \A y \in S : m >= y
    PROVE  Max(S) = m
<1>1. \A x \in S : (\A y \in S : x >= y) => x = m
  OBVIOUS
<1>2. QED BY <1>1 DEF Max

LEMMA MinIs ==
    ASSUME NEW S \in SUBSET Int, NEW m \in S, \A y \in S : m <= y
    PROVE  Min(S) = m
<1>1. \A x \in S : (\A y \in S : x <= y) => x = m
  OBVIOUS
<1>2. QED BY <1>1 DEF Min

LEMMA MaxIn ==
    ASSUME NEW n \in Nat, NEW S \in SUBSET (1..n), S # {}
    PROVE  Max(S) \in S /\ \A y \in S : Max(S) >= y
<1> DEFINE gap == {n - y : y \in S}
<1>1. gap \subseteq Nat /\ gap # {}
  <2>1. \A y \in S : n - y \in Nat
    OBVIOUS
  <2>2. QED BY <2>1
<1>2. PICK g \in gap : \A h \in gap : ~(h < g)
  <2> HIDE DEF gap
  <2>1. PICK g \in gap : \A h \in gap : ~(<<h, g>> \in OpToRel(<, Nat))
    BY <1>1, NatLessThanWellFounded, WFMin
  <2>2. QED BY <1>1, <2>1 DEF OpToRel
<1>3. PICK m \in S : g = n - m
  OBVIOUS
<1>4. \A y \in S : ~(n - y < n - m)
  BY <1>2, <1>3
<1>5. \A y \in S : m >= y
  BY <1>4
<1>6. QED BY <1>5 DEF Max

\* The function a fold over a sequence is computed with.
IsFold(it, n, base, step) ==
    it = [x \in SUBSET (1..n) |-> IF x = {} THEN base ELSE step[Max(x)][it[x \ {Max(x)}]]]

\* A fold over a sequence has such a function: what FoldLeft chooses exists.
LEMMA FoldExists ==
    ASSUME NEW n \in Nat, NEW A, NEW base \in A, NEW step \in [1..n -> [A -> A]]
    PROVE  \E it \in [SUBSET (1..n) -> A] : IsFold(it, n, base, step)
<1> DEFINE Is(k, it) == \A x \in SUBSET (1..k) :
             it[x] = IF x = {} THEN base ELSE step[Max(x)][it[x \ {Max(x)}]]
           S == {k \in 0..n : \E it \in [SUBSET (1..k) -> A] : Is(k, it)}
<1>1. 0 \in S
  <2> DEFINE it == [x \in SUBSET (1..0) |-> base]
  <2>1. it \in [SUBSET (1..0) -> A] /\ \A x \in SUBSET (1..0) : x = {} /\ it[x] = base
    OBVIOUS
  <2> HIDE DEF it
  <2>2. \E f \in [SUBSET (1..0) -> A] : Is(0, f)
    BY <2>1
  <2>3. 0 \in 0..n
    OBVIOUS
  <2>4. QED BY <2>2, <2>3, Zenon
<1>2. ASSUME NEW k \in 1..n, k - 1 \in S PROVE k \in S
  <2>1. PICK it \in [SUBSET (1..(k - 1)) -> A] : Is(k - 1, it)
    BY <1>2
  <2> DEFINE next == [x \in SUBSET (1..k) |->
                        IF k \in x THEN step[k][it[x \ {k}]] ELSE it[x]]
  <2>2. \A x \in SUBSET (1..k) : x \ {k} \in SUBSET (1..(k - 1))
    BY <1>2
  <2>3. \A x \in SUBSET (1..k) : k \notin x => x \in SUBSET (1..(k - 1))
    BY <1>2
  <2>4. next \in [SUBSET (1..k) -> A]
    <3>1. SUFFICES ASSUME NEW x \in SUBSET (1..k)
                   PROVE  (IF k \in x THEN step[k][it[x \ {k}]] ELSE it[x]) \in A
      OBVIOUS
    <3>2. step[k] \in [A -> A]
      BY <1>2
    <3>3. QED BY <2>1, <2>2, <2>3, <3>2
  <2>5. ASSUME NEW x \in SUBSET (1..(k - 1)) PROVE x \in SUBSET (1..k) /\ next[x] = it[x]
    BY <1>2
  <2>6. ASSUME NEW x \in SUBSET (1..k)
        PROVE next[x] = IF x = {} THEN base ELSE step[Max(x)][next[x \ {Max(x)}]]
    <3>1. CASE k \in x
      <4>1. x \in SUBSET Int /\ \A y \in x : k >= y
        BY <1>2
      <4>2. Max(x) = k
        BY <3>1, <4>1, MaxIs, Zenon
      <4>3. next[x] = step[k][it[x \ {k}]]
        BY <3>1
      <4>4. next[x \ {k}] = it[x \ {k}]
        BY <2>2, <2>5, Zenon
      <4> HIDE DEF next
      <4>5. QED BY <3>1, <4>2, <4>3, <4>4, Zenon
    <3>2. CASE k \notin x
      <4>1. x \in SUBSET (1..(k - 1))
        BY <2>3, <3>2
      <4>2. next[x] = it[x]
        BY <2>5, <4>1, Zenon
      <4>3. x \ {Max(x)} \in SUBSET (1..(k - 1))
        BY <4>1
      <4>4. next[x \ {Max(x)}] = it[x \ {Max(x)}]
        BY <2>5, <4>3, Zenon
      <4> HIDE DEF next
      <4>5. QED BY <2>1, <4>1, <4>2, <4>4, Zenon
    <3>3. QED BY <3>1, <3>2
  <2> HIDE DEF next
  <2>7. \E f \in [SUBSET (1..k) -> A] : Is(k, f)
    BY <2>4, <2>6, Zenon
  <2>8. k \in 0..n
    BY <1>2
  <2>9. QED BY <2>7, <2>8, Zenon
<1>3. n \in S
  <2> HIDE DEF S
  <2>1. n \in 0..n
    OBVIOUS
  <2>2. QED BY <1>1, <1>2, <2>1, Induction, Zenon
<1>4. PICK it \in [SUBSET (1..n) -> A] : Is(n, it)
  BY <1>3
<1>5. IsFold(it, n, base, step)
  BY <1>4, Zenon DEF IsFold
<1>6. QED BY <1>5, Zenon

\* The elements of a finite set of numbers in order.
LEMMA SortedSet ==
    ASSUME NEW idx \in SUBSET Nat, IsFiniteSet(idx)
    PROVE  /\ Cardinality(idx) \in Nat
           /\ Sorted(idx) \in [1..Cardinality(idx) -> idx]
           /\ \A i, j \in 1..Cardinality(idx) : i < j => Sorted(idx)[i] < Sorted(idx)[j]
           /\ \A k \in idx : \E i \in 1..Cardinality(idx) : Sorted(idx)[i] = k
<1> DEFINE n == Cardinality(idx)
           upTo(k) == {j \in idx : j <= k}
           rank == [k \in idx |-> Cardinality(upTo(k))]
<1>1. n \in Nat
  BY FS_CardinalityType
<1>2. \A k \in idx : IsFiniteSet(upTo(k)) /\ Cardinality(upTo(k)) <= n
  BY FS_Subset
<1>3. ASSUME NEW k \in idx PROVE rank[k] \in 1..n
  <2>1. Cardinality(upTo(k)) \in Nat
    BY <1>2, FS_CardinalityType
  <2>2. upTo(k) # {}
    BY <1>3
  <2> HIDE DEF upTo
  <2>3. Cardinality(upTo(k)) # 0
    BY <1>2, <2>2, FS_EmptySet
  <2>4. QED BY <1>1, <1>2, <2>1, <2>3
<1>4. ASSUME NEW k \in idx, NEW l \in idx, k < l PROVE rank[k] < rank[l]
  <2>1. upTo(k) \in SUBSET upTo(l)
    <3>1. \A j \in idx : j \in Nat
      OBVIOUS
    <3>2. \A j \in idx : j <= k => j <= l
      BY <1>4, <3>1
    <3>3. QED BY <3>2
  <2>2. l \in upTo(l) /\ l \notin upTo(k)
    BY <1>4
  <2> HIDE DEF upTo
  <2>3. /\ Cardinality(upTo(k)) <= Cardinality(upTo(l))
        /\ Cardinality(upTo(l)) # Cardinality(upTo(k))
    BY <1>2, <2>1, <2>2, FS_Subset
  <2>4. rank[k] \in 1..n /\ rank[l] \in 1..n
    BY <1>3
  <2>5. QED BY <1>1, <2>3, <2>4
<1>5. rank \in Surjection(idx, 1..n)
  <2>1. rank \in [idx -> 1..n]
    BY <1>3
  <2>2. \A k, l \in idx : rank[k] = rank[l] => k = l
    <3>1. SUFFICES ASSUME NEW k \in idx, NEW l \in idx, rank[k] = rank[l], k # l PROVE FALSE
      OBVIOUS
    <3>2. k < l \/ l < k
      BY <3>1
    <3>3. rank[k] < rank[l] \/ rank[l] < rank[k]
      BY <1>4, <3>2
    <3>4. rank[k] \in 1..n /\ rank[l] \in 1..n
      BY <1>3
    <3>5. QED BY <1>1, <3>1, <3>3, <3>4
  <2> HIDE DEF rank
  <2>3. rank \in Injection(idx, 1..n)
    BY <2>1, <2>2 DEF Injection, IsInjective
  <2>4. IsFiniteSet(1..n) /\ Cardinality(1..n) = n
    <3>1. 1 \in Int /\ n \in Int
      BY <1>1
    <3>2. IsFiniteSet(1..n) /\ Cardinality(1..n) = IF 1 > n THEN 0 ELSE n - 1 + 1
      BY <3>1, FS_Interval, Zenon
    <3>3. QED BY <1>1, <3>2
  <2>5. QED BY <2>3, <2>4, FS_Injection
<1>6. \A i \in 1..n : \E k \in idx : rank[k] = i
  <2> HIDE DEF rank
  <2>1. QED BY <1>5 DEF Surjection
<1>7. \A i \in 1..n : Sorted(idx)[i] \in idx /\ rank[Sorted(idx)[i]] = i
  BY <1>6 DEF Sorted
<1>8. Sorted(idx) \in [1..n -> idx]
  BY <1>7 DEF Sorted
<1>9. ASSUME NEW i \in 1..n, NEW j \in 1..n, i < j PROVE Sorted(idx)[i] < Sorted(idx)[j]
  <2> DEFINE a == Sorted(idx)[i]
             b == Sorted(idx)[j]
  <2>1. a \in idx /\ b \in idx /\ rank[a] = i /\ rank[b] = j
    BY <1>7
  <2> HIDE DEF a, b, rank
  <2>2. ~(b < a) /\ b # a
    BY <1>1, <1>4, <1>9, <2>1
  <2>3. a < b
    BY <2>1, <2>2
  <2>4. QED BY <2>3 DEF a, b
<1>10. ASSUME NEW k \in idx PROVE \E i \in 1..n : Sorted(idx)[i] = k
  <2> DEFINE a == Sorted(idx)[rank[k]]
  <2>1. rank[k] \in 1..n
    BY <1>3
  <2>2. a \in idx /\ rank[a] = rank[k]
    BY <1>7, <2>1
  <2>3. a = k
    <3> HIDE DEF a, rank
    <3>1. a < k => rank[a] < rank[k]
      BY <1>4, <2>2
    <3>2. k < a => rank[k] < rank[a]
      BY <1>4, <2>2
    <3>3. QED BY <1>1, <2>1, <2>2, <3>1, <3>2
  <2>4. QED BY <2>1, <2>3
<1> HIDE DEF n
<1>11. QED BY <1>1, <1>8, <1>9, <1>10 DEF n

LEMMA FunctionIsSeq ==
    ASSUME NEW S, NEW n \in Nat, NEW f \in [1..n -> S]
    PROVE  f \in Seq(S) /\ Len(f) = n /\ DOMAIN f = 1..n
OBVIOUS

\* The values a fold goes through, and what it comes to.
IsTrace(acc, n, A, base, step, end) ==
    /\ acc \in [0..n -> A]
    /\ acc[0] = base
    /\ acc[n] = end
    /\ \A k \in 1..n : acc[k] = step[k][acc[k - 1]]

Computes(it, n, A, base, step) ==
    /\ it[{}] = base
    /\ \A k \in 1..n : it[1..(k - 1)] \in A => it[1..k] = step[k][it[1..(k - 1)]]

LEMMA FoldTrace ==
    ASSUME NEW n \in Nat, NEW A, NEW base \in A, NEW step \in [1..n -> [A -> A]], NEW it,
           Computes(it, n, A, base, step)
    PROVE  \E acc : IsTrace(acc, n, A, base, step, it[1..n])
<1> USE DEF Computes
<1> DEFINE acc == [k \in 0..n |-> it[1..k]]
           S == {k \in 0..n : acc[k] \in A}
<1>1. acc[0] = base
  OBVIOUS
<1>2. \A k \in 1..n : acc[k - 1] \in A => acc[k] = step[k][acc[k - 1]]
  <2>1. \A k \in 1..n : acc[k] = it[1..k] /\ acc[k - 1] = it[1..(k - 1)]
    OBVIOUS
  <2> HIDE DEF acc
  <2>2. QED BY <2>1
<1>3. acc[n] = it[1..n] /\ acc = [k \in 0..n |-> acc[k]]
  OBVIOUS
<1> HIDE DEF acc
<1>4. \A k \in 0..n : k \in S
  <2>1. 0 \in S
    BY <1>1
  <2>2. ASSUME NEW k \in 1..n, k - 1 \in S PROVE k \in S
    BY <1>2, <2>2
  <2> HIDE DEF S
  <2>3. QED BY <2>1, <2>2, Induction, Zenon
<1>5. acc \in [0..n -> A]
  BY <1>3, <1>4
<1>6. IsTrace(acc, n, A, base, step, it[1..n])
  <2>1. \A k \in 1..n : acc[k - 1] \in A
    BY <1>5
  <2>2. QED BY <1>1, <1>2, <1>3, <1>5, <2>1 DEF IsTrace
<1>7. QED BY <1>6

\* Two folds that begin alike go through the same values.
Alike(acc, other, m) ==
    /\ acc[0] = other[0]
    /\ \A k \in 1..m : acc[k - 1] = other[k - 1] => acc[k] = other[k]

LEMMA TracesAgree ==
    ASSUME NEW m \in Nat, NEW acc, NEW other, Alike(acc, other, m)
    PROVE  \A k \in 0..m : acc[k] = other[k]
<1> DEFINE S == {k \in 0..m : acc[k] = other[k]}
<1>1. 0 \in S
  BY DEF Alike
<1>2. \A k \in 1..m : k - 1 \in S => k \in S
  BY DEF Alike
<1> HIDE DEF S
<1>3. \A k \in 0..m : k \in S
  BY <1>1, <1>2, Induction, Zenon
<1>4. QED BY <1>3 DEF S

(***************************************************************************)
(* Sums.                                                                   *)
(***************************************************************************)
LEMMA SumIsFold ==
    ASSUME NEW n \in Nat, NEW s \in [1..n -> Nat]
    PROVE  \E acc :
             /\ acc \in [0..n -> Nat]
             /\ acc[0] = 0
             /\ \A k \in 1..n : acc[k] = acc[k - 1] + s[k]
             /\ Sum(s) = acc[n]
<1> DEFINE Is(it) == it = [x \in SUBSET (DOMAIN s) |->
                             IF x = {} THEN 0 ELSE LET y == Max(x) IN it[x \ {y}] + s[y]]
           it == CHOOSE it : Is(it)
           step == [k \in 1..n |-> [a \in Nat |-> a + s[k]]]
<1>1. DOMAIN s = 1..n
  OBVIOUS
<1>2. Sum(s) = it[1..n]
  BY <1>1 DEF Sum, FoldLeft, MapThenFoldSet
<1>3. step \in [1..n -> [Nat -> Nat]] /\ 0 \in Nat
  OBVIOUS
<1>4. \A k \in 1..n, a \in Nat : step[k][a] = a + s[k]
  OBVIOUS
<1> HIDE DEF step
<1>5. \E f : Is(f)
  <2> HIDE DEF Is, it
  <2>1. PICK f \in [SUBSET (1..n) -> Nat] : IsFold(f, n, 0, step)
    BY <1>3, FoldExists
  <2>2. \A x \in SUBSET (1..n) : x # {} => Max(x) \in 1..n
    BY MaxIn
  <2>3. \A x \in SUBSET (1..n) :
          (IF x = {} THEN 0 ELSE step[Max(x)][f[x \ {Max(x)}]])
            = IF x = {} THEN 0 ELSE f[x \ {Max(x)}] + s[Max(x)]
    BY <1>4, <2>1, <2>2
  <2>4. f = [x \in SUBSET (1..n) |-> IF x = {} THEN 0 ELSE f[x \ {Max(x)}] + s[Max(x)]]
    BY <2>1, <2>3, ZenonT(30) DEF IsFold
  <2>5. QED BY <1>1, <2>4 DEF Is
<1>6. Is(it)
  BY <1>5
<1> HIDE DEF it
<1>7. it[{}] = 0
  BY <1>6
<1>8. \A k \in 1..n : it[1..(k - 1)] \in Nat => it[1..k] = step[k][it[1..(k - 1)]]
  <2>1. SUFFICES ASSUME NEW k \in 1..n, it[1..(k - 1)] \in Nat
                 PROVE  it[1..k] = step[k][it[1..(k - 1)]]
    OBVIOUS
  <2>2. 1..k \in SUBSET (DOMAIN s) /\ k \in Nat \ {0}
    OBVIOUS
  <2>3. it[1..k] = IF 1..k = {} THEN 0 ELSE it[(1..k) \ {Max(1..k)}] + s[Max(1..k)]
    BY <1>6, <2>2, Zenon
  <2>4. it[1..k] = it[1..(k - 1)] + s[k]
    BY <2>2, <2>3, MaxOfInterval, Zenon
  <2>5. QED BY <1>4, <2>1, <2>4
<1> HIDE DEF Is
<1>9. PICK acc : IsTrace(acc, n, Nat, 0, step, it[1..n])
  <2>1. Computes(it, n, Nat, 0, step)
    BY <1>7, <1>8 DEF Computes
  <2> DEFINE base == 0
  <2> HIDE DEF base
  <2>2. base \in Nat /\ Computes(it, n, Nat, base, step)
    BY <2>1 DEF base
  <2>3. \E acc : IsTrace(acc, n, Nat, base, step, it[1..n])
    BY <1>3, <2>2, FoldTrace
  <2>4. QED BY <2>3 DEF base
<1>10. \A k \in 1..n : acc[k] = acc[k - 1] + s[k]
  <2>1. \A k \in 1..n : acc[k - 1] \in Nat /\ acc[k] = step[k][acc[k - 1]]
    BY <1>9 DEF IsTrace
  <2>2. QED BY <1>4, <2>1
<1>11. QED BY <1>2, <1>9, <1>10 DEF IsTrace

\* The sum of some numbers is that of all but the last, and the last.
LEMMA SumLast ==
    ASSUME NEW n \in Nat \ {0}, NEW s \in [1..n -> Nat], NEW t \in [1..(n - 1) -> Nat],
           \A k \in 1..(n - 1) : t[k] = s[k]
    PROVE  Sum(s) = Sum(t) + s[n]
<1>1. PICK acc :
        /\ acc \in [0..n -> Nat]
        /\ acc[0] = 0
        /\ \A k \in 1..n : acc[k] = acc[k - 1] + s[k]
        /\ Sum(s) = acc[n]
  BY SumIsFold
<1>2. n - 1 \in Nat
  OBVIOUS
<1>3. PICK other :
        /\ other \in [0..(n - 1) -> Nat]
        /\ other[0] = 0
        /\ \A k \in 1..(n - 1) : other[k] = other[k - 1] + t[k]
        /\ Sum(t) = other[n - 1]
  BY <1>2, SumIsFold
<1>4. Alike(acc, other, n - 1)
  BY <1>1, <1>3 DEF Alike
<1>5. \A k \in 0..(n - 1) : acc[k] = other[k]
  <2> DEFINE m == n - 1
  <2> HIDE DEF m
  <2>1. m \in Nat /\ Alike(acc, other, m)
    BY <1>2, <1>4 DEF m
  <2>2. \A k \in 0..m : acc[k] = other[k]
    BY <2>1, TracesAgree
  <2>3. QED BY <2>2 DEF m
<1>6. acc[n] = acc[n - 1] + s[n]
  BY <1>1
<1>7. QED BY <1>1, <1>2, <1>3, <1>5, <1>6

LEMMA SumIsNat == ASSUME NEW n \in Int, NEW s \in [1..n -> Nat] PROVE Sum(s) \in Nat
<1>1. CASE n \in Nat
  BY <1>1, SumIsFold
<1>2. CASE n \notin Nat
  BY <1>2, SumIsFold
<1>3. QED BY <1>1, <1>2

LEMMA SumOfNone == ASSUME NEW s, DOMAIN s = {}, s = [k \in {} |-> s[k]] PROVE Sum(s) = 0
<1>1. s \in [1..0 -> Nat] /\ 0 \in Nat
  OBVIOUS
<1>2. QED BY <1>1, SumIsFold

\* The columns before each of some columns' widths: the sums of the fronts.
LEMMA SumOfFronts ==
    ASSUME NEW s \in Seq(Nat)
    PROVE  /\ Sum(SubSeq(s, 1, 0)) = 0
           /\ \A k \in 1..Len(s) : Sum(SubSeq(s, 1, k)) = Sum(SubSeq(s, 1, k - 1)) + s[k]
           /\ \A k \in 0..Len(s) : Sum(SubSeq(s, 1, k)) \in Nat
           /\ Sum(s) = Sum(SubSeq(s, 1, Len(s)))
<1>1. \A k \in 0..Len(s) :
        /\ SubSeq(s, 1, k) \in [1..k -> Nat]
        /\ \A j \in 1..k : SubSeq(s, 1, k)[j] = s[j]
  <2>1. SUFFICES ASSUME NEW k \in 0..Len(s)
                 PROVE  /\ SubSeq(s, 1, k) \in [1..k -> Nat]
                        /\ \A j \in 1..k : SubSeq(s, 1, k)[j] = s[j]
    OBVIOUS
  <2>2. SubSeq(s, 1, k) \in Seq(Nat) /\ Len(SubSeq(s, 1, k)) = k
    OBVIOUS
  <2>3. \A j \in 1..k : SubSeq(s, 1, k)[j] = s[j]
    OBVIOUS
  <2> DEFINE f == SubSeq(s, 1, k)
  <2> HIDE DEF f
  <2>4. f \in [1..k -> Nat] /\ \A j \in 1..k : f[j] = s[j]
    BY <2>2, <2>3, LenProperties DEF f
  <2>5. QED BY <2>4 DEF f
<1>2. SubSeq(s, 1, Len(s)) = s
  OBVIOUS
<1>3. ASSUME NEW k \in 0..Len(s) PROVE Sum(SubSeq(s, 1, k)) \in Nat
  <2> DEFINE f == SubSeq(s, 1, k)
  <2>1. k \in Int /\ f \in [1..k -> Nat]
    BY <1>1
  <2> HIDE DEF f
  <2>2. Sum(f) \in Nat
    BY <2>1, SumIsNat
  <2>3. QED BY <2>2 DEF f
<1>4. ASSUME NEW k \in 1..Len(s)
      PROVE  Sum(SubSeq(s, 1, k)) = Sum(SubSeq(s, 1, k - 1)) + s[k]
  <2> DEFINE f == SubSeq(s, 1, k)
             g == SubSeq(s, 1, k - 1)
  <2>1. f \in [1..k -> Nat] /\ g \in [1..(k - 1) -> Nat] /\ f[k] = s[k]
    <3>1. k \in 0..Len(s) /\ k - 1 \in 0..Len(s) /\ k \in 1..k
      OBVIOUS
    <3>2. QED BY <1>1, <3>1
  <2>2. \A j \in 1..(k - 1) : g[j] = f[j]
    BY <1>1
  <2>3. k \in Nat \ {0}
    OBVIOUS
  <2> HIDE DEF f, g
  <2>4. Sum(f) = Sum(g) + f[k]
    BY <2>1, <2>2, <2>3, SumLast
  <2>5. QED BY <2>1, <2>4 DEF f, g
<1>5. Sum(SubSeq(s, 1, 0)) = 0
  <2>1. SubSeq(s, 1, 0) = << >> /\ DOMAIN << >> = {} /\ << >> = [k \in {} |-> << >>[k]]
    OBVIOUS
  <2>2. QED BY <2>1, SumOfNone
<1>6. QED BY <1>2, <1>3, <1>4, <1>5

\* The elements of a sequence at some of its places, in order.
LEMMA PickIsSeq ==
    ASSUME NEW S, NEW s \in Seq(S), NEW idx \in SUBSET (1..Len(s))
    PROVE  /\ IsFiniteSet(idx) /\ idx \in SUBSET Nat
           /\ Pick(s, idx) \in Seq(S)
           /\ Len(Pick(s, idx)) = Cardinality(idx)
           /\ DOMAIN Sorted(idx) = 1..Cardinality(idx)
           /\ \A i \in 1..Cardinality(idx) : Pick(s, idx)[i] = s[Sorted(idx)[i]]
<1>1. Len(s) \in Nat /\ idx \in SUBSET Nat
  OBVIOUS
<1>2. IsFiniteSet(1..Len(s))
  <2>1. 1 \in Int /\ Len(s) \in Int
    BY <1>1
  <2>2. QED BY <2>1, FS_Interval, Zenon
<1>3. IsFiniteSet(idx)
  BY <1>2, FS_Subset
<1> DEFINE n == Cardinality(idx)
           is == Sorted(idx)
<1>4. n \in Nat /\ is \in [1..n -> idx]
  BY <1>1, <1>3, SortedSet
<1> HIDE DEF n, is
<1>5. \A i \in 1..n : s[is[i]] \in S
  <2>1. \A j \in idx : s[j] \in S
    OBVIOUS
  <2>2. QED BY <1>4, <2>1
<1>6. Pick(s, idx) = [i \in 1..n |-> s[is[i]]]
  BY <1>4 DEF Pick, is
<1>7. [i \in 1..n |-> s[is[i]]] \in [1..n -> S]
  BY <1>5
<1>8. Pick(s, idx) \in Seq(S) /\ Len(Pick(s, idx)) = n
  BY <1>4, <1>6, <1>7, FunctionIsSeq
<1>9. DOMAIN is = 1..n
  BY <1>4
<1>10. \A i \in 1..n : Pick(s, idx)[i] = s[is[i]]
  BY <1>6
<1>11. QED BY <1>1, <1>3, <1>8, <1>9, <1>10 DEF n, is

(***************************************************************************)
(* The buffer's types.                                                     *)
(***************************************************************************)
\* A highlight that is kept; the state of setStyledText within a chunk and
\* between two.
Kept == {h \in [line : Nat, start : Nat, stop : Nat, style : Nat, priority : Nat, ref : Nat,
                kind : {"user", "styled"}] : h.start < h.stop}
At == [line : Nat, col : Nat, seg : Nat, hls : Seq(Kept)]
Styled == [line : Nat, col : Nat, hls : Seq(Kept), text : Seq(Scalars)]

BufferTypeOK ==
    /\ content \in Seq(Scalars)
    /\ mem \in Seq(Seq(Scalars))
    /\ highlights \in Seq(Kept)
    /\ tabWidth \in Nat

LEMMA NormalizeType ==
    ASSUME NEW t \in Seq(Scalars) PROVE NormalizeCrlf(t) \in Seq(Scalars)
<1> DEFINE idx == {i \in DOMAIN t : ~(t[i] = "cr" /\ i < Len(t) /\ t[i + 1] = "nl")}
<1>1. idx \in SUBSET (1..Len(t))
  OBVIOUS
<1> HIDE DEF idx
<1>2. Pick(t, idx) \in Seq(Scalars)
  BY <1>1, PickIsSeq
<1>3. QED BY <1>2 DEF NormalizeCrlf, idx

LEMMA WidthType == \A s : CodepointWidth(s) \in Nat
BY DEF CodepointWidth

LEMMA SegmentType ==
    ASSUME NEW at \in At, NEW k \in Nat, NEW chunk PROVE Segment(at, k, chunk) \in Seq(Kept)
<1>1. CASE chunk.colored /\ at.col > at.seg
  <2>1. StyledHighlight(at, k) \in Kept
    BY <1>1 DEF StyledHighlight, Kept, At
  <2>2. at.hls \in Seq(Kept)
    BY DEF At
  <2>3. Append(at.hls, StyledHighlight(at, k)) \in Seq(Kept)
    BY <2>1, <2>2, AppendProperties, Zenon
  <2>4. QED BY <1>1, <2>3 DEF Segment
<1>2. CASE ~(chunk.colored /\ at.col > at.seg)
  BY <1>2 DEF Segment, At
<1>3. QED BY <1>1, <1>2

LEMMA StyledScalarType ==
    ASSUME tabWidth \in Nat, NEW at \in At, NEW k \in Nat, NEW chunk, NEW s
    PROVE  StyledScalar(at, k, chunk, s) \in At
<1>1. StyledWidth(s) \in Nat
  BY WidthType DEF StyledWidth
<1>2. Segment(at, k, chunk) \in Seq(Kept)
  BY SegmentType
<1>3. at.line + 1 \in Nat /\ at.col + StyledWidth(s) \in Nat
  BY <1>1 DEF At
<1>4. QED BY <1>2, <1>3 DEF StyledScalar, At

ScalarsFold(base, k, chunk, norm) ==
    FoldLeft(LAMBDA a, s : StyledScalar(a, k, chunk, s), base, norm)

ScalarsTrace(acc, base, k, chunk, norm) ==
    /\ acc \in [0..Len(norm) -> At]
    /\ acc[0] = base
    /\ \A i \in 1..Len(norm) : acc[i] = StyledScalar(acc[i - 1], k, chunk, norm[i])
    /\ acc[Len(norm)] = ScalarsFold(base, k, chunk, norm)

LEMMA ScalarsFolds ==
    ASSUME tabWidth \in Nat,
           NEW k \in Nat,
           NEW chunk,
           NEW norm \in Seq(Scalars),
           NEW base \in At
    PROVE  \E acc : ScalarsTrace(acc, base, k, chunk, norm)
<1> DEFINE N == Len(norm)
           zero == base
           fold == ScalarsFold(base, k, chunk, norm)
           Is(it) == it = [x \in SUBSET (DOMAIN norm) |->
                             IF x = {} THEN zero
                             ELSE LET y == Max(x) IN StyledScalar(it[x \ {y}], k, chunk, norm[y])]
           it == CHOOSE it : Is(it)
           step == [i \in 1..N |-> [a \in At |-> StyledScalar(a, k, chunk, norm[i])]]
<1>1. DOMAIN norm = 1..N /\ N \in Nat /\ zero \in At
  BY LenProperties
<1>2. fold = it[1..N]
  BY <1>1 DEF ScalarsFold, FoldLeft, MapThenFoldSet
<1>3. \A i \in 1..N, a \in At : StyledScalar(a, k, chunk, norm[i]) \in At
  BY StyledScalarType
<1> HIDE DEF N, zero, fold
<1>4. step \in [1..N -> [At -> At]]
  BY <1>3
<1>5. \A i \in 1..N, a \in At : step[i][a] = StyledScalar(a, k, chunk, norm[i])
  OBVIOUS
<1> HIDE DEF step
<1>6. \E f : Is(f)
  <2> HIDE DEF Is, it
  <2>1. PICK f \in [SUBSET (1..N) -> At] : IsFold(f, N, zero, step)
    BY <1>1, <1>4, FoldExists
  <2>2. \A x \in SUBSET (1..N) : x # {} => Max(x) \in 1..N
    BY <1>1, MaxIn
  <2>3. \A x \in SUBSET (1..N) :
          (IF x = {} THEN zero ELSE step[Max(x)][f[x \ {Max(x)}]])
            = IF x = {} THEN zero ELSE StyledScalar(f[x \ {Max(x)}], k, chunk, norm[Max(x)])
    BY <1>5, <2>1, <2>2, ZenonT(30)
  <2>4. f = [x \in SUBSET (1..N) |->
               IF x = {} THEN zero ELSE StyledScalar(f[x \ {Max(x)}], k, chunk, norm[Max(x)])]
    BY <2>1, <2>3, ZenonT(30) DEF IsFold
  <2>5. QED BY <1>1, <2>4 DEF Is
<1>7. Is(it)
  BY <1>6, ZenonT(30)
<1> HIDE DEF it
<1>8. it[{}] = zero
  BY <1>7
<1>9. \A i \in 1..N : it[1..(i - 1)] \in At => it[1..i] = step[i][it[1..(i - 1)]]
  <2>1. SUFFICES ASSUME NEW i \in 1..N, it[1..(i - 1)] \in At
                 PROVE  it[1..i] = step[i][it[1..(i - 1)]]
    OBVIOUS
  <2>2. 1..i \in SUBSET (DOMAIN norm) /\ i \in Nat \ {0}
    BY <1>1
  <2>3. it[1..i] = IF 1..i = {} THEN zero
                   ELSE StyledScalar(it[(1..i) \ {Max(1..i)}], k, chunk, norm[Max(1..i)])
    BY <1>7, <2>2, Zenon
  <2>4. it[1..i] = StyledScalar(it[1..(i - 1)], k, chunk, norm[i])
    BY <2>2, <2>3, MaxOfInterval, Zenon
  <2>5. QED BY <1>5, <2>1, <2>4
<1> HIDE DEF Is
<1>10. PICK acc : IsTrace(acc, N, At, zero, step, it[1..N])
  BY <1>1, <1>4, <1>8, <1>9, FoldTrace DEF Computes
<1>11. \A i \in 1..N : acc[i] = StyledScalar(acc[i - 1], k, chunk, norm[i])
  BY <1>1, <1>5, <1>10 DEF IsTrace
<1>12. /\ acc \in [0..N -> At]
       /\ acc[0] = zero
       /\ \A i \in 1..N : acc[i] = StyledScalar(acc[i - 1], k, chunk, norm[i])
       /\ acc[N] = fold
  BY <1>2, <1>10, <1>11 DEF IsTrace
<1>13. QED BY <1>12, Zenon DEF N, zero, fold, ScalarsTrace

LEMMA StyledChunkType ==
    ASSUME tabWidth \in Nat, NEW acc \in Styled, NEW k \in Nat, NEW chunk \in Chunks
    PROVE  StyledChunk(acc, k, chunk) \in Styled
<1> DEFINE norm == NormalizeCrlf(chunk.text)
           base == [line |-> acc.line, col |-> acc.col, seg |-> acc.col, hls |-> acc.hls]
           at == ScalarsFold(base, k, chunk, norm)
<1>1. norm \in Seq(Scalars)
  BY NormalizeType DEF Chunks
<1>2. base \in At
  BY DEF Styled, At
<1>3. StyledChunk(acc, k, chunk)
        = [line |-> at.line, col |-> at.col, hls |-> Segment(at, k, chunk),
           text |-> acc.text \o norm]
  BY DEF StyledChunk, ScalarsFold
<1>4. at \in At
  <2> HIDE DEF norm, base
  <2>1. PICK f : ScalarsTrace(f, base, k, chunk, norm)
    BY <1>1, <1>2, ScalarsFolds
  <2>2. Len(norm) \in 0..Len(norm)
    BY <1>1, LenProperties
  <2>3. QED BY <2>1, <2>2 DEF ScalarsTrace
<1> HIDE DEF norm, at
<1>5. Segment(at, k, chunk) \in Seq(Kept)
  BY <1>4, SegmentType
<1>6. acc.text \o norm \in Seq(Scalars)
  BY <1>1, ConcatProperties, Zenon DEF Styled
<1>7. QED BY <1>3, <1>4, <1>5, <1>6 DEF Styled, At

\* The places of a sequence, which some folds go over.
Numbers(s) == [k \in DOMAIN s |-> k]

ChunksFold(base, chunks) ==
    FoldLeft(LAMBDA acc, k : StyledChunk(acc, k, chunks[k]), base, Numbers(chunks))

ChunksTrace(acc, base, chunks) ==
    /\ acc \in [0..Len(chunks) -> Styled]
    /\ acc[0] = base
    /\ \A i \in 1..Len(chunks) : acc[i] = StyledChunk(acc[i - 1], Numbers(chunks)[i], chunks[Numbers(chunks)[i]])
    /\ acc[Len(chunks)] = ChunksFold(base, chunks)

LEMMA ChunksFolds ==
    ASSUME tabWidth \in Nat,
           NEW chunks \in Seq(Chunks),
           NEW base \in Styled
    PROVE  \E acc : ChunksTrace(acc, base, chunks)
<1> DEFINE N == Len(chunks)
           zero == base
           fold == ChunksFold(base, chunks)
           Is(it) == it = [x \in SUBSET (DOMAIN Numbers(chunks)) |->
                             IF x = {} THEN zero
                             ELSE LET y == Max(x) IN StyledChunk(it[x \ {y}], Numbers(chunks)[y], chunks[Numbers(chunks)[y]])]
           it == CHOOSE it : Is(it)
           step == [i \in 1..N |-> [a \in Styled |-> StyledChunk(a, Numbers(chunks)[i], chunks[Numbers(chunks)[i]])]]
<1>1. DOMAIN Numbers(chunks) = 1..N /\ N \in Nat /\ zero \in Styled
  BY LenProperties DEF Numbers
<1>2. fold = it[1..N]
  BY <1>1 DEF ChunksFold, FoldLeft, MapThenFoldSet
<1>3. \A i \in 1..N, a \in Styled : StyledChunk(a, Numbers(chunks)[i], chunks[Numbers(chunks)[i]]) \in Styled
  <2>1. SUFFICES ASSUME NEW i \in 1..N, NEW a \in Styled
                 PROVE  StyledChunk(a, Numbers(chunks)[i], chunks[Numbers(chunks)[i]]) \in Styled
    OBVIOUS
  <2>2. Numbers(chunks)[i] = i /\ i \in Nat /\ chunks[i] \in Chunks
    BY <1>1, ElementOfSeq DEF Numbers
  <2>3. QED BY <2>2, StyledChunkType
<1> HIDE DEF N, zero, fold
<1>4. step \in [1..N -> [Styled -> Styled]]
  BY <1>3
<1>5. \A i \in 1..N, a \in Styled : step[i][a] = StyledChunk(a, Numbers(chunks)[i], chunks[Numbers(chunks)[i]])
  OBVIOUS
<1> HIDE DEF step
<1>6. \E f : Is(f)
  <2> HIDE DEF Is, it
  <2>1. PICK f \in [SUBSET (1..N) -> Styled] : IsFold(f, N, zero, step)
    BY <1>1, <1>4, FoldExists
  <2>2. \A x \in SUBSET (1..N) : x # {} => Max(x) \in 1..N
    BY <1>1, MaxIn
  <2>3. \A x \in SUBSET (1..N) :
          (IF x = {} THEN zero ELSE step[Max(x)][f[x \ {Max(x)}]])
            = IF x = {} THEN zero ELSE StyledChunk(f[x \ {Max(x)}], Numbers(chunks)[Max(x)], chunks[Numbers(chunks)[Max(x)]])
    BY <1>5, <2>1, <2>2, ZenonT(30)
  <2>4. f = [x \in SUBSET (1..N) |->
               IF x = {} THEN zero ELSE StyledChunk(f[x \ {Max(x)}], Numbers(chunks)[Max(x)], chunks[Numbers(chunks)[Max(x)]])]
    BY <2>1, <2>3, ZenonT(30) DEF IsFold
  <2>5. QED BY <1>1, <2>4 DEF Is
<1>7. Is(it)
  BY <1>6, ZenonT(30)
<1> HIDE DEF it
<1>8. it[{}] = zero
  BY <1>7
<1>9. \A i \in 1..N : it[1..(i - 1)] \in Styled => it[1..i] = step[i][it[1..(i - 1)]]
  <2>1. SUFFICES ASSUME NEW i \in 1..N, it[1..(i - 1)] \in Styled
                 PROVE  it[1..i] = step[i][it[1..(i - 1)]]
    OBVIOUS
  <2>2. 1..i \in SUBSET (DOMAIN Numbers(chunks)) /\ i \in Nat \ {0}
    BY <1>1
  <2>3. it[1..i] = IF 1..i = {} THEN zero
                   ELSE StyledChunk(it[(1..i) \ {Max(1..i)}], Numbers(chunks)[Max(1..i)], chunks[Numbers(chunks)[Max(1..i)]])
    BY <1>7, <2>2, Zenon
  <2>4. it[1..i] = StyledChunk(it[1..(i - 1)], Numbers(chunks)[i], chunks[Numbers(chunks)[i]])
    BY <2>2, <2>3, MaxOfInterval, Zenon
  <2>5. QED BY <1>5, <2>1, <2>4
<1> HIDE DEF Is
<1>10. PICK acc : IsTrace(acc, N, Styled, zero, step, it[1..N])
  BY <1>1, <1>4, <1>8, <1>9, FoldTrace DEF Computes
<1>11. \A i \in 1..N : acc[i] = StyledChunk(acc[i - 1], Numbers(chunks)[i], chunks[Numbers(chunks)[i]])
  BY <1>1, <1>5, <1>10 DEF IsTrace
<1>12. /\ acc \in [0..N -> Styled]
       /\ acc[0] = zero
       /\ \A i \in 1..N : acc[i] = StyledChunk(acc[i - 1], Numbers(chunks)[i], chunks[Numbers(chunks)[i]])
       /\ acc[N] = fold
  BY <1>2, <1>10, <1>11 DEF IsTrace
<1>13. QED BY <1>12, Zenon DEF N, zero, fold, ChunksTrace

LEMMA UserHighlightsType == BufferTypeOK => UserHighlights \in Seq(Kept)
<1> DEFINE idx == {k \in DOMAIN highlights : highlights[k].kind = "user"}
<1> SUFFICES ASSUME BufferTypeOK PROVE UserHighlights \in Seq(Kept)
  OBVIOUS
<1>1. highlights \in Seq(Kept) /\ idx \in SUBSET (1..Len(highlights))
  BY LenProperties DEF BufferTypeOK
<1>2. UserHighlights = Pick(highlights, idx)
  BY DEF UserHighlights, Where
<1> HIDE DEF idx
<1>3. QED BY <1>1, <1>2, PickIsSeq

LEMMA SetStyledType ==
    ASSUME BufferTypeOK, NEW chunks \in Seq(Chunks), SetStyled(chunks)
    PROVE  BufferTypeOK'
<1> DEFINE base == [line |-> 0, col |-> 0, hls |-> UserHighlights, text |-> <<>>]
           all == ChunksFold(base, chunks)
<1>1. base \in Styled
  BY UserHighlightsType DEF Styled
<1>2. highlights' = all.hls /\ content' = all.text /\ UNCHANGED <<mem, tabWidth>>
  BY DEF SetStyled, ChunksFold, Numbers
<1> HIDE DEF base
<1>3. PICK f : ChunksTrace(f, base, chunks)
  BY <1>1, ChunksFolds DEF BufferTypeOK
<1>4. Len(chunks) \in 0..Len(chunks)
  BY LenProperties
<1>5. all \in Styled
  BY <1>3, <1>4 DEF ChunksTrace
<1> HIDE DEF all
<1>6. all.hls \in Seq(Kept) /\ all.text \in Seq(Scalars)
  BY <1>5 DEF Styled
<1>7. QED BY <1>2, <1>6 DEF BufferTypeOK

(***************************************************************************)
(* The lines of the content, and their widths.                             *)
(***************************************************************************)
\* The lines of a text are its scalars between the newlines: one more than
\* there are newlines, in order, without a gap but the newline.
Cuts(lines, c) ==
    /\ Len(lines) \in Nat \ {0}
    /\ lines \in [1..Len(lines) -> [from : Nat, to : Nat]]
    /\ lines[1].from = 1
    /\ lines[Len(lines)].to = Len(c)
    /\ \A k \in 1..Len(lines) : 1 <= lines[k].from /\ lines[k].from <= lines[k].to + 1
    /\ \A k \in 1..(Len(lines) - 1) :
          lines[k + 1].from = lines[k].to + 2 /\ c[lines[k].to + 1] = "nl"
    /\ \A k \in 1..Len(lines) : \A i \in lines[k].from..lines[k].to : c[i] # "nl"

LEMMA LinesOfText == ASSUME NEW c \in Seq(Scalars) PROVE Cuts(ContentLines(c), c)
<1> DEFINE nls == {i \in 1..Len(c) : c[i] = "nl"} \union {Len(c) + 1}
           ends == Sorted(nls)
           n == Cardinality(nls)
<1>1. Len(c) \in Nat /\ nls \in SUBSET (1..(Len(c) + 1)) /\ nls \in SUBSET Nat
  BY LenProperties
<1>2. IsFiniteSet(nls)
  <2> DEFINE m == Len(c) + 1
  <2>1. 1 \in Int /\ m \in Int
    BY <1>1
  <2>2. nls \in SUBSET (1..m)
    BY <1>1
  <2> HIDE DEF nls, m
  <2>3. IsFiniteSet(1..m)
    BY <2>1, FS_Interval, Zenon
  <2>4. QED BY <2>2, <2>3, FS_Subset
<1>3. Len(c) + 1 \in nls
  OBVIOUS
<1>4. \A i \in 1..Len(c) : i \in nls <=> c[i] = "nl"
  BY <1>1
<1>5. ContentLines(c) = [k \in DOMAIN ends |->
          [from |-> IF k = 1 THEN 1 ELSE ends[k - 1] + 1, to |-> ends[k] - 1]]
  BY DEF ContentLines, LinesEndingAt
<1> HIDE DEF nls
<1>6. /\ n \in Nat /\ ends \in [1..n -> nls]
      /\ \A i, j \in 1..n : i < j => ends[i] < ends[j]
      /\ \A k \in nls : \E i \in 1..n : ends[i] = k
  BY <1>1, <1>2, SortedSet
<1> HIDE DEF ends, n
<1>7. n \in Nat \ {0} /\ 1 \in 1..n /\ n \in 1..n
  BY <1>3, <1>6
<1>8. \A k \in 1..n : ends[k] \in 1..(Len(c) + 1) /\ ends[k] \in nls
  BY <1>1, <1>6
<1>9. ends[n] = Len(c) + 1
  <2>1. PICK i \in 1..n : ends[i] = Len(c) + 1
    BY <1>3, <1>6
  <2>2. i < n => ends[i] < ends[n]
    BY <1>6, <1>7
  <2>3. ends[n] \in 1..(Len(c) + 1)
    BY <1>7, <1>8
  <2>4. QED BY <1>1, <1>7, <2>1, <2>2, <2>3
<1> DEFINE line(k) == [from |-> IF k = 1 THEN 1 ELSE ends[k - 1] + 1, to |-> ends[k] - 1]
           lines == ContentLines(c)
<1>10. lines = [k \in 1..n |-> line(k)]
  BY <1>5, <1>6
<1>11. \A k \in 1..n : line(k).from \in Nat /\ line(k).to \in Nat
  <2>1. SUFFICES ASSUME NEW k \in 1..n PROVE line(k).from \in Nat /\ line(k).to \in Nat
    OBVIOUS
  <2>2. ends[k] \in 1..(Len(c) + 1)
    BY <1>8
  <2>3. k # 1 => ends[k - 1] \in 1..(Len(c) + 1)
    BY <1>7, <1>8
  <2>4. QED BY <1>1, <2>2, <2>3
<1>12. lines \in [1..n -> [from : Nat, to : Nat]]
  BY <1>10, <1>11
<1>13. Len(lines) = n
  BY <1>7, <1>12, FunctionIsSeq
<1>14. \A k \in 1..n : lines[k] = line(k)
  BY <1>10
<1> HIDE DEF lines
<1>15. lines[1].from = 1 /\ lines[n].to = Len(c)
  <2>1. line(1).from = 1
    OBVIOUS
  <2>2. line(n).to = Len(c)
    BY <1>1, <1>9
  <2> HIDE DEF line
  <2>3. QED BY <1>7, <1>14, <2>1, <2>2
<1>16. ASSUME NEW k \in 1..n
       PROVE  1 <= lines[k].from /\ lines[k].from <= lines[k].to + 1
  <2>1. ends[k] \in 1..(Len(c) + 1) /\ lines[k] = line(k)
    BY <1>8, <1>14
  <2>2. k # 1 => ends[k - 1] \in 1..(Len(c) + 1) /\ ends[k - 1] < ends[k]
    BY <1>6, <1>7, <1>8
  <2>3. QED BY <1>1, <2>1, <2>2
<1>17. ASSUME NEW k \in 1..(n - 1)
       PROVE  lines[k + 1].from = lines[k].to + 2 /\ c[lines[k].to + 1] = "nl"
  <2>1. k \in 1..n /\ k + 1 \in 1..n
    BY <1>7
  <2>2. lines[k] = line(k) /\ lines[k + 1] = line(k + 1)
    BY <1>14, <2>1
  <2>3. ends[k] \in 1..(Len(c) + 1) /\ ends[k] \in nls
    BY <1>8, <2>1
  <2>4. ends[k] < ends[n]
    BY <1>6, <1>7, <2>1
  <2>5. ends[k] \in 1..Len(c)
    BY <1>1, <1>9, <2>3, <2>4
  <2>6. c[ends[k]] = "nl"
    BY <1>4, <2>3, <2>5
  <2>7. QED BY <1>1, <2>1, <2>2, <2>5, <2>6
<1>18. ASSUME NEW k \in 1..n, NEW i \in lines[k].from..lines[k].to, c[i] = "nl" PROVE FALSE
  <2>1. ends[k] \in 1..(Len(c) + 1) /\ lines[k] = line(k)
    BY <1>8, <1>14
  <2>2. i < ends[k] /\ i \in 1..Len(c)
    BY <1>1, <1>12, <1>16, <2>1
  <2>3. PICK j \in 1..n : ends[j] = i
    BY <1>4, <1>6, <1>18, <2>2
  <2>4. j < k
    BY <1>6, <2>1, <2>2, <2>3
  <2>5. k # 1 /\ k - 1 \in 1..n
    BY <1>7, <2>4
  <2>6. ends[k - 1] + 1 <= i /\ ends[k - 1] \in 1..(Len(c) + 1)
    BY <1>8, <2>1, <2>5
  <2>7. j # k - 1
    BY <2>2, <2>3, <2>6
  <2>8. j < k - 1
    BY <2>4, <2>5, <2>7
  <2>9. ends[j] < ends[k - 1]
    BY <1>6, <2>5, <2>8
  <2>10. QED BY <2>2, <2>3, <2>6, <2>9
<1> HIDE DEF line
<1>19. Cuts(lines, c)
  BY <1>7, <1>12, <1>13, <1>15, <1>16, <1>17, <1>18 DEF Cuts
<1>20. QED BY <1>19 DEF lines

LEMMA LineWidthsType == content \in Seq(Scalars) => LineWidthsFromScalars \in Seq(Nat)
<1> SUFFICES ASSUME content \in Seq(Scalars) PROVE LineWidthsFromScalars \in Seq(Nat)
  OBVIOUS
<1> DEFINE lines == ContentLines(content)
           n == Len(lines)
           of(k) == [j \in 1..(lines[k].to - lines[k].from + 1) |->
                       CodepointWidth(content[lines[k].from + j - 1])]
<1>1. n \in Nat /\ lines \in [1..n -> [from : Nat, to : Nat]]
  BY LinesOfText DEF Cuts
<1> HIDE DEF lines, n
<1>2. ASSUME NEW k \in 1..n PROVE Sum(of(k)) \in Nat
  <2> DEFINE m == lines[k].to - lines[k].from + 1
  <2>1. m \in Int
    BY <1>1
  <2>2. of(k) \in [1..m -> Nat]
    BY WidthType
  <2> HIDE DEF of, m
  <2>3. QED BY <2>1, <2>2, SumIsNat
<1>3. LineWidthsFromScalars = [k \in 1..n |-> Sum(of(k))]
  BY <1>1 DEF LineWidthsFromScalars, lines
<1> HIDE DEF of
<1>4. [k \in 1..n |-> Sum(of(k))] \in [1..n -> Nat]
  BY <1>2
<1>5. QED BY <1>1, <1>3, <1>4, FunctionIsSeq

(***************************************************************************)
(* The pieces of a range.                                                  *)
(***************************************************************************)
\* The column a line starts at, and the columns of it that are in a range.
LineStart(k) == Sum(SubSeq(LineWidthsFromScalars, 1, k - 1))
PieceFrom(hl, k) == IF hl.start <= LineStart(k) THEN 0 ELSE hl.start - LineStart(k)
PieceTo(hl, k) ==
    IF hl.stop - LineStart(k) <= LineWidthsFromScalars[k] THEN hl.stop - LineStart(k)
    ELSE LineWidthsFromScalars[k]
Piece(hl, k) == Highlight(k - 1, hl, PieceFrom(hl, k), PieceTo(hl, k))
Overlapped(hl) ==
    {k \in 1..Len(LineWidthsFromScalars) :
       /\ hl.start < LineStart(k) + LineWidthsFromScalars[k]
       /\ LineStart(k) < hl.stop
       /\ PieceFrom(hl, k) < PieceTo(hl, k)}

LEMMA LineStarts ==
    ASSUME content \in Seq(Scalars)
    PROVE  /\ Len(LineWidthsFromScalars) \in Nat
           /\ LineStart(1) = 0
           /\ \A k \in 1..Len(LineWidthsFromScalars) :
                /\ LineWidthsFromScalars[k] \in Nat /\ LineStart(k) \in Nat
                /\ LineStart(k + 1) = LineStart(k) + LineWidthsFromScalars[k]
           /\ Sum(LineWidthsFromScalars) = LineStart(Len(LineWidthsFromScalars) + 1)
<1> DEFINE widths == LineWidthsFromScalars
<1>1. widths \in Seq(Nat)
  BY LineWidthsType
<1> HIDE DEF widths
<1>2. Len(widths) \in Nat /\ \A k \in 1..Len(widths) : widths[k] \in Nat
  BY <1>1, LenProperties
<1>3. /\ Sum(SubSeq(widths, 1, 0)) = 0
      /\ \A k \in 1..Len(widths) :
           Sum(SubSeq(widths, 1, k)) = Sum(SubSeq(widths, 1, k - 1)) + widths[k]
      /\ \A k \in 0..Len(widths) : Sum(SubSeq(widths, 1, k)) \in Nat
      /\ Sum(widths) = Sum(SubSeq(widths, 1, Len(widths)))
  BY <1>1, SumOfFronts
<1>4. \A k \in Int : LineStart(k + 1) = Sum(SubSeq(widths, 1, k))
  BY DEF LineStart, widths
<1>5. LineStart(1) = 0
  BY <1>3, <1>4
<1>6. ASSUME NEW k \in 1..Len(widths)
      PROVE  LineStart(k) \in Nat /\ LineStart(k + 1) = LineStart(k) + widths[k]
  <2>1. k - 1 \in 0..Len(widths) /\ k \in Int /\ k - 1 \in Int /\ (k - 1) + 1 = k
    BY <1>2
  <2>2. LineStart(k) = Sum(SubSeq(widths, 1, k - 1))
    BY <1>4, <2>1
  <2>3. QED BY <1>3, <1>4, <2>1, <2>2
<1>7. Sum(widths) = LineStart(Len(widths) + 1)
  BY <1>2, <1>3, <1>4
<1>8. QED BY <1>2, <1>5, <1>6, <1>7 DEF widths

\* The pieces are a highlight for each line the range has columns on.
LEMMA PiecesAre ==
    ASSUME content \in Seq(Scalars), NEW hl \in Ranges
    PROVE  /\ Pieces(hl) \in Seq(Kept)
           /\ Range(Pieces(hl)) = {Piece(hl, k) : k \in Overlapped(hl)}
<1> DEFINE widths == LineWidthsFromScalars
           from(k) == Max({0, hl.start - LineStart(k)})
           to(k) == Min({hl.stop - LineStart(k), widths[k]})
           lines == Sorted(Overlapped(hl))
           n == Cardinality(Overlapped(hl))
<1>1. /\ Len(widths) \in Nat
      /\ \A k \in 1..Len(widths) : widths[k] \in Nat /\ LineStart(k) \in Nat
  BY LineStarts
<1>2. hl.start \in Nat /\ hl.stop \in Nat
  BY DEF Ranges
<1>3. DOMAIN widths = 1..Len(widths)
  BY LineWidthsType, LenProperties
<1> HIDE DEF widths
<1>4. ASSUME NEW k \in 1..Len(widths)
      PROVE  from(k) = PieceFrom(hl, k) /\ to(k) = PieceTo(hl, k)
  <2>1. widths[k] \in Nat /\ LineStart(k) \in Nat
    BY <1>1
  <2> DEFINE a == hl.start - LineStart(k)
             b == hl.stop - LineStart(k)
             w == widths[k]
  <2>2. a \in Int /\ b \in Int /\ w \in Int
    BY <1>2, <2>1
  <2>3. hl.start <= LineStart(k) <=> a <= 0
    BY <1>2, <2>1
  <2>4. PieceFrom(hl, k) = (IF a <= 0 THEN 0 ELSE a) /\ PieceTo(hl, k) = (IF b <= w THEN b ELSE w)
    BY <2>3 DEF PieceFrom, PieceTo, widths
  <2> HIDE DEF a, b, w
  <2>5. Max({0, a}) = IF a <= 0 THEN 0 ELSE a
    <3>1. {0, a} \in SUBSET Int
      BY <2>2
    <3>2. CASE a <= 0
      <4>1. 0 \in {0, a} /\ \A y \in {0, a} : 0 >= y
        BY <2>2, <3>2
      <4>2. QED BY <3>1, <3>2, <4>1, MaxIs
    <3>3. CASE ~(a <= 0)
      <4>1. a \in {0, a} /\ \A y \in {0, a} : a >= y
        BY <2>2, <3>3
      <4>2. Max({0, a}) = a
        BY <3>1, <4>1, MaxIs
      <4>3. QED BY <3>3, <4>2
    <3>4. QED BY <3>2, <3>3
  <2>6. Min({b, w}) = IF b <= w THEN b ELSE w
    <3>1. {b, w} \in SUBSET Int
      BY <2>2
    <3>2. CASE b <= w
      <4>1. b \in {b, w} /\ \A y \in {b, w} : b <= y
        BY <2>2, <3>2
      <4>2. Min({b, w}) = b
        BY <3>1, <4>1, MinIs
      <4>3. QED BY <3>2, <4>2
    <3>3. CASE ~(b <= w)
      <4>1. w \in {b, w} /\ \A y \in {b, w} : w <= y
        BY <2>2, <3>3
      <4>2. Min({b, w}) = w
        BY <3>1, <4>1, MinIs
      <4>3. QED BY <3>3, <4>2
    <3>4. QED BY <3>2, <3>3
  <2>7. from(k) = Max({0, a}) /\ to(k) = Min({b, w})
    BY DEF a, b, w
  <2>8. QED BY <2>4, <2>5, <2>6, <2>7
<1> DEFINE over == {k \in DOMAIN widths : /\ hl.start < LineStart(k) + widths[k]
                                          /\ LineStart(k) < hl.stop
                                          /\ from(k) < to(k)}
<1>5. Pieces(hl) = [j \in DOMAIN Sorted(over) |->
                      Highlight(Sorted(over)[j] - 1, hl, from(Sorted(over)[j]), to(Sorted(over)[j]))]
  BY DEF Pieces, LineStart, widths
<1> HIDE DEF from, to
<1>6. over = Overlapped(hl)
  BY <1>3, <1>4 DEF Overlapped, widths
<1> HIDE DEF over
<1>7. Overlapped(hl) \in SUBSET (1..Len(widths))
  BY DEF Overlapped, widths
<1>8. Overlapped(hl) \in SUBSET Nat /\ IsFiniteSet(Overlapped(hl))
  <2> DEFINE m == Len(widths)
  <2>1. 1 \in Int /\ m \in Int
    BY <1>1
  <2>2. IsFiniteSet(1..m)
    BY <2>1, FS_Interval, Zenon
  <2>3. QED BY <1>7, <2>2, FS_Subset
<1>9. /\ n \in Nat /\ lines \in [1..n -> Overlapped(hl)]
      /\ \A k \in Overlapped(hl) : \E i \in 1..n : lines[i] = k
  BY <1>8, SortedSet
<1> HIDE DEF lines, n
<1>10. Pieces(hl) = [j \in 1..n |-> Piece(hl, lines[j])]
  BY <1>4, <1>5, <1>6, <1>7, <1>9 DEF lines, Piece
<1>11. ASSUME NEW k \in Overlapped(hl) PROVE Piece(hl, k) \in Kept
  <2>1. k \in 1..Len(widths) /\ widths[k] \in Nat /\ LineStart(k) \in Nat
    BY <1>1, <1>7
  <2>2. LineStart(k) < hl.stop /\ PieceFrom(hl, k) < PieceTo(hl, k)
    BY DEF Overlapped
  <2>3. PieceFrom(hl, k) \in Nat /\ PieceTo(hl, k) \in Nat
    BY <1>2, <2>1, <2>2 DEF PieceFrom, PieceTo, widths
  <2>4. k - 1 \in Nat
    BY <2>1
  <2>5. QED BY <2>2, <2>3, <2>4 DEF Piece, Highlight, Kept, Ranges
<1>12. Pieces(hl) \in [1..n -> Kept]
  BY <1>9, <1>10, <1>11
<1>13. Pieces(hl) \in Seq(Kept) /\ DOMAIN Pieces(hl) = 1..n
  BY <1>9, <1>12, FunctionIsSeq
<1>14. Range(Pieces(hl)) = {Piece(hl, lines[j]) : j \in 1..n}
  BY <1>10, <1>13 DEF Range
<1>15. QED BY <1>9, <1>13, <1>14

\* Every column of the text is on a line.
LEMMA ColumnHasLine ==
    ASSUME content \in Seq(Scalars), NEW col \in Nat, col < Sum(LineWidthsFromScalars)
    PROVE  \E k \in 1..Len(LineWidthsFromScalars) :
             LineStart(k) <= col /\ col < LineStart(k) + LineWidthsFromScalars[k]
<1> DEFINE n == Len(LineWidthsFromScalars)
           On(k) == LineStart(k) <= col /\ col < LineStart(k) + LineWidthsFromScalars[k]
           S == {k \in 0..n : col < LineStart(k + 1) => \E j \in 1..n : On(j)}
<1>1. /\ n \in Nat /\ LineStart(1) = 0
      /\ \A k \in 1..n : /\ LineWidthsFromScalars[k] \in Nat /\ LineStart(k) \in Nat
                         /\ LineStart(k + 1) = LineStart(k) + LineWidthsFromScalars[k]
      /\ col < LineStart(n + 1)
  BY LineStarts
<1> HIDE DEF n
<1>2. 0 \in S
  BY <1>1
<1>3. ASSUME NEW k \in 1..n, k - 1 \in S PROVE k \in S
  <2>1. k \in 0..n /\ (k - 1) + 1 = k
    BY <1>1
  <2>2. CASE col < LineStart(k)
    BY <1>3, <2>1, <2>2
  <2>3. CASE ~(col < LineStart(k))
    <3>1. LineStart(k) <= col
      BY <1>1, <2>3
    <3>2. col < LineStart(k + 1) => On(k)
      BY <1>1, <3>1
    <3> HIDE DEF On
    <3>3. QED BY <2>1, <3>2
  <2>4. QED BY <2>2, <2>3
<1> HIDE DEF S
<1>4. \A k \in 0..n : k \in S
  BY <1>1, <1>2, <1>3, Induction
<1>5. n \in S
  BY <1>1, <1>4
<1>6. \E j \in 1..n : On(j)
  BY <1>1, <1>5 DEF S
<1>7. QED BY <1>6 DEF n

\* A highlighted range marks its columns, and only those.
LEMMA RangeIsCovered == content \in Seq(Scalars) => RangeCovered
<1> SUFFICES ASSUME content \in Seq(Scalars), NEW hl \in Highlights, hl.start < hl.stop
             PROVE  UNION {{Sum(SubSeq(LineWidthsFromScalars, 1, p.line)) + c :
                              c \in p.start..(p.stop - 1)} : p \in Range(Pieces(hl))}
                      = {c \in hl.start..(hl.stop - 1) : c < Sum(LineWidthsFromScalars)}
  BY DEF RangeCovered
<1> DEFINE n == Len(LineWidthsFromScalars)
           w(k) == LineWidthsFromScalars[k]
           cols(p) == {Sum(SubSeq(LineWidthsFromScalars, 1, p.line)) + c : c \in p.start..(p.stop - 1)}
           total == Sum(LineWidthsFromScalars)
<1>1. hl \in Ranges /\ hl.start \in Nat /\ hl.stop \in Nat
  BY BufferAssumption DEF Ranges
<1>2. /\ n \in Nat
      /\ \A k \in 1..n : /\ w(k) \in Nat /\ LineStart(k) \in Nat
                         /\ LineStart(k + 1) = LineStart(k) + w(k)
      /\ total = LineStart(n + 1)
  BY LineStarts
<1>3. Range(Pieces(hl)) = {Piece(hl, k) : k \in Overlapped(hl)}
  BY <1>1, PiecesAre
<1>4. \A k \in 1..n : cols(Piece(hl, k)) = {LineStart(k) + c : c \in PieceFrom(hl, k)..(PieceTo(hl, k) - 1)}
  BY DEF Piece, Highlight, LineStart
<1>5. Overlapped(hl) = {k \in 1..n : /\ hl.start < LineStart(k) + w(k)
                                     /\ LineStart(k) < hl.stop
                                     /\ PieceFrom(hl, k) < PieceTo(hl, k)}
  BY DEF Overlapped
<1>6. \A k \in 1..n : /\ PieceFrom(hl, k) = IF hl.start <= LineStart(k) THEN 0 ELSE hl.start - LineStart(k)
                      /\ PieceTo(hl, k) = IF hl.stop - LineStart(k) <= w(k) THEN hl.stop - LineStart(k) ELSE w(k)
  BY DEF PieceFrom, PieceTo
<1>7. \A c \in Nat : c < total => \E k \in 1..n : LineStart(k) <= c /\ c < LineStart(k) + w(k)
  BY ColumnHasLine
<1>8. \A k \in 1..n : LineStart(k) + w(k) <= total
  <2> DEFINE S == {k \in 0..n : \A j \in 1..k : LineStart(j) + w(j) <= LineStart(k + 1)}
  <2> HIDE DEF w, n, total
  <2>1. 0 \in S
    BY <1>2
  <2>2. ASSUME NEW k \in 1..n, k - 1 \in S PROVE k \in S
    <3>1. k \in 0..n /\ (k - 1) + 1 = k
      BY <1>2
    <3>2. \A j \in 1..(k - 1) : LineStart(j) + w(j) <= LineStart(k)
      BY <2>2, <3>1
    <3>3. LineStart(k + 1) = LineStart(k) + w(k) /\ w(k) \in Nat /\ LineStart(k) \in Nat
      BY <1>2
    <3>4. ASSUME NEW j \in 1..k PROVE LineStart(j) + w(j) <= LineStart(k + 1)
      <4>1. CASE j = k
        BY <3>3, <4>1
      <4>2. CASE j # k
        BY <1>2, <3>2, <3>3, <4>2
      <4>3. QED BY <4>1, <4>2
    <3>5. QED BY <3>1, <3>4
  <2> HIDE DEF S
  <2>3. \A k \in 0..n : k \in S
    BY <1>2, <2>1, <2>2, Induction
  <2>4. n \in S
    BY <1>2, <2>3
  <2>5. QED BY <1>2, <2>4 DEF S
<1> HIDE DEF n, w, cols, total
<1>9. ASSUME NEW k \in Overlapped(hl), NEW d \in cols(Piece(hl, k))
      PROVE  d \in hl.start..(hl.stop - 1) /\ d < total
  <2>1. k \in 1..n
    BY <1>5
  <2>2. PICK c \in PieceFrom(hl, k)..(PieceTo(hl, k) - 1) : d = LineStart(k) + c
    BY <1>4, <1>9, <2>1
  <2>3. LineStart(k) \in Nat /\ w(k) \in Nat /\ LineStart(k) + w(k) <= total
    BY <1>2, <1>8, <2>1
  <2>4. PieceFrom(hl, k) \in Nat /\ PieceTo(hl, k) \in Int
    BY <1>1, <1>6, <2>1, <2>3, SMTT(30)
  <2>5. hl.start <= LineStart(k) + PieceFrom(hl, k)
    BY <1>1, <1>6, <2>1, <2>3
  <2>6. LineStart(k) + PieceTo(hl, k) <= hl.stop /\ PieceTo(hl, k) <= w(k)
    BY <1>1, <1>6, <2>1, <2>3
  <2>7. total \in Int
    <3>1. n \in 1..n
      BY <1>2, <2>1
    <3>2. /\ LineStart(n + 1) = LineStart(n) + w(n)
          /\ LineStart(n) \in Nat /\ w(n) \in Nat
      BY <1>2, <3>1, Zenon
    <3>3. total = LineStart(n) + w(n)
      BY <1>2, <3>2
    <3>4. QED BY <3>2, <3>3
  <2>8. QED BY <1>1, <2>2, <2>3, <2>4, <2>5, <2>6, <2>7, SMTT(30)
<1>10. ASSUME NEW d \in hl.start..(hl.stop - 1), d < total
       PROVE  \E k \in Overlapped(hl) : d \in cols(Piece(hl, k))
  <2>1. d \in Nat /\ hl.start <= d /\ d < hl.stop
    BY <1>1
  <2>2. PICK k \in 1..n : LineStart(k) <= d /\ d < LineStart(k) + w(k)
    BY <1>7, <1>10, <2>1
  <2>3. LineStart(k) \in Nat /\ w(k) \in Nat
    BY <1>2
  <2> DEFINE c == d - LineStart(k)
  <2>4. c \in Nat /\ d = LineStart(k) + c
    BY <2>1, <2>2, <2>3
  <2>5. PieceFrom(hl, k) \in Nat /\ PieceFrom(hl, k) <= c
    BY <1>1, <1>6, <2>1, <2>3, <2>2, SMTT(30)
  <2>6. PieceTo(hl, k) \in Int /\ c < PieceTo(hl, k)
    BY <1>1, <1>6, <2>1, <2>3, <2>2
  <2>7. hl.start < LineStart(k) + w(k) /\ LineStart(k) < hl.stop
    BY <1>1, <2>1, <2>2, <2>3
  <2> HIDE DEF c
  <2>8. PieceFrom(hl, k) < PieceTo(hl, k) /\ c \in PieceFrom(hl, k)..(PieceTo(hl, k) - 1)
    BY <2>4, <2>5, <2>6
  <2>9. k \in Overlapped(hl)
    BY <1>5, <2>7, <2>8
  <2>10. d \in cols(Piece(hl, k))
    BY <1>4, <2>4, <2>8
  <2>11. QED BY <2>9, <2>10
<1>11. UNION {cols(p) : p \in Range(Pieces(hl))} = {c \in hl.start..(hl.stop - 1) : c < total}
  BY <1>3, <1>9, <1>10
<1>12. QED BY <1>11 DEF cols, total

LEMMA BufferTypes == BufferSpec => []BufferTypeOK
<1>1. BufferInit => BufferTypeOK
  BY DEF BufferInit, BufferTypeOK
<1>2. ASSUME BufferTypeOK, [BufferNext]_bufferVars PROVE BufferTypeOK'
  <2> USE DEF BufferTypeOK
  <2>1. \A t \in Texts : t \in Seq(Scalars)
    BY BufferAssumption
  <2>2. ASSUME NEW t \in Seq(Scalars), SetContent(t)
        PROVE  content' \in Seq(Scalars) /\ highlights' \in Seq(Kept)
    BY <1>2, <2>2, NormalizeType, UserHighlightsType DEF SetContent
  <2>3. ASSUME NEW t \in Texts, LoadFile(t) PROVE BufferTypeOK'
    BY <1>2, <2>1, <2>2, <2>3 DEF LoadFile
  <2>4. ASSUME NEW t \in Texts, RegisterMem(t) PROVE BufferTypeOK'
    <3>1. Append(mem, t) \in Seq(Seq(Scalars))
      BY <1>2, <2>1, AppendProperties, Zenon
    <3>2. QED BY <1>2, <2>4, <3>1 DEF RegisterMem
  <2>5. ASSUME NEW t \in Seq(Scalars), AppendText(t) PROVE BufferTypeOK'
    <3>1. NormalizeCrlf(t) \in Seq(Scalars)
      BY NormalizeType
    <3>2. content \o NormalizeCrlf(t) \in Seq(Scalars)
      BY <1>2, <3>1, ConcatProperties, Zenon
    <3>3. QED BY <1>2, <2>5, <3>2 DEF AppendText
  <2>6. ASSUME NEW id, SetFromMem(id) PROVE BufferTypeOK'
    BY <1>2, <2>2, <2>6, LenProperties, ElementOfSeq DEF SetFromMem
  <2>7. ASSUME NEW id, AppendFromMem(id) PROVE BufferTypeOK'
    BY <1>2, <2>5, <2>7, LenProperties, ElementOfSeq DEF AppendFromMem
  <2>8. ASSUME NEW id, NEW t \in Texts, ReplaceMem(id, t) PROVE BufferTypeOK'
    <3>1. Slot(id) \in 1..Len(mem)
      BY <1>2, <2>8, LenProperties DEF ReplaceMem
    <3>2. [mem EXCEPT ![Slot(id)] = t] \in Seq(Seq(Scalars))
      BY <1>2, <2>1, <3>1, ExceptSeq, Zenon
    <3>3. QED BY <1>2, <2>8, <3>2 DEF ReplaceMem
  <2>9. ASSUME ClearMemRegistry \/ Clear \/ Reset PROVE BufferTypeOK'
    <3>1. << >> \in Seq(Scalars) /\ << >> \in Seq(Seq(Scalars)) /\ << >> \in Seq(Kept)
      BY EmptySeq
    <3>2. UserHighlights \in Seq(Kept)
      BY <1>2, UserHighlightsType
    <3>3. CASE ClearMemRegistry
      BY <1>2, <3>1, <3>3 DEF ClearMemRegistry
    <3>4. CASE Clear
      BY <1>2, <3>1, <3>2, <3>4 DEF Clear
    <3>5. CASE Reset
      BY <1>2, <3>1, <3>5 DEF Reset
    <3>6. QED BY <2>9, <3>3, <3>4, <3>5
  <2>10. ASSUME NEW w \in TabWidths, SetTabWidth(w) PROVE BufferTypeOK'
    BY <1>2, <2>10, BufferAssumption DEF SetTabWidth
  <2>11. ASSUME NEW chunks \in StyledCalls, SetStyled(chunks) PROVE BufferTypeOK'
    <3>1. chunks \in Seq(Chunks)
      BY BufferAssumption
    <3> HIDE DEF BufferTypeOK
    <3>2. QED BY <1>2, <2>11, <3>1, SetStyledType
  <2>12. ASSUME NEW hls \in Seq(Kept), Keep(hls) PROVE BufferTypeOK'
    BY <1>2, <2>12 DEF Keep
  <2>13. ASSUME NEW idx \in SUBSET (DOMAIN highlights), Keep(Pick(highlights, idx))
         PROVE  BufferTypeOK'
    BY <1>2, <2>12, <2>13, LenProperties, PickIsSeq
  <2>14. ASSUME NEW ref, RemoveHighlightsByRef(ref) PROVE BufferTypeOK'
    <3> DEFINE idx == {k \in DOMAIN highlights : highlights[k].ref # ref}
    <3>1. Keep(Pick(highlights, idx))
      BY <2>14 DEF RemoveHighlightsByRef, Where
    <3>2. idx \in SUBSET (DOMAIN highlights)
      OBVIOUS
    <3> HIDE DEF idx
    <3>3. QED BY <2>13, <3>1, <3>2
  <2>15. ASSUME NEW line, ClearLineHighlights(line) PROVE BufferTypeOK'
    <3> DEFINE idx == {k \in DOMAIN highlights : highlights[k].line # line}
    <3>1. Keep(Pick(highlights, idx))
      BY <2>15 DEF ClearLineHighlights, Where
    <3>2. idx \in SUBSET (DOMAIN highlights)
      OBVIOUS
    <3> HIDE DEF idx
    <3>3. QED BY <2>13, <3>1, <3>2
  <2>16. ASSUME ClearAllHighlights PROVE BufferTypeOK'
    <3>1. << >> \in Seq(Kept)
      BY EmptySeq
    <3>2. QED BY <2>12, <2>16, <3>1, Zenon DEF ClearAllHighlights
  <2>17. ASSUME NEW hl \in Highlights, NEW line \in Lines, AddHighlight(line, hl)
         PROVE  BufferTypeOK'
    <3>1. hl \in Ranges /\ line \in Nat /\ hl.start < hl.stop
      BY <2>17, BufferAssumption DEF AddHighlight
    <3>2. Highlight(line, hl, hl.start, hl.stop) \in Kept
      BY <3>1 DEF Highlight, Kept, Ranges
    <3>3. Append(highlights, Highlight(line, hl, hl.start, hl.stop)) \in Seq(Kept)
      BY <1>2, <3>2, AppendProperties, Zenon
    <3>4. QED BY <2>12, <2>17, <3>3 DEF AddHighlight
  <2>18. ASSUME NEW hl \in Highlights, AddHighlightByCharRange(hl) PROVE BufferTypeOK'
    <3>1. hl \in Ranges
      BY BufferAssumption
    <3>2. Pieces(hl) \in Seq(Kept)
      BY <1>2, <3>1, PiecesAre
    <3>3. highlights \o Pieces(hl) \in Seq(Kept)
      BY <1>2, <3>2, ConcatProperties, Zenon
    <3>4. QED BY <2>12, <2>18, <3>3 DEF AddHighlightByCharRange
  <2>19. CASE UNCHANGED bufferVars
    BY <1>2, <2>19 DEF bufferVars
  <2> HIDE DEF BufferTypeOK
  <2>20. CASE BufferNext
    <3>1. CASE \E t \in Texts : LoadFile(t) \/ RegisterMem(t) \/ AppendText(t)
      BY <2>1, <2>3, <2>4, <2>5, <3>1
    <3>2. CASE \E id \in 1..MaxSlots : \/ SetFromMem(id)
                                       \/ AppendFromMem(id)
                                       \/ \E t \in Texts : ReplaceMem(id, t)
      BY <2>6, <2>7, <2>8, <3>2
    <3>3. CASE \E hl \in Highlights : \/ AddHighlightByCharRange(hl)
                                      \/ RemoveHighlightsByRef(hl.ref)
                                      \/ \E line \in Lines : AddHighlight(line, hl)
      BY <2>14, <2>17, <2>18, <3>3
    <3>4. CASE \/ \E w \in TabWidths : SetTabWidth(w)
               \/ \E chunks \in StyledCalls : SetStyled(chunks)
               \/ \E line \in Lines : ClearLineHighlights(line)
      BY <2>10, <2>11, <2>15, <3>4
    <3>5. QED BY <2>9, <2>16, <2>20, <3>1, <3>2, <3>3, <3>4 DEF BufferNext
  <2>21. QED BY <1>2, <2>19, <2>20
<1>3. QED BY <1>1, <1>2, PTL DEF BufferSpec

\* Highlighting a range marks exactly the columns of the text in it, whatever
\* the text, its newlines and the range (AddHighlightByCharRange).
THEOREM RangesCovered == BufferSpec => []RangeCovered
<1>1. BufferTypeOK => RangeCovered
  BY RangeIsCovered DEF BufferTypeOK
<1>2. QED BY <1>1, BufferTypes, PTL

(***************************************************************************)
(* The runs of a line.                                                     *)
(***************************************************************************)
LEMMA MinIn ==
    ASSUME NEW S \in SUBSET Nat, S # {} PROVE Min(S) \in S /\ \A y \in S : Min(S) <= y
<1>1. PICK m \in S : \A y \in S : ~(<<y, m>> \in OpToRel(<, Nat))
  BY NatLessThanWellFounded, WFMin
<1>2. \A y \in S : m <= y
  <2>1. \A y \in S : y \in Nat /\ m \in Nat
    OBVIOUS
  <2>2. \A y \in S : ~(y < m)
    BY <1>1, <2>1 DEF OpToRel
  <2>3. QED BY <2>1, <2>2
<1>3. QED BY <1>2 DEF Min

\* Of some numbers, one is the greatest.
LEMMA GreatestOf ==
    ASSUME NEW n \in Nat \ {0}, NEW f \in [1..n -> Nat]
    PROVE  \E p \in 1..n : \A q \in 1..n : f[q] <= f[p]
<1> DEFINE S == {k \in 0..n : k > 0 => \E p \in 1..k : \A q \in 1..k : f[q] <= f[p]}
<1>1. 0 \in S
  OBVIOUS
<1>2. ASSUME NEW k \in 1..n, k - 1 \in S PROVE k \in S
  <2>1. \A q \in 1..n : f[q] \in Nat
    OBVIOUS
  <2>2. CASE k = 1
    BY <2>1, <2>2
  <2>3. CASE k # 1
    <3>1. PICK p \in 1..(k - 1) : \A q \in 1..(k - 1) : f[q] <= f[p]
      BY <1>2, <2>3
    <3>2. p \in 1..k /\ k \in 1..k /\ p \in 1..n /\ k \in 0..n
      BY <1>2
    <3>3. CASE f[k] <= f[p]
      BY <3>1, <3>2, <3>3, SMTT(20)
    <3>4. CASE ~(f[k] <= f[p])
      <4>1. \A q \in 1..k : f[q] <= f[k]
        <5>1. SUFFICES ASSUME NEW q \in 1..k PROVE f[q] <= f[k]
          OBVIOUS
        <5>2. q \in 1..n /\ (q = k \/ q \in 1..(k - 1))
          OBVIOUS
        <5>3. f[q] \in Nat /\ f[k] \in Nat /\ f[p] \in Nat
          BY <2>1, <3>2, <5>2
        <5>4. QED BY <3>1, <3>4, <5>2, <5>3
      <4>2. QED BY <3>2, <4>1
    <3>5. QED BY <3>3, <3>4
  <2>4. QED BY <2>2, <2>3
<1> HIDE DEF S
<1>3. \A k \in 0..n : k \in S
  BY <1>1, <1>2, Induction
<1>4. n \in 0..n /\ n > 0
  OBVIOUS
<1>5. QED BY <1>3, <1>4 DEF S

\* One highlight starts before another, in the order they become active in.
Earlier(hls, k, l) ==
    hls[k].start < hls[l].start \/ (hls[k].start = hls[l].start /\ k < l)

\* Of some highlights, k has the highest priority and is the first that has.
IsTop(hls, on, k) ==
    /\ k \in on
    /\ \A j \in on \ {k} :
         \/ hls[j].priority < hls[k].priority
         \/ hls[j].priority = hls[k].priority /\ Earlier(hls, k, j)

\* The active highlights, in that order.
InOrder(hls, active) ==
    /\ active \in Seq(1..Len(hls))
    /\ \A p, q \in 1..Len(active) : p < q => Earlier(hls, active[p], active[q])

LEMMA WinnerIsActive ==
    ASSUME NEW hls \in Seq(Kept), NEW active \in Seq(1..Len(hls)), active # << >>
    PROVE  \E p \in 1..Len(active) :
             /\ Winner(hls, active) = active[p]
             /\ \A q \in 1..Len(active) : hls[active[q]].priority <= hls[active[p]].priority
             /\ \A q \in 1..Len(active) :
                  hls[active[q]].priority = hls[active[p]].priority => p <= q
<1> DEFINE n == Len(active)
           f == [q \in 1..n |-> hls[active[q]].priority]
           best == {p \in 1..n : \A q \in 1..n : f[q] <= f[p]}
<1>1. n \in Nat \ {0} /\ DOMAIN active = 1..n
  BY EmptySeq, LenProperties
<1>2. ASSUME NEW q \in 1..n PROVE active[q] \in 1..Len(hls) /\ f[q] \in Nat
  <2>1. active[q] \in 1..Len(hls)
    BY ElementOfSeq
  <2>2. hls[active[q]] \in Kept
    BY <2>1, ElementOfSeq
  <2>3. QED BY <2>1, <2>2 DEF Kept
<1>3. f \in [1..n -> Nat]
  BY <1>2
<1>4. Winner(hls, active) = active[Min(best)]
  BY <1>1 DEF Winner
<1>5. \A q \in 1..n : f[q] = hls[active[q]].priority
  OBVIOUS
<1> HIDE DEF f, n
<1>6. best \in SUBSET Nat /\ best # {}
  <2>1. \E p \in 1..n : \A q \in 1..n : f[q] <= f[p]
    BY <1>1, <1>3, GreatestOf
  <2>2. QED BY <1>1, <2>1
<1> DEFINE p == Min(best)
<1>7. p \in best /\ \A q \in best : p <= q
  <2> HIDE DEF best
  <2>1. QED BY <1>6, MinIn
<1> HIDE DEF p
<1>8. \A q \in 1..n : f[q] <= f[p]
  BY <1>7
<1>9. \A q \in 1..n : f[q] = f[p] => p <= q
  <2>1. SUFFICES ASSUME NEW q \in 1..n, f[q] = f[p] PROVE q \in best
    BY <1>7
  <2>2. QED BY <1>8, <2>1
<1>10. p \in 1..n /\ Winner(hls, active) = active[p]
  BY <1>4, <1>7 DEF p
<1>11. QED BY <1>5, <1>8, <1>9, <1>10 DEF n

\* The winner of the active highlights is their top one.
LEMMA WinnerIsTop ==
    ASSUME NEW hls \in Seq(Kept), NEW active, InOrder(hls, active), active # << >>
    PROVE  IsTop(hls, Range(active), Winner(hls, active))
<1>1. active \in Seq(1..Len(hls))
  BY DEF InOrder
<1>2. PICK p \in 1..Len(active) :
        /\ Winner(hls, active) = active[p]
        /\ \A q \in 1..Len(active) : hls[active[q]].priority <= hls[active[p]].priority
        /\ \A q \in 1..Len(active) :
             hls[active[q]].priority = hls[active[p]].priority => p <= q
  BY <1>1, WinnerIsActive
<1>3. Len(active) \in Nat /\ DOMAIN active = 1..Len(active)
  BY <1>1, LenProperties
<1>4. \A q \in 1..Len(active) : hls[active[q]].priority \in Nat
  <2>1. SUFFICES ASSUME NEW q \in 1..Len(active) PROVE hls[active[q]].priority \in Nat
    OBVIOUS
  <2>2. active[q] \in 1..Len(hls)
    BY <1>1, ElementOfSeq
  <2>3. hls[active[q]] \in Kept
    BY <2>2, ElementOfSeq
  <2>4. QED BY <2>3 DEF Kept
<1>5. ASSUME NEW q \in 1..Len(active), active[q] # active[p]
      PROVE  \/ hls[active[q]].priority < hls[active[p]].priority
             \/ /\ hls[active[q]].priority = hls[active[p]].priority
                /\ Earlier(hls, active[p], active[q])
  <2>1. hls[active[q]].priority \in Nat /\ hls[active[p]].priority \in Nat
    BY <1>4
  <2>2. CASE hls[active[q]].priority = hls[active[p]].priority
    BY <1>2, <1>3, <1>5, <2>2 DEF InOrder
  <2>3. CASE hls[active[q]].priority # hls[active[p]].priority
    BY <1>2, <2>1, <2>3
  <2>4. QED BY <2>2, <2>3
<1>6. Range(active) = {active[q] : q \in 1..Len(active)}
  BY <1>3 DEF Range
<1>7. QED BY <1>2, <1>5, <1>6 DEF IsTop

\* There is only one top.
LEMMA OneTop ==
    ASSUME NEW hls \in Seq(Kept), NEW on \in SUBSET (1..Len(hls)), NEW k, NEW l,
           IsTop(hls, on, k), IsTop(hls, on, l)
    PROVE  k = l
<1>1. k \in 1..Len(hls) /\ l \in 1..Len(hls) /\ Len(hls) \in Nat
  BY LenProperties DEF IsTop
<1>2. hls[k] \in Kept /\ hls[l] \in Kept
  BY <1>1, ElementOfSeq
<1>3. /\ hls[k].priority \in Nat /\ hls[l].priority \in Nat
      /\ hls[k].start \in Nat /\ hls[l].start \in Nat
  BY <1>2 DEF Kept
<1>4. SUFFICES ASSUME k # l PROVE FALSE
  OBVIOUS
<1>5. \/ hls[l].priority < hls[k].priority
      \/ hls[l].priority = hls[k].priority /\ Earlier(hls, k, l)
  BY <1>4 DEF IsTop
<1>6. \/ hls[k].priority < hls[l].priority
      \/ hls[k].priority = hls[l].priority /\ Earlier(hls, l, k)
  BY <1>4 DEF IsTop
<1>7. Earlier(hls, k, l) /\ Earlier(hls, l, k)
  BY <1>3, <1>5, <1>6
<1>8. QED BY <1>1, <1>3, <1>7 DEF Earlier

\* The starts of some highlights, then their ends, and their order.
EventSet(hls) == [col : Nat, opens : {0, 1}, idx : 1..Len(hls)]

Ev(hls, i) ==
    IF i <= Len(hls) THEN [col |-> hls[i].start, opens |-> 1, idx |-> i]
    ELSE [col |-> hls[i - Len(hls)].stop, opens |-> 0, idx |-> i - Len(hls)]

Ordered(hls, ord) ==
    /\ ord \in [1..(2 * Len(hls)) -> 1..(2 * Len(hls))]
    /\ \A i \in 1..(2 * Len(hls)) : \E n \in 1..(2 * Len(hls)) : ord[n] = i
    /\ \A a, b \in 1..(2 * Len(hls)) : a < b => Precedes(Ev(hls, ord[a]), Ev(hls, ord[b]))
    /\ Events(hls) = [n \in 1..(2 * Len(hls)) |-> Ev(hls, ord[n])]

LEMMA EvType ==
    ASSUME NEW hls \in Seq(Kept), NEW i \in 1..(2 * Len(hls)) PROVE Ev(hls, i) \in EventSet(hls)
<1>1. Len(hls) \in Nat
  BY LenProperties
<1>2. CASE i <= Len(hls)
  <2>1. i \in 1..Len(hls)
    BY <1>1, <1>2
  <2>2. hls[i] \in Kept
    BY <2>1, ElementOfSeq
  <2>3. QED BY <1>2, <2>1, <2>2 DEF Ev, EventSet, Kept
<1>3. CASE ~(i <= Len(hls))
  <2>1. i - Len(hls) \in 1..Len(hls)
    BY <1>1, <1>3
  <2>2. hls[i - Len(hls)] \in Kept
    BY <2>1, ElementOfSeq
  <2>3. QED BY <1>3, <2>1, <2>2 DEF Ev, EventSet, Kept
<1>4. QED BY <1>2, <1>3

\* The order of the events is total.
LEMMA PrecedesOrders ==
    ASSUME NEW hls \in Seq(Kept), NEW i \in 1..(2 * Len(hls)), NEW j \in 1..(2 * Len(hls))
    PROVE  /\ ~Precedes(Ev(hls, i), Ev(hls, i))
           /\ i # j => Precedes(Ev(hls, i), Ev(hls, j)) \/ Precedes(Ev(hls, j), Ev(hls, i))
           /\ ~(Precedes(Ev(hls, i), Ev(hls, j)) /\ Precedes(Ev(hls, j), Ev(hls, i)))
           /\ \A k \in 1..(2 * Len(hls)) :
                Precedes(Ev(hls, i), Ev(hls, j)) /\ Precedes(Ev(hls, j), Ev(hls, k))
                  => Precedes(Ev(hls, i), Ev(hls, k))
<1> DEFINE E == [col : Nat, opens : {0, 1}, idx : Nat]
<1>1. Len(hls) \in Nat
  BY LenProperties
<1>2. \A k \in 1..(2 * Len(hls)) : Ev(hls, k) \in E
  <2>1. 1..Len(hls) \subseteq Nat
    BY <1>1
  <2>2. EventSet(hls) \subseteq E
    BY <2>1 DEF EventSet
  <2> HIDE DEF E
  <2>3. QED BY <2>2, EvType
<1>3. ASSUME NEW e \in E, NEW f \in E
      PROVE  /\ ~Precedes(e, e)
             /\ ~(Precedes(e, f) /\ Precedes(f, e))
             /\ Precedes(e, f) \/ Precedes(f, e) \/ (e.opens = f.opens /\ e.idx = f.idx)
  BY DEF Precedes
<1>4. ASSUME NEW e \in E, NEW f \in E, NEW g \in E, Precedes(e, f), Precedes(f, g)
      PROVE  Precedes(e, g)
  BY <1>4 DEF Precedes
<1>5. ASSUME i # j PROVE ~(Ev(hls, i).opens = Ev(hls, j).opens /\ Ev(hls, i).idx = Ev(hls, j).idx)
  BY <1>1, <1>5 DEF Ev
<1> HIDE DEF E
<1>6. QED BY <1>2, <1>3, <1>4, <1>5

LEMMA EventsInOrder == ASSUME NEW hls \in Seq(Kept) PROVE \E ord : Ordered(hls, ord)
<1> DEFINE m == Len(hls)
           n == 2 * m
           upTo(i) == {j \in 1..n : ~Precedes(Ev(hls, i), Ev(hls, j))}
           rank == [i \in 1..n |-> Cardinality(upTo(i))]
           starts == [k \in DOMAIN hls |-> [col |-> hls[k].start, opens |-> 1, idx |-> k]]
           stops == [k \in DOMAIN hls |-> [col |-> hls[k].stop, opens |-> 0, idx |-> k]]
<1>1. m \in Nat /\ n \in Nat /\ DOMAIN hls = 1..m
  BY LenProperties
<1>2. /\ starts \o stops \in Seq(EventSet(hls)) /\ Len(starts \o stops) = n
      /\ \A i \in 1..n : (starts \o stops)[i] = Ev(hls, i)
  <2>1. \A k \in 1..m : hls[k] \in Kept
    BY ElementOfSeq
  <2>2. \A k \in 1..m : /\ starts[k] \in EventSet(hls) /\ stops[k] \in EventSet(hls)
                        /\ starts[k] = [col |-> hls[k].start, opens |-> 1, idx |-> k]
                        /\ stops[k] = [col |-> hls[k].stop, opens |-> 0, idx |-> k]
    BY <1>1, <2>1 DEF EventSet, Kept
  <2>3. starts = [k \in 1..m |-> starts[k]] /\ stops = [k \in 1..m |-> stops[k]]
    BY <1>1
  <2> HIDE DEF starts, stops, m, n
  <2>4. starts \in [1..m -> EventSet(hls)] /\ stops \in [1..m -> EventSet(hls)]
    BY <2>2, <2>3
  <2>5. /\ starts \in Seq(EventSet(hls)) /\ Len(starts) = m
        /\ stops \in Seq(EventSet(hls)) /\ Len(stops) = m
    BY <1>1, <2>4, FunctionIsSeq
  <2>6. /\ starts \o stops \in Seq(EventSet(hls))
        /\ Len(starts \o stops) = Len(starts) + Len(stops)
        /\ \A i \in 1..(Len(starts) + Len(stops)) :
             (starts \o stops)[i] = IF i <= Len(starts) THEN starts[i] ELSE stops[i - Len(starts)]
    BY <2>5, ConcatProperties, Zenon
  <2>7. Len(starts) + Len(stops) = n
    BY <1>1, <2>5 DEF n
  <2>8. ASSUME NEW i \in 1..n PROVE (starts \o stops)[i] = Ev(hls, i)
    <3>1. (starts \o stops)[i] = IF i <= m THEN starts[i] ELSE stops[i - m]
      BY <2>5, <2>6, <2>7
    <3>2. CASE i <= m
      <4>1. i \in 1..m
        BY <1>1, <3>2 DEF n
      <4>2. QED BY <2>2, <3>1, <3>2, <4>1 DEF Ev, m
    <3>3. CASE ~(i <= m)
      <4>1. i - m \in 1..m
        BY <1>1, <3>3 DEF n
      <4>2. QED BY <2>2, <3>1, <3>3, <4>1 DEF Ev, m
    <3>4. QED BY <3>2, <3>3
  <2>9. QED BY <2>6, <2>7, <2>8
<1>3. DOMAIN (starts \o stops) = 1..n
  BY <1>2, LenProperties
<1> HIDE DEF starts, stops
<1>4. /\ \A i \in 1..n : ~Precedes(Ev(hls, i), Ev(hls, i))
      /\ \A i, j \in 1..n : i # j =>
           Precedes(Ev(hls, i), Ev(hls, j)) \/ Precedes(Ev(hls, j), Ev(hls, i))
      /\ \A i, j \in 1..n : ~(Precedes(Ev(hls, i), Ev(hls, j)) /\ Precedes(Ev(hls, j), Ev(hls, i)))
      /\ \A i, j, k \in 1..n : Precedes(Ev(hls, i), Ev(hls, j)) /\ Precedes(Ev(hls, j), Ev(hls, k))
                                 => Precedes(Ev(hls, i), Ev(hls, k))
  BY PrecedesOrders
<1> HIDE DEF m
<1>5. IsFiniteSet(1..n) /\ Cardinality(1..n) = n
  <2> HIDE DEF n
  <2>1. 1 \in Int /\ n \in Int
    BY <1>1
  <2>2. IsFiniteSet(1..n) /\ Cardinality(1..n) = IF 1 > n THEN 0 ELSE n - 1 + 1
    BY <2>1, FS_Interval, Zenon
  <2>3. QED BY <1>1, <2>2
<1> HIDE DEF n
<1>6. \A i \in 1..n : IsFiniteSet(upTo(i)) /\ Cardinality(upTo(i)) <= n
  <2>1. \A i \in 1..n : upTo(i) \in SUBSET (1..n)
    OBVIOUS
  <2> HIDE DEF upTo
  <2>2. QED BY <1>5, <2>1, FS_Subset, ZenonT(30)
<1>7. ASSUME NEW i \in 1..n PROVE rank[i] \in 1..n
  <2>1. i \in upTo(i)
    BY <1>4
  <2>2. rank[i] = Cardinality(upTo(i))
    OBVIOUS
  <2> HIDE DEF upTo, rank
  <2>3. Cardinality(upTo(i)) \in Nat
    BY <1>6, FS_CardinalityType
  <2>4. Cardinality(upTo(i)) # 0
    BY <1>6, <2>1, FS_EmptySet
  <2>5. QED BY <1>1, <1>6, <2>2, <2>3, <2>4
<1>8. ASSUME NEW i \in 1..n, NEW j \in 1..n, Precedes(Ev(hls, i), Ev(hls, j))
      PROVE  rank[i] < rank[j]
  <2>1. upTo(i) \in SUBSET upTo(j)
    <3>1. SUFFICES ASSUME NEW k \in 1..n, ~Precedes(Ev(hls, i), Ev(hls, k)),
                          Precedes(Ev(hls, j), Ev(hls, k))
                   PROVE  FALSE
      OBVIOUS
    <3>2. QED BY <1>4, <1>8, <3>1
  <2>2. j \in upTo(j) /\ j \notin upTo(i)
    BY <1>4, <1>8
  <2>3. rank[i] = Cardinality(upTo(i)) /\ rank[j] = Cardinality(upTo(j))
    OBVIOUS
  <2>4. rank[i] \in 1..n /\ rank[j] \in 1..n
    BY <1>7
  <2> HIDE DEF upTo, rank
  <2>5. /\ Cardinality(upTo(i)) <= Cardinality(upTo(j))
        /\ Cardinality(upTo(j)) # Cardinality(upTo(i))
    BY <1>6, <2>1, <2>2, FS_Subset
  <2>6. QED BY <1>1, <2>3, <2>4, <2>5
<1>9. rank \in [1..n -> 1..n] /\ \A i \in 1..n : rank[i] = Cardinality(upTo(i))
  BY <1>7
<1> HIDE DEF rank, upTo
<1>10. \A i, j \in 1..n : rank[i] = rank[j] => i = j
  <2>1. SUFFICES ASSUME NEW i \in 1..n, NEW j \in 1..n, rank[i] = rank[j], i # j PROVE FALSE
    OBVIOUS
  <2>2. rank[i] < rank[j] \/ rank[j] < rank[i]
    BY <1>4, <1>8, <2>1
  <2>3. rank[i] \in 1..n /\ rank[j] \in 1..n
    BY <1>9
  <2>4. QED BY <1>1, <2>1, <2>2, <2>3
<1>11. \A p \in 1..n : \E i \in 1..n : rank[i] = p
  <2>1. rank \in Injection(1..n, 1..n)
    BY <1>9, <1>10 DEF Injection, IsInjective
  <2>2. rank \in Surjection(1..n, 1..n)
    BY <1>5, <2>1, FS_Injection
  <2>3. QED BY <2>2 DEF Surjection
<1> DEFINE to(p) == CHOOSE i \in 1..n : Cardinality(upTo(i)) = p
           ord == [p \in 1..n |-> to(p)]
<1>12. \A p \in 1..n : to(p) \in 1..n /\ rank[to(p)] = p
  BY <1>9, <1>11
<1>13. Events(hls) = [p \in 1..n |-> Ev(hls, to(p))]
  <2> DEFINE all == starts \o stops
             below(i) == {j \in DOMAIN all : ~Precedes(all[i], all[j])}
             at(p) == CHOOSE i \in DOMAIN all : Cardinality(below(i)) = p
  <2> HIDE DEF to
  <2>1. Events(hls) = [p \in DOMAIN all |-> all[at(p)]]
    BY DEF Events, starts, stops
  <2>2. DOMAIN all = 1..n /\ \A i \in 1..n : all[i] = Ev(hls, i)
    BY <1>2, <1>3
  <2> HIDE DEF all
  <2>3. \A i \in 1..n : below(i) = upTo(i)
    BY <2>2 DEF upTo
  <2> HIDE DEF below
  <2>4. \A p \in 1..n : at(p) = to(p)
    BY <2>2, <2>3 DEF to
  <2> HIDE DEF at
  <2>5. QED BY <1>12, <2>1, <2>2, <2>4
<1> HIDE DEF to
<1>14. ord \in [1..n -> 1..n] /\ \A p \in 1..n : ord[p] = to(p)
  BY <1>12
<1> HIDE DEF ord
<1>15. \A i \in 1..n : \E p \in 1..n : ord[p] = i
  <2>1. SUFFICES ASSUME NEW i \in 1..n PROVE \E p \in 1..n : ord[p] = i
    OBVIOUS
  <2>2. rank[i] \in 1..n
    BY <1>9
  <2>3. to(rank[i]) \in 1..n /\ rank[to(rank[i])] = rank[i]
    BY <1>12, <2>2
  <2>4. to(rank[i]) = i
    BY <1>10, <2>3
  <2>5. QED BY <1>14, <2>2, <2>4
<1>16. ASSUME NEW a \in 1..n, NEW b \in 1..n, a < b
       PROVE  Precedes(Ev(hls, ord[a]), Ev(hls, ord[b]))
  <2>1. ord[a] \in 1..n /\ ord[b] \in 1..n /\ rank[ord[a]] = a /\ rank[ord[b]] = b
    BY <1>12, <1>14
  <2>2. a # b
    BY <1>1, <1>16
  <2>3. CASE Precedes(Ev(hls, ord[b]), Ev(hls, ord[a]))
    BY <1>1, <1>8, <1>16, <2>1, <2>3
  <2>4. ord[a] # ord[b]
    BY <2>1, <2>2
  <2>5. QED BY <1>4, <2>1, <2>3, <2>4
<1>17. Events(hls) = [p \in 1..n |-> Ev(hls, ord[p])]
  BY <1>13, <1>14
<1>18. Ordered(hls, ord)
  BY <1>14, <1>15, <1>16, <1>17 DEF Ordered, n, m
<1>19. QED BY <1>18

\* The sweep over them: its state, and what a step of it does.
Run == [from : Nat, to : Nat, style : Nat]
Sweeping(hls) == [col : Nat, runs : Seq(Run), active : Seq(1..Len(hls))]
NothingSwept == [col |-> 0, runs |-> <<>>, active |-> <<>>]

LEMMA MaxOfTwo ==
    ASSUME NEW a \in Nat, NEW b \in Nat PROVE Max({a, b}) = IF a >= b THEN a ELSE b
<1>1. {a, b} \in SUBSET Int
  OBVIOUS
<1>2. CASE a >= b
  BY <1>1, <1>2, MaxIs
<1>3. CASE ~(a >= b)
  BY <1>1, <1>3, MaxIs
<1>4. QED BY <1>2, <1>3

\* The active highlights but one that ends.
Without(active, k) == Pick(active, {p \in DOMAIN active : active[p] # k})

LEMMA SweepIs ==
    ASSUME NEW hls \in Seq(Kept), NEW acc \in Sweeping(hls), NEW e \in EventSet(hls)
    PROVE  /\ Sweep(hls, acc, e) \in Sweeping(hls)
           /\ Sweep(hls, acc, e).col = IF e.col >= acc.col THEN e.col ELSE acc.col
           /\ Sweep(hls, acc, e).active
                = IF e.opens = 1 THEN Append(acc.active, e.idx) ELSE Without(acc.active, e.idx)
           /\ IF e.col > acc.col /\ acc.active # << >>
              THEN LET run == [from |-> acc.col, to |-> e.col,
                               style |-> hls[Winner(hls, acc.active)].style]
                   IN run \in Run /\ Sweep(hls, acc, e).runs = Append(acc.runs, run)
              ELSE Sweep(hls, acc, e).runs = acc.runs
<1> DEFINE run == [from |-> acc.col, to |-> e.col, style |-> hls[Winner(hls, acc.active)].style]
           runs == IF e.col > acc.col /\ acc.active # << >> THEN Append(acc.runs, run) ELSE acc.runs
           active == IF e.opens = 1 THEN Append(acc.active, e.idx) ELSE Without(acc.active, e.idx)
           col == IF e.col >= acc.col THEN e.col ELSE acc.col
<1>1. /\ acc.col \in Nat /\ acc.runs \in Seq(Run) /\ acc.active \in Seq(1..Len(hls))
      /\ e.col \in Nat /\ e.idx \in 1..Len(hls)
  BY DEF Sweeping, EventSet
<1>2. Max({e.col, acc.col}) = col
  BY <1>1, MaxOfTwo
<1>3. Sweep(hls, acc, e) = [col |-> Max({e.col, acc.col}), runs |-> runs, active |-> active]
  BY DEF Sweep, Where, Without
<1>4. ASSUME acc.active # << >> PROVE run \in Run
  <2>1. PICK p \in 1..Len(acc.active) : Winner(hls, acc.active) = acc.active[p]
    BY <1>1, <1>4, WinnerIsActive
  <2>2. acc.active[p] \in 1..Len(hls)
    BY <1>1, ElementOfSeq
  <2>3. hls[Winner(hls, acc.active)] \in Kept
    BY <2>1, <2>2, ElementOfSeq
  <2>4. QED BY <1>1, <2>3 DEF Run, Kept
<1> HIDE DEF run
<1>5. runs \in Seq(Run)
  <2>1. CASE e.col > acc.col /\ acc.active # << >>
    <3>1. Append(acc.runs, run) \in Seq(Run)
      BY <1>1, <1>4, <2>1, AppendProperties, Zenon
    <3>2. QED BY <2>1, <3>1
  <2>2. CASE ~(e.col > acc.col /\ acc.active # << >>)
    BY <1>1, <2>2
  <2>3. QED BY <2>1, <2>2
<1>6. active \in Seq(1..Len(hls))
  <2> DEFINE S == 1..Len(hls)
             act == acc.active
             idx == {p \in DOMAIN act : act[p] # e.idx}
  <2>1. act \in Seq(S) /\ e.idx \in S
    BY <1>1
  <2> HIDE DEF S, act
  <2>2. Append(act, e.idx) \in Seq(S)
    BY <2>1, AppendProperties, Zenon
  <2>3. idx \in SUBSET (1..Len(act))
    BY <2>1, LenProperties
  <2> HIDE DEF idx
  <2>4. Pick(act, idx) \in Seq(S)
    BY <2>1, <2>3, PickIsSeq
  <2>5. Without(acc.active, e.idx) \in Seq(S)
    BY <2>4 DEF Without, idx, act
  <2>6. QED BY <2>2, <2>5 DEF S, act
<1>7. col \in Nat
  BY <1>1
<1> HIDE DEF runs, active, col
<1>8. Sweep(hls, acc, e) = [col |-> col, runs |-> runs, active |-> active]
  BY <1>2, <1>3
<1>9. /\ Sweep(hls, acc, e) \in Sweeping(hls)
      /\ Sweep(hls, acc, e).col = col
      /\ Sweep(hls, acc, e).runs = runs
      /\ Sweep(hls, acc, e).active = active
  BY <1>5, <1>6, <1>7, <1>8 DEF Sweeping
<1>10. IF e.col > acc.col /\ acc.active # << >>
       THEN run \in Run /\ runs = Append(acc.runs, run) ELSE runs = acc.runs
  BY <1>4 DEF runs
<1>11. QED BY <1>9, <1>10 DEF run, active, col

SweepFold(hls) ==
    FoldLeft(LAMBDA acc, e : Sweep(hls, acc, e), NothingSwept, Events(hls))

SweepTrace(acc, hls) ==
    /\ acc \in [0..(2 * Len(hls)) -> Sweeping(hls)]
    /\ acc[0] = NothingSwept
    /\ \A i \in 1..(2 * Len(hls)) : acc[i] = Sweep(hls, acc[i - 1], Events(hls)[i])
    /\ acc[(2 * Len(hls))] = SweepFold(hls)

LEMMA SweepFolds ==
    ASSUME NEW hls \in Seq(Kept)
    PROVE  \E acc : SweepTrace(acc, hls)
<1> DEFINE N == (2 * Len(hls))
           zero == NothingSwept
           fold == SweepFold(hls)
           Is(it) == it = [x \in SUBSET (DOMAIN Events(hls)) |->
                             IF x = {} THEN zero
                             ELSE LET y == Max(x) IN Sweep(hls, it[x \ {y}], Events(hls)[y])]
           it == CHOOSE it : Is(it)
           step == [i \in 1..N |-> [a \in Sweeping(hls) |-> Sweep(hls, a, Events(hls)[i])]]
<1>1. DOMAIN Events(hls) = 1..N /\ N \in Nat /\ zero \in Sweeping(hls)
  <2>1. PICK ord : Ordered(hls, ord)
    BY EventsInOrder
  <2>2. Len(hls) \in Nat
    BY LenProperties
  <2>3. << >> \in Seq(Run) /\ << >> \in Seq(1..Len(hls))
    BY EmptySeq
  <2>4. NothingSwept \in Sweeping(hls)
    BY <2>3 DEF NothingSwept, Sweeping
  <2>5. DOMAIN Events(hls) = 1..(2 * Len(hls))
    BY <2>1 DEF Ordered
  <2>6. QED BY <2>2, <2>4, <2>5
<1>2. fold = it[1..N]
  BY <1>1 DEF SweepFold, FoldLeft, MapThenFoldSet
<1>3. \A i \in 1..N, a \in Sweeping(hls) : Sweep(hls, a, Events(hls)[i]) \in Sweeping(hls)
  <2>1. PICK ord : Ordered(hls, ord)
    BY EventsInOrder
  <2>2. ASSUME NEW i \in 1..N PROVE Events(hls)[i] \in EventSet(hls)
    BY <2>1, EvType DEF Ordered
  <2>3. QED BY <2>2, SweepIs
<1> HIDE DEF N, zero, fold
<1>4. step \in [1..N -> [Sweeping(hls) -> Sweeping(hls)]]
  BY <1>3
<1>5. \A i \in 1..N, a \in Sweeping(hls) : step[i][a] = Sweep(hls, a, Events(hls)[i])
  OBVIOUS
<1> HIDE DEF step
<1>6. \E f : Is(f)
  <2> HIDE DEF Is, it
  <2>1. PICK f \in [SUBSET (1..N) -> Sweeping(hls)] : IsFold(f, N, zero, step)
    BY <1>1, <1>4, FoldExists
  <2>2. \A x \in SUBSET (1..N) : x # {} => Max(x) \in 1..N
    BY <1>1, MaxIn
  <2>3. \A x \in SUBSET (1..N) :
          (IF x = {} THEN zero ELSE step[Max(x)][f[x \ {Max(x)}]])
            = IF x = {} THEN zero ELSE Sweep(hls, f[x \ {Max(x)}], Events(hls)[Max(x)])
    BY <1>5, <2>1, <2>2, ZenonT(30)
  <2>4. f = [x \in SUBSET (1..N) |->
               IF x = {} THEN zero ELSE Sweep(hls, f[x \ {Max(x)}], Events(hls)[Max(x)])]
    BY <2>1, <2>3, ZenonT(30) DEF IsFold
  <2>5. QED BY <1>1, <2>4 DEF Is
<1>7. Is(it)
  BY <1>6, ZenonT(30)
<1> HIDE DEF it
<1>8. it[{}] = zero
  BY <1>7
<1>9. \A i \in 1..N : it[1..(i - 1)] \in Sweeping(hls) => it[1..i] = step[i][it[1..(i - 1)]]
  <2>1. SUFFICES ASSUME NEW i \in 1..N, it[1..(i - 1)] \in Sweeping(hls)
                 PROVE  it[1..i] = step[i][it[1..(i - 1)]]
    OBVIOUS
  <2>2. 1..i \in SUBSET (DOMAIN Events(hls)) /\ i \in Nat \ {0}
    BY <1>1
  <2>3. it[1..i] = IF 1..i = {} THEN zero
                   ELSE Sweep(hls, it[(1..i) \ {Max(1..i)}], Events(hls)[Max(1..i)])
    BY <1>7, <2>2, Zenon
  <2>4. it[1..i] = Sweep(hls, it[1..(i - 1)], Events(hls)[i])
    BY <2>2, <2>3, MaxOfInterval, Zenon
  <2>5. QED BY <1>5, <2>1, <2>4
<1> HIDE DEF Is
<1>10. PICK acc : IsTrace(acc, N, Sweeping(hls), zero, step, it[1..N])
  BY <1>1, <1>4, <1>8, <1>9, FoldTrace DEF Computes
<1>11. \A i \in 1..N : acc[i] = Sweep(hls, acc[i - 1], Events(hls)[i])
  BY <1>1, <1>5, <1>10 DEF IsTrace
<1>12. /\ acc \in [0..N -> Sweeping(hls)]
       /\ acc[0] = zero
       /\ \A i \in 1..N : acc[i] = Sweep(hls, acc[i - 1], Events(hls)[i])
       /\ acc[N] = fold
  BY <1>2, <1>10, <1>11 DEF IsTrace
<1>13. QED BY <1>12, Zenon DEF N, zero, fold, SweepTrace

\* The events of the first i places, and the highlights open after them.
Done(ord, i) == {ord[j] : j \in 1..i}
Open(hls, ord, i) ==
    {k \in 1..Len(hls) : k \in Done(ord, i) /\ k + Len(hls) \notin Done(ord, i)}

LEMMA DonePrecede ==
    ASSUME NEW hls \in Seq(Kept), NEW ord, Ordered(hls, ord), NEW i \in 0..(2 * Len(hls)),
           NEW j \in Done(ord, i), NEW l \in 1..(2 * Len(hls)), l \notin Done(ord, i)
    PROVE  /\ j \in 1..(2 * Len(hls))
           /\ Precedes(Ev(hls, j), Ev(hls, l))
           /\ Ev(hls, j).col <= Ev(hls, l).col
<1>1. Len(hls) \in Nat
  BY LenProperties
<1>2. PICK a \in 1..i : ord[a] = j
  BY DEF Done
<1>3. PICK b \in 1..(2 * Len(hls)) : ord[b] = l
  BY DEF Ordered
<1>4. b \notin 1..i
  BY <1>3 DEF Done
<1>5. a < b /\ a \in 1..(2 * Len(hls))
  BY <1>1, <1>2, <1>4
<1>6. j \in 1..(2 * Len(hls)) /\ Precedes(Ev(hls, j), Ev(hls, l))
  BY <1>2, <1>3, <1>5 DEF Ordered
<1>7. Ev(hls, j) \in EventSet(hls) /\ Ev(hls, l) \in EventSet(hls)
  BY <1>6, EvType
<1>8. Ev(hls, j).col <= Ev(hls, l).col
  BY <1>6, <1>7 DEF Precedes, EventSet
<1>9. QED BY <1>6, <1>8

\* The next event: it is new, and no later than any other to come.
LEMMA NextEvent ==
    ASSUME NEW hls \in Seq(Kept), NEW ord, Ordered(hls, ord), NEW i \in 1..(2 * Len(hls))
    PROVE  /\ ord[i] \in 1..(2 * Len(hls)) /\ ord[i] \notin Done(ord, i - 1)
           /\ Done(ord, i) = Done(ord, i - 1) \union {ord[i]}
           /\ \A l \in 1..(2 * Len(hls)) :
                l \notin Done(ord, i - 1) => Ev(hls, ord[i]).col <= Ev(hls, l).col
<1>1. Len(hls) \in Nat
  BY LenProperties
<1>2. ord[i] \in 1..(2 * Len(hls))
  BY DEF Ordered
<1>3. \A j \in 1..(i - 1) : ord[j] # ord[i]
  <2>1. SUFFICES ASSUME NEW j \in 1..(i - 1), ord[j] = ord[i] PROVE FALSE
    OBVIOUS
  <2>2. j \in 1..(2 * Len(hls)) /\ j < i
    BY <1>1
  <2>3. Precedes(Ev(hls, ord[j]), Ev(hls, ord[i]))
    BY <2>2 DEF Ordered
  <2>4. QED BY <1>2, <2>1, <2>3, PrecedesOrders
<1>4. Done(ord, i) = Done(ord, i - 1) \union {ord[i]}
  BY <1>1 DEF Done
<1>5. ASSUME NEW l \in 1..(2 * Len(hls)), l \notin Done(ord, i - 1)
      PROVE  Ev(hls, ord[i]).col <= Ev(hls, l).col
  <2>1. CASE l = ord[i]
    BY <2>1, EvType DEF EventSet
  <2>2. CASE l # ord[i]
    BY <1>1, <1>4, <1>5, <2>2, DonePrecede
  <2>3. QED BY <2>1, <2>2
<1>6. QED BY <1>2, <1>3, <1>4, <1>5 DEF Done

\* A highlight starts before it ends.
LEMMA StartsFirst ==
    ASSUME NEW hls \in Seq(Kept), NEW ord, Ordered(hls, ord), NEW i \in 0..(2 * Len(hls)),
           NEW k \in 1..Len(hls), k + Len(hls) \in Done(ord, i)
    PROVE  k \in Done(ord, i)
<1>1. Len(hls) \in Nat
  BY LenProperties
<1>2. k \in 1..(2 * Len(hls)) /\ k + Len(hls) \in 1..(2 * Len(hls))
  BY <1>1
<1>3. hls[k] \in Kept
  BY ElementOfSeq
<1>4. Ev(hls, k).col = hls[k].start /\ Ev(hls, k + Len(hls)).col = hls[k].stop
  BY <1>1 DEF Ev
<1>5. hls[k].start < hls[k].stop /\ hls[k].start \in Nat /\ hls[k].stop \in Nat
  BY <1>3 DEF Kept
<1>6. SUFFICES ASSUME k \notin Done(ord, i) PROVE FALSE
  OBVIOUS
<1>7. Ev(hls, k + Len(hls)).col <= Ev(hls, k).col
  BY <1>2, <1>6, DonePrecede
<1>8. QED BY <1>4, <1>5, <1>7

\* The highlights over a column, and that the runs colour it as they should.
Over(hls, c) == {k \in 1..Len(hls) : hls[k].start <= c /\ c < hls[k].stop}

StylesAt(runs, c) ==
    {runs[r].style : r \in {j \in DOMAIN runs : runs[j].from <= c /\ c < runs[j].to}}

Coloured(hls, runs, c) ==
    IF Over(hls, c) = {} THEN StylesAt(runs, c) = {}
    ELSE \E k : IsTop(hls, Over(hls, c), k) /\ StylesAt(runs, c) = {hls[k].style}

\* The sweep after i events.
OpenOK(hls, ord, i, acc) ==
    InOrder(hls, acc.active) /\ Range(acc.active) = Open(hls, ord, i)

ColumnOK(hls, ord, i, acc) ==
    /\ \A j \in Done(ord, i) : Ev(hls, j).col <= acc.col
    /\ \A l \in 1..(2 * Len(hls)) : l \notin Done(ord, i) => acc.col <= Ev(hls, l).col

RunsOK(hls, acc) ==
    /\ \A r \in 1..Len(acc.runs) : acc.runs[r].to <= acc.col
    /\ \A r \in 1..(Len(acc.runs) - 1) : acc.runs[r].to <= acc.runs[r + 1].from
    /\ \A c \in Nat : c < acc.col => Coloured(hls, acc.runs, c)

SweptOK(hls, ord, i, acc) ==
    /\ acc \in Sweeping(hls)
    /\ OpenOK(hls, ord, i, acc) /\ ColumnOK(hls, ord, i, acc) /\ RunsOK(hls, acc)

\* Between two events the open highlights are those over a column.
LEMMA OpenAreOver ==
    ASSUME NEW hls \in Seq(Kept), NEW ord, Ordered(hls, ord), NEW i \in 0..(2 * Len(hls)),
           NEW lo \in Nat, NEW c \in Nat, lo <= c,
           \A j \in Done(ord, i) : Ev(hls, j).col <= lo,
           \A l \in 1..(2 * Len(hls)) : l \notin Done(ord, i) => c < Ev(hls, l).col
    PROVE  Open(hls, ord, i) = Over(hls, c)
<1>1. Len(hls) \in Nat
  BY LenProperties
<1>2. ASSUME NEW k \in 1..Len(hls) PROVE k \in Open(hls, ord, i) <=> k \in Over(hls, c)
  <2>1. k \in 1..(2 * Len(hls)) /\ k + Len(hls) \in 1..(2 * Len(hls))
    BY <1>1
  <2>2. hls[k] \in Kept
    BY ElementOfSeq
  <2>3. Ev(hls, k).col = hls[k].start /\ Ev(hls, k + Len(hls)).col = hls[k].stop
    BY <1>1 DEF Ev
  <2>4. hls[k].start \in Nat /\ hls[k].stop \in Nat
    BY <2>2 DEF Kept
  <2>5. k \in Done(ord, i) => hls[k].start <= c
    BY <2>3, <2>4
  <2>6. k \notin Done(ord, i) => c < hls[k].start
    BY <2>1, <2>3
  <2>7. k + Len(hls) \in Done(ord, i) => hls[k].stop <= c
    BY <2>3, <2>4
  <2>8. k + Len(hls) \notin Done(ord, i) => c < hls[k].stop
    BY <2>1, <2>3
  <2>9. QED BY <2>4, <2>5, <2>6, <2>7, <2>8 DEF Open, Over
<1>3. QED BY <1>2 DEF Open, Over

\* An event opens its highlight after those already open, or closes it.
LEMMA SweepOpens ==
    ASSUME NEW hls \in Seq(Kept), NEW ord, Ordered(hls, ord), NEW i \in 1..(2 * Len(hls)),
           NEW acc \in Sweeping(hls), OpenOK(hls, ord, i - 1, acc)
    PROVE  OpenOK(hls, ord, i, Sweep(hls, acc, Ev(hls, ord[i])))
<1> DEFINE m == Len(hls)
           l == ord[i]
           e == Ev(hls, l)
           act == acc.active
           new == Sweep(hls, acc, e).active
<1>1. m \in Nat
  BY LenProperties
<1>2. /\ l \in 1..(2 * m) /\ l \notin Done(ord, i - 1)
      /\ Done(ord, i) = Done(ord, i - 1) \union {l}
  BY NextEvent
<1>3. e \in EventSet(hls)
  BY <1>2, EvType
<1>4. new = IF e.opens = 1 THEN Append(act, e.idx) ELSE Without(act, e.idx)
  BY <1>3, SweepIs
<1>5. /\ act \in Seq(1..m) /\ Len(act) \in Nat /\ DOMAIN act = 1..Len(act)
      /\ \A p, q \in 1..Len(act) : p < q => Earlier(hls, act[p], act[q])
      /\ Range(act) = Open(hls, ord, i - 1)
      /\ Range(act) = {act[p] : p \in 1..Len(act)}
  BY LenProperties DEF Sweeping, OpenOK, InOrder, Range
<1>6. i - 1 \in 0..(2 * m) /\ i \in 0..(2 * m)
  BY <1>1
<1>7. CASE l <= m
  <2>1. e = [col |-> hls[l].start, opens |-> 1, idx |-> l] /\ l \in 1..m
    BY <1>1, <1>2, <1>7 DEF Ev
  <2>2. new = Append(act, l)
    BY <1>4, <2>1
  <2>3. ASSUME NEW k \in Range(act) PROVE Earlier(hls, k, l)
    <3>1. k \in 1..m /\ k \in Done(ord, i - 1)
      BY <1>5 DEF Open
    <3>2. Precedes(Ev(hls, k), e)
      BY <1>2, <1>6, <3>1, DonePrecede
    <3>3. Ev(hls, k) = [col |-> hls[k].start, opens |-> 1, idx |-> k]
      BY <1>1, <3>1 DEF Ev
    <3> HIDE DEF e
    <3>4. QED BY <2>1, <3>2, <3>3 DEF Precedes, Earlier
  <2> HIDE DEF act, new, l, e
  <2>4. /\ new \in Seq(1..m) /\ Len(new) = Len(act) + 1
        /\ \A p \in 1..Len(act) : new[p] = act[p]
        /\ new[Len(act) + 1] = l
    <3> DEFINE S == 1..m
    <3>1. act \in Seq(S) /\ l \in S
      BY <1>5, <2>1
    <3> HIDE DEF S
    <3>2. /\ new \in Seq(S) /\ Len(new) = Len(act) + 1
          /\ \A p \in 1..Len(act) : new[p] = act[p]
          /\ new[Len(act) + 1] = l
      BY <2>2, <3>1, AppendProperties
    <3>3. QED BY <3>2 DEF S
  <2>5. ASSUME NEW p \in 1..Len(new), NEW q \in 1..Len(new), p < q
        PROVE  Earlier(hls, new[p], new[q])
    <3>1. p \in 1..Len(act) /\ new[p] = act[p]
      BY <1>5, <2>4, <2>5, SMTT(30)
    <3>2. CASE q \in 1..Len(act)
      BY <1>5, <2>4, <2>5, <3>1, <3>2
    <3>3. CASE q = Len(act) + 1
      BY <1>5, <2>3, <2>4, <3>1, <3>3
    <3>4. QED BY <1>5, <2>4, <3>2, <3>3
  <2>6. Range(new) = Range(act) \union {l}
    <3>1. DOMAIN new = 1..(Len(act) + 1)
      BY <2>4, LenProperties
    <3>2. 1..(Len(act) + 1) = (1..Len(act)) \union {Len(act) + 1}
      BY <1>5
    <3>3. Range(new) = {new[p] : p \in 1..Len(act)} \union {new[Len(act) + 1]}
      BY <3>1, <3>2 DEF Range
    <3>4. {new[p] : p \in 1..Len(act)} = {act[p] : p \in 1..Len(act)}
      BY <2>4
    <3>5. QED BY <1>5, <2>4, <3>3, <3>4
  <2>7. Open(hls, ord, i) = Open(hls, ord, i - 1) \union {l}
    <3>1. l + m \notin Done(ord, i - 1)
      BY <1>2, <1>6, <2>1, StartsFirst DEF m
    <3>2. \A k \in 1..m : k + m # l
      BY <1>1, <1>7, <2>1
    <3>3. l + m # l
      BY <1>1, <2>1
    <3> HIDE DEF m
    <3>4. \A k \in 1..m : k \in Open(hls, ord, i) <=> k \in Open(hls, ord, i - 1) \/ k = l
      BY <1>2, <2>1, <3>1, <3>2, <3>3 DEF Open, m
    <3>5. QED BY <2>1, <3>4 DEF Open, m
  <2>8. QED BY <1>5, <2>4, <2>5, <2>6, <2>7 DEF OpenOK, InOrder, new, e, l, m
<1>8. CASE ~(l <= m)
  <2> DEFINE k == l - m
  <2>1. e = [col |-> hls[k].stop, opens |-> 0, idx |-> k] /\ k \in 1..m /\ l = k + m
    BY <1>1, <1>2, <1>8 DEF Ev
  <2> HIDE DEF k
  <2>2. new = Without(act, k)
    BY <1>4, <2>1
  <2> DEFINE idx == {p \in DOMAIN act : act[p] # k}
             is == Sorted(idx)
             n == Cardinality(idx)
  <2> HIDE DEF act, new, l, e
  <2>3. idx \in SUBSET (1..Len(act)) /\ idx \in SUBSET Nat
    BY <1>5
  <2>4. new = Pick(act, idx)
    BY <2>2 DEF Without
  <2> HIDE DEF idx
  <2>5. /\ IsFiniteSet(idx)
        /\ Pick(act, idx) \in Seq(1..m)
        /\ Len(Pick(act, idx)) = n
        /\ \A p \in 1..n : Pick(act, idx)[p] = act[is[p]]
    <3> DEFINE S == 1..m
    <3>1. act \in Seq(S)
      BY <1>5
    <3> HIDE DEF S
    <3>2. /\ IsFiniteSet(idx)
          /\ Pick(act, idx) \in Seq(S)
          /\ Len(Pick(act, idx)) = n
          /\ \A p \in 1..n : Pick(act, idx)[p] = act[is[p]]
      BY <2>3, <3>1, PickIsSeq
    <3>3. QED BY <3>2 DEF S
  <2>6. /\ n \in Nat /\ is \in [1..n -> idx]
        /\ \A p, q \in 1..n : p < q => is[p] < is[q]
        /\ \A p \in idx : \E j \in 1..n : is[j] = p
    BY <2>3, <2>5, SortedSet
  <2> HIDE DEF is, n
  <2>7. new \in Seq(1..m) /\ Len(new) = n /\ \A p \in 1..n : new[p] = act[is[p]]
    BY <2>4, <2>5
  <2>8. ASSUME NEW p \in 1..n, NEW q \in 1..n, p < q PROVE Earlier(hls, new[p], new[q])
    <3>1. is[p] \in 1..Len(act) /\ is[q] \in 1..Len(act) /\ is[p] < is[q]
      BY <2>3, <2>6, <2>8
    <3>2. QED BY <1>5, <2>7, <3>1
  <2>9. Range(new) = Range(act) \ {k}
    <3>1. DOMAIN new = 1..n
      BY <2>7, LenProperties
    <3>2. Range(new) = {act[is[p]] : p \in 1..n}
      BY <2>7, <3>1, ZenonT(30) DEF Range
    <3>3. {act[is[p]] : p \in 1..n} = {act[p] : p \in idx}
      BY <2>6
    <3>4. {act[p] : p \in idx} = Range(act) \ {k}
      BY <1>5 DEF Range, idx
    <3>5. QED BY <3>2, <3>3, <3>4
  <2>10. Open(hls, ord, i) = Open(hls, ord, i - 1) \ {k}
    <3>1. \A j \in 1..m : j # l
      BY <1>1, <1>8
    <3>2. \A j \in 1..m : j + m = l <=> j = k
      BY <1>1, <2>1
    <3> HIDE DEF m
    <3>3. \A j \in 1..m : j \in Open(hls, ord, i) <=> j \in Open(hls, ord, i - 1) /\ j # k
      BY <1>2, <2>1, <3>1, <3>2 DEF Open, m
    <3>4. QED BY <3>3 DEF Open, m
  <2>11. QED BY <1>5, <2>7, <2>8, <2>9, <2>10 DEF OpenOK, InOrder, new, e, l, m
<1>9. QED BY <1>7, <1>8

\* The column reached is that of the event.
LEMMA SweepAdvances ==
    ASSUME NEW hls \in Seq(Kept), NEW ord, Ordered(hls, ord), NEW i \in 1..(2 * Len(hls)),
           NEW acc \in Sweeping(hls), ColumnOK(hls, ord, i - 1, acc)
    PROVE  /\ Sweep(hls, acc, Ev(hls, ord[i])).col = Ev(hls, ord[i]).col
           /\ acc.col <= Ev(hls, ord[i]).col
           /\ ColumnOK(hls, ord, i, Sweep(hls, acc, Ev(hls, ord[i])))
<1> DEFINE l == ord[i]
           e == Ev(hls, l)
<1>1. Len(hls) \in Nat
  BY LenProperties
<1>2. /\ l \in 1..(2 * Len(hls)) /\ l \notin Done(ord, i - 1)
      /\ Done(ord, i) = Done(ord, i - 1) \union {l}
      /\ \A k \in 1..(2 * Len(hls)) : k \notin Done(ord, i - 1) => e.col <= Ev(hls, k).col
  BY NextEvent
<1>3. e \in EventSet(hls) /\ e.col \in Nat /\ acc.col \in Nat
  BY <1>2, EvType DEF EventSet, Sweeping
<1>4. acc.col <= e.col
  BY <1>2 DEF ColumnOK
<1>5. Sweep(hls, acc, e).col = e.col
  BY <1>3, <1>4, SweepIs
<1>6. ASSUME NEW j \in Done(ord, i) PROVE Ev(hls, j).col <= e.col
  <2>1. CASE j = l
    BY <1>3, <2>1
  <2>2. CASE j \in Done(ord, i - 1)
    BY <1>1, <1>2, <2>2, DonePrecede
  <2>3. QED BY <1>2, <2>1, <2>2
<1>7. QED BY <1>2, <1>4, <1>5, <1>6 DEF ColumnOK

\* The style a further run gives, and the columns past every run.
LEMMA StylesOfAppend ==
    ASSUME NEW runs \in Seq(Run), NEW run \in Run, NEW c \in Nat
    PROVE  StylesAt(Append(runs, run), c)
             = IF run.from <= c /\ c < run.to THEN StylesAt(runs, c) \union {run.style}
               ELSE StylesAt(runs, c)
<1> DEFINE n == Len(runs)
           new == Append(runs, run)
           on == {j \in 1..n : runs[j].from <= c /\ c < runs[j].to}
           onNew == {j \in 1..(n + 1) : new[j].from <= c /\ c < new[j].to}
<1>1. n \in Nat /\ DOMAIN runs = 1..n
  BY LenProperties
<1>2. /\ DOMAIN new = 1..(n + 1) /\ new[n + 1] = run
      /\ \A j \in 1..n : new[j] = runs[j]
  BY AppendProperties, LenProperties
<1>3. StylesAt(runs, c) = {runs[r].style : r \in on}
  BY <1>1 DEF StylesAt
<1>4. StylesAt(new, c) = {new[r].style : r \in onNew}
  BY <1>2 DEF StylesAt
<1> HIDE DEF new
<1>5. onNew = IF run.from <= c /\ c < run.to THEN on \union {n + 1} ELSE on
  BY <1>1, <1>2
<1>6. {new[r].style : r \in on} = {runs[r].style : r \in on}
  BY <1>2
<1>7. CASE run.from <= c /\ c < run.to
  <2>1. onNew = on \union {n + 1}
    BY <1>5, <1>7
  <2> HIDE DEF on, onNew
  <2>2. {new[r].style : r \in onNew} = {new[r].style : r \in on} \union {new[n + 1].style}
    BY <2>1
  <2>3. QED BY <1>2, <1>3, <1>4, <1>6, <1>7, <2>2 DEF new
<1>8. CASE ~(run.from <= c /\ c < run.to)
  <2>1. onNew = on
    BY <1>5, <1>8
  <2> HIDE DEF on, onNew
  <2>2. QED BY <1>3, <1>4, <1>6, <1>8, <2>1 DEF new
<1>9. QED BY <1>7, <1>8

LEMMA PastTheRuns ==
    ASSUME NEW runs \in Seq(Run), NEW lo \in Nat, NEW c \in Nat, lo <= c,
           \A r \in 1..Len(runs) : runs[r].to <= lo
    PROVE  StylesAt(runs, c) = {}
<1>1. Len(runs) \in Nat /\ DOMAIN runs = 1..Len(runs)
  BY LenProperties
<1>2. ASSUME NEW r \in 1..Len(runs) PROVE ~(c < runs[r].to)
  <2>1. runs[r] \in Run
    BY ElementOfSeq
  <2>2. runs[r].to \in Nat
    BY <2>1 DEF Run
  <2>3. QED BY <2>2
<1>3. QED BY <1>1, <1>2 DEF StylesAt

\* From the column reached to that of the next event, the active highlights
\* are those over the column.
LEMMA ActiveAreOver ==
    ASSUME NEW hls \in Seq(Kept), NEW ord, Ordered(hls, ord), NEW i \in 1..(2 * Len(hls)),
           NEW acc, SweptOK(hls, ord, i - 1, acc),
           NEW c \in Nat, acc.col <= c, c < Ev(hls, ord[i]).col
    PROVE  Over(hls, c) = Range(acc.active)
<1> DEFINE l == ord[i]
           lo == acc.col
           j == i - 1
<1>1. Len(hls) \in Nat /\ lo \in Nat
  BY LenProperties DEF SweptOK, Sweeping
<1>2. /\ l \in 1..(2 * Len(hls))
      /\ \A k \in 1..(2 * Len(hls)) : k \notin Done(ord, j) => Ev(hls, l).col <= Ev(hls, k).col
  BY NextEvent
<1>3. ASSUME NEW k \in 1..(2 * Len(hls)), k \notin Done(ord, j) PROVE c < Ev(hls, k).col
  BY <1>2, <1>3, EvType DEF EventSet
<1>4. j \in 0..(2 * Len(hls)) /\ lo <= c
  BY <1>1
<1>5. \A k \in Done(ord, j) : Ev(hls, k).col <= lo
  BY DEF SweptOK, ColumnOK
<1>6. Range(acc.active) = Open(hls, ord, j)
  BY DEF SweptOK, OpenOK
<1> HIDE DEF lo, j
<1>7. Open(hls, ord, j) = Over(hls, c)
  BY <1>1, <1>3, <1>4, <1>5, OpenAreOver
<1>8. QED BY <1>6, <1>7

LEMMA SweepRuns ==
    ASSUME NEW hls \in Seq(Kept), NEW ord, Ordered(hls, ord), NEW i \in 1..(2 * Len(hls)),
           NEW acc, SweptOK(hls, ord, i - 1, acc)
    PROVE  RunsOK(hls, Sweep(hls, acc, Ev(hls, ord[i])))
<1> DEFINE e == Ev(hls, ord[i])
           new == Sweep(hls, acc, e)
           lo == acc.col
           hi == e.col
           runs == acc.runs
           act == acc.active
<1>1. /\ acc \in Sweeping(hls) /\ lo \in Nat /\ runs \in Seq(Run)
      /\ act \in Seq(1..Len(hls)) /\ InOrder(hls, act)
  BY DEF SweptOK, OpenOK, Sweeping
<1>2. /\ \A r \in 1..Len(runs) : runs[r].to <= lo
      /\ \A r \in 1..(Len(runs) - 1) : runs[r].to <= runs[r + 1].from
      /\ \A c \in Nat : c < lo => Coloured(hls, runs, c)
  BY DEF SweptOK, RunsOK
<1>3. ord[i] \in 1..(2 * Len(hls))
  BY NextEvent
<1>4. e \in EventSet(hls) /\ hi \in Nat
  BY <1>3, EvType DEF EventSet
<1>5. new.col = hi /\ lo <= hi
  BY <1>1, SweepAdvances DEF SweptOK
<1>6. ASSUME NEW c \in Nat, lo <= c, c < hi PROVE Over(hls, c) = Range(act)
  BY <1>6, ActiveAreOver
<1>7. ASSUME NEW c \in Nat, lo <= c PROVE StylesAt(runs, c) = {}
  <2> HIDE DEF lo, runs
  <2>1. QED BY <1>1, <1>2, <1>7, PastTheRuns
<1>8. ASSUME NEW r \in 1..Len(runs) PROVE runs[r].to <= hi /\ runs[r].to \in Nat
  <2>1. runs[r] \in Run
    BY <1>1, ElementOfSeq
  <2>2. runs[r].to \in Nat /\ runs[r].to <= lo
    BY <1>2, <2>1 DEF Run
  <2> HIDE DEF lo, hi, runs
  <2>3. QED BY <1>1, <1>4, <1>5, <2>2
<1>9. CASE hi > lo /\ act # << >>
  <2> DEFINE w == Winner(hls, act)
             run == [from |-> lo, to |-> hi, style |-> hls[w].style]
             n == Len(runs)
  <2>1. run \in Run /\ new.runs = Append(runs, run)
    BY <1>1, <1>4, <1>9, SweepIs
  <2>2. IsTop(hls, Range(act), w)
    BY <1>1, <1>9, WinnerIsTop
  <2> HIDE DEF new, runs, act, lo, hi, w, e
  <2>3. run.from = lo /\ run.to = hi /\ run.style = hls[w].style
    OBVIOUS
  <2>4. n \in Nat
    BY <1>1, LenProperties
  <2> HIDE DEF run
  <2>5. /\ Len(new.runs) = n + 1 /\ new.runs[n + 1] = run
        /\ \A r \in 1..n : new.runs[r] = runs[r]
    BY <1>1, <2>1, AppendProperties
  <2>6. ASSUME NEW r \in 1..Len(new.runs) PROVE new.runs[r].to <= hi
    <3>1. CASE r \in 1..n
      BY <1>8, <2>5, <3>1
    <3>2. CASE r = n + 1
      BY <1>4, <2>3, <2>5, <3>2
    <3>3. QED BY <2>4, <2>5, <3>1, <3>2
  <2>7. ASSUME NEW r \in 1..(Len(new.runs) - 1) PROVE new.runs[r].to <= new.runs[r + 1].from
    <3>1. r \in 1..n /\ new.runs[r] = runs[r]
      BY <2>4, <2>5
    <3>2. CASE r = n
      BY <1>2, <2>3, <2>5, <3>1, <3>2
    <3>3. CASE r # n
      <4> HIDE DEF n
      <4>1. r \in 1..(n - 1) /\ r + 1 \in 1..n
        BY <2>4, <3>1, <3>3
      <4>2. QED BY <1>2, <2>5, <3>1, <4>1 DEF n
    <3>4. QED BY <3>2, <3>3
  <2>8. ASSUME NEW c \in Nat, c < hi PROVE Coloured(hls, new.runs, c)
    <3>1. StylesAt(new.runs, c) = IF run.from <= c /\ c < run.to
                                  THEN StylesAt(runs, c) \union {run.style}
                                  ELSE StylesAt(runs, c)
      BY <1>1, <2>1, StylesOfAppend
    <3>2. CASE c < lo
      <4>1. StylesAt(new.runs, c) = StylesAt(runs, c)
        BY <1>1, <2>3, <3>1, <3>2
      <4>2. QED BY <1>2, <3>2, <4>1 DEF Coloured
    <3>3. CASE lo <= c
      BY <1>6, <1>7, <2>2, <2>3, <2>8, <3>1, <3>3 DEF IsTop, Coloured
    <3>4. QED BY <1>1, <3>2, <3>3
  <2>9. QED BY <1>5, <2>6, <2>7, <2>8 DEF RunsOK, new, e
<1>10. CASE ~(hi > lo /\ act # << >>)
  <2>1. new.runs = runs
    BY <1>1, <1>4, <1>10, SweepIs
  <2> HIDE DEF new, runs, act, lo, hi, e
  <2>2. ASSUME NEW c \in Nat, c < hi PROVE Coloured(hls, new.runs, c)
    <3>1. CASE c < lo
      BY <1>2, <2>1, <3>1
    <3>2. CASE lo <= c
      BY <1>1, <1>4, <1>6, <1>7, <1>10, <2>1, <2>2, <3>2 DEF Range, Coloured
    <3>3. QED BY <1>1, <3>1, <3>2
  <2>3. QED BY <1>2, <1>5, <1>8, <2>1, <2>2 DEF RunsOK, new, e
<1>11. QED BY <1>9, <1>10

\* The invariant of the sweep: it holds before the first event, and each
\* event keeps it.
LEMMA SweepStarts ==
    ASSUME NEW hls \in Seq(Kept), NEW ord, Ordered(hls, ord)
    PROVE  SweptOK(hls, ord, 0, NothingSwept)
<1> DEFINE m == Len(hls)
<1>1. m \in Nat
  BY LenProperties
<1>2. NothingSwept \in Sweeping(hls)
  BY DEF NothingSwept, Sweeping
<1>3. NothingSwept.col = 0 /\ NothingSwept.runs = << >> /\ NothingSwept.active = << >>
  BY DEF NothingSwept
<1>4. Done(ord, 0) = {}
  BY DEF Done
<1>5. OpenOK(hls, ord, 0, NothingSwept)
  BY <1>3, <1>4 DEF Open, OpenOK, InOrder, Range
<1>6. ColumnOK(hls, ord, 0, NothingSwept)
  <2>1. ASSUME NEW l \in 1..(2 * m) PROVE 0 <= Ev(hls, l).col
    BY EvType DEF EventSet
  <2>2. QED BY <1>3, <1>4, <2>1 DEF ColumnOK
<1>7. RunsOK(hls, NothingSwept)
  BY <1>3 DEF RunsOK
<1>8. QED BY <1>2, <1>5, <1>6, <1>7 DEF SweptOK

LEMMA SweepStep ==
    ASSUME NEW hls \in Seq(Kept), NEW ord, Ordered(hls, ord), NEW i \in 1..(2 * Len(hls)),
           NEW acc, SweptOK(hls, ord, i - 1, acc)
    PROVE  SweptOK(hls, ord, i, Sweep(hls, acc, Ev(hls, ord[i])))
<1>1. /\ acc \in Sweeping(hls)
      /\ OpenOK(hls, ord, i - 1, acc) /\ ColumnOK(hls, ord, i - 1, acc)
  BY DEF SweptOK
<1>2. Ev(hls, ord[i]) \in EventSet(hls)
  BY NextEvent, EvType
<1>3. Sweep(hls, acc, Ev(hls, ord[i])) \in Sweeping(hls)
  BY <1>1, <1>2, SweepIs
<1>4. QED BY <1>1, <1>3, SweepOpens, SweepAdvances, SweepRuns DEF SweptOK

\* The runs of a finished sweep are in order, and colour every column.
SweptRight(hls) ==
    /\ \A r \in 1..(Len(SweepFold(hls).runs) - 1) :
         SweepFold(hls).runs[r].to <= SweepFold(hls).runs[r + 1].from
    /\ \A c \in Nat : Coloured(hls, SweepFold(hls).runs, c)
    /\ SweepFold(hls).runs \in Seq(Run)

LEMMA SweepEnds ==
    ASSUME NEW hls \in Seq(Kept), NEW ord, Ordered(hls, ord), NEW acc,
           SweptOK(hls, ord, 2 * Len(hls), acc), acc = SweepFold(hls)
    PROVE  SweptRight(hls)
<1> DEFINE m == Len(hls)
           lo == acc.col
           runs == acc.runs
<1>1. m \in Nat /\ lo \in Nat /\ runs \in Seq(Run)
  BY LenProperties DEF SweptOK, Sweeping
<1>2. /\ \A r \in 1..Len(runs) : runs[r].to <= lo
      /\ \A r \in 1..(Len(runs) - 1) : runs[r].to <= runs[r + 1].from
      /\ \A c \in Nat : c < lo => Coloured(hls, runs, c)
  BY DEF SweptOK, RunsOK
<1>3. ASSUME NEW l \in 1..(2 * m) PROVE Ev(hls, l).col <= lo
  BY DEF Ordered, Done, SweptOK, ColumnOK
<1>4. ASSUME NEW c \in Nat, lo <= c PROVE Coloured(hls, runs, c)
  <2>1. Over(hls, c) = {}
    <3>1. SUFFICES ASSUME NEW k \in 1..m PROVE ~(c < hls[k].stop)
      BY DEF Over
    <3>2. k + m \in 1..(2 * m) /\ ~(k + m <= m) /\ (k + m) - m = k
      BY <1>1
    <3>3. Ev(hls, k + m).col = hls[k].stop
      BY <3>2 DEF Ev
    <3>4. hls[k] \in Kept
      BY ElementOfSeq
    <3>5. hls[k].stop \in Nat
      BY <3>4 DEF Kept
    <3>6. hls[k].stop <= lo
      BY <1>3, <3>2, <3>3
    <3>7. QED BY <1>1, <1>4, <3>5, <3>6
  <2> HIDE DEF lo, runs
  <2>2. StylesAt(runs, c) = {}
    BY <1>1, <1>2, <1>4, PastTheRuns
  <2>3. QED BY <2>1, <2>2 DEF Coloured
<1>5. \A c \in Nat : Coloured(hls, runs, c)
  BY <1>1, <1>2, <1>4
<1>6. QED BY <1>1, <1>2, <1>5 DEF SweptRight

LEMMA SweepIsRight == ASSUME NEW hls \in Seq(Kept) PROVE SweptRight(hls)
<1> DEFINE n == 2 * Len(hls)
<1>1. Len(hls) \in Nat /\ n \in Nat
  BY LenProperties
<1>2. PICK ord : Ordered(hls, ord)
  BY EventsInOrder
<1>3. PICK acc : SweepTrace(acc, hls)
  BY SweepFolds
<1> DEFINE S == {k \in 0..n : SweptOK(hls, ord, k, acc[k])}
<1>4. 0 \in S
  BY <1>1, <1>2, <1>3, SweepStarts DEF SweepTrace
<1>5. ASSUME NEW k \in 1..n, k - 1 \in S PROVE k \in S
  <2>1. Events(hls)[k] = Ev(hls, ord[k])
    BY <1>2 DEF Ordered
  <2>2. acc[k] = Sweep(hls, acc[k - 1], Ev(hls, ord[k]))
    BY <1>3, <2>1 DEF SweepTrace
  <2>3. SweptOK(hls, ord, k - 1, acc[k - 1])
    BY <1>5
  <2>4. SweptOK(hls, ord, k, acc[k])
    BY <1>2, <2>2, <2>3, SweepStep
  <2>5. QED BY <1>1, <2>4
<1> HIDE DEF S, n
<1>6. \A k \in 0..n : k \in S
  BY <1>1, <1>4, <1>5, Induction
<1>7. n \in S
  BY <1>1, <1>6
<1>8. SweptOK(hls, ord, n, acc[n])
  BY <1>7 DEF S
<1>9. acc[n] = SweepFold(hls)
  BY <1>3 DEF SweepTrace, n
<1>10. QED BY <1>2, <1>8, <1>9, SweepEnds DEF n

\* The highlights of a line are some of those kept.
LEMMA LineHighlightsType ==
    ASSUME BufferTypeOK, NEW line PROVE LineHighlights(line) \in Seq(Kept)
<1> DEFINE idx == {k \in DOMAIN highlights : highlights[k].line = line}
<1>1. highlights \in Seq(Kept) /\ idx \in SUBSET (1..Len(highlights))
  BY LenProperties DEF BufferTypeOK
<1>2. LineHighlights(line) = Pick(highlights, idx)
  BY DEF LineHighlights, Where
<1> HIDE DEF idx
<1>3. QED BY <1>1, <1>2, PickIsSeq

\* The rightmost column of some is a column.
LEMMA RightmostIsNat ==
    ASSUME NEW hls \in Seq(Kept)
    PROVE  Max({hls[k].stop : k \in DOMAIN hls} \union {0}) \in Nat
<1> DEFINE n == Len(hls)
           f == [k \in 1..n |-> hls[k].stop]
           S == {hls[k].stop : k \in DOMAIN hls} \union {0}
<1>1. n \in Nat /\ DOMAIN hls = 1..n
  BY LenProperties
<1>2. f \in [1..n -> Nat]
  <2>1. ASSUME NEW k \in 1..n PROVE hls[k].stop \in Nat
    BY ElementOfSeq DEF Kept
  <2>2. QED BY <2>1
<1>3. S = {f[k] : k \in 1..n} \union {0}
  BY <1>1
<1>4. S \in SUBSET Int
  BY <1>2, <1>3
<1>5. \E m \in S : m \in Nat /\ \A y \in S : m >= y
  <2> HIDE DEF f, S
  <2>1. CASE n = 0
    BY <1>3, <2>1
  <2>2. CASE n # 0
    <3>1. n \in Nat \ {0}
      BY <1>1, <2>2
    <3> HIDE DEF n
    <3>2. PICK p \in 1..n : \A q \in 1..n : f[q] <= f[p]
      BY <1>2, <3>1, GreatestOf
    <3>3. f[p] \in Nat /\ f[p] \in S
      BY <1>2, <1>3
    <3>4. \A y \in S : f[p] >= y
      BY <1>2, <1>3, <3>2, <3>3
    <3>5. QED BY <3>3, <3>4
  <2>3. QED BY <2>1, <2>2
<1> HIDE DEF S
<1>6. Max(S) \in Nat
  BY <1>4, <1>5, MaxIs
<1>7. QED BY <1>6 DEF S

\* What the property says of a line.
LEMMA LineIsSwept ==
    ASSUME BufferTypeOK, NEW line, NEW col \in Nat
    PROVE  /\ \A k \in 1..(Len(BuildLineSpans(line)) - 1) :
                BuildLineSpans(line)[k].to <= BuildLineSpans(line)[k + 1].from
           /\ StylesAt(BuildLineSpans(line), col)
                = IF Covering(line, col) = {} THEN {}
                  ELSE {LineHighlights(line)[Top(line, col)].style}
<1> DEFINE hls == LineHighlights(line)
           runs == BuildLineSpans(line)
           on == Covering(line, col)
           w == Top(line, col)
<1>1. hls \in Seq(Kept)
  BY LineHighlightsType
<1>2. runs = SweepFold(hls).runs
  BY DEF BuildLineSpans, SweepFold, NothingSwept
<1>3. on = Over(hls, col)
  BY <1>1, LenProperties DEF Covering, Over
<1>4. w = CHOOSE k \in on : IsTop(hls, on, k)
  <2>1. \A k \in on : IsTop(hls, on, k) <=>
          \A j \in on \ {k} :
            \/ hls[j].priority < hls[k].priority
            \/ /\ hls[j].priority = hls[k].priority
               /\ hls[k].start < hls[j].start \/ (hls[k].start = hls[j].start /\ k < j)
    BY DEF IsTop, Earlier
  <2> HIDE DEF hls, on
  <2>2. w = CHOOSE k \in on :
          \A j \in on \ {k} :
            \/ hls[j].priority < hls[k].priority
            \/ /\ hls[j].priority = hls[k].priority
               /\ hls[k].start < hls[j].start \/ (hls[k].start = hls[j].start /\ k < j)
    BY DEF Top, hls, on
  <2>3. QED BY <2>1, <2>2
<1> HIDE DEF hls, runs, on, w
<1>5. SweptRight(hls)
  BY <1>1, SweepIsRight
<1>6. Coloured(hls, runs, col)
  BY <1>2, <1>5 DEF SweptRight
<1>7. StylesAt(runs, col) = IF on = {} THEN {} ELSE {hls[w].style}
  <2>1. CASE on = {}
    BY <1>3, <1>6, <2>1 DEF Coloured
  <2>2. CASE on # {}
    <3>1. PICK k : IsTop(hls, on, k) /\ StylesAt(runs, col) = {hls[k].style}
      BY <1>3, <1>6, <2>2 DEF Coloured
    <3>2. k \in on
      BY <3>1 DEF IsTop
    <3>3. IsTop(hls, on, w)
      BY <1>4, <3>1, <3>2
    <3>4. on \in SUBSET (1..Len(hls))
      BY <1>3 DEF Over
    <3>5. w = k
      BY <1>1, <3>1, <3>3, <3>4, OneTop
    <3>6. QED BY <2>2, <3>1, <3>5
  <2>3. QED BY <2>1, <2>2
<1>8. \A k \in 1..(Len(runs) - 1) : runs[k].to <= runs[k + 1].from
  BY <1>2, <1>5 DEF SweptRight
<1>9. QED BY <1>7, <1>8 DEF hls, runs, on, w

\* In every behaviour of the buffer the runs of a line (BuildLineSpans) are
\* in order and give each column the style of the highlight that must colour
\* it: the one of the highest priority over it and, of those, the first to start.
THEOREM SpansPrioritised == BufferSpec => []SpansByPriority
<1>1. BufferTypeOK => SpansByPriority
  <2>1. SUFFICES ASSUME BufferTypeOK PROVE SpansByPriority
    OBVIOUS
  <2>2. ASSUME NEW line, NEW col \in Nat
        PROVE  /\ \A k \in 1..(Len(BuildLineSpans(line)) - 1) :
                    BuildLineSpans(line)[k].to <= BuildLineSpans(line)[k + 1].from
               /\ StylesAt(BuildLineSpans(line), col)
                    = IF Covering(line, col) = {} THEN {}
                      ELSE {LineHighlights(line)[Top(line, col)].style}
    BY <2>1, LineIsSwept
  <2>3. \A line :
          Max({LineHighlights(line)[k].stop : k \in DOMAIN LineHighlights(line)} \union {0})
            \in Nat
    BY <2>1, LineHighlightsType, RightmostIsNat
  <2>4. \A line :
          \A col \in 0..Max({LineHighlights(line)[k].stop : k \in DOMAIN LineHighlights(line)}
                              \union {0}) : col \in Nat
    BY <2>3
  <2>5. ASSUME NEW line, NEW k \in 1..(Len(BuildLineSpans(line)) - 1)
        PROVE  BuildLineSpans(line)[k].to <= BuildLineSpans(line)[k + 1].from
    BY <2>2
  <2>6. ASSUME NEW line,
               NEW col \in 0..Max({LineHighlights(line)[k].stop : k \in DOMAIN LineHighlights(line)}
                                    \union {0})
        PROVE  {BuildLineSpans(line)[k].style :
                  k \in {j \in DOMAIN BuildLineSpans(line) :
                          BuildLineSpans(line)[j].from <= col /\ col < BuildLineSpans(line)[j].to}}
                 = IF Covering(line, col) = {} THEN {}
                   ELSE {LineHighlights(line)[Top(line, col)].style}
    <3>1. col \in Nat
      BY <2>4
    <3>2. QED BY <2>2, <3>1, Zenon DEF StylesAt
  <2>7. QED BY <2>5, <2>6, Zenon DEF SpansByPriority
<1>2. QED BY <1>1, BufferTypes, PTL

(***************************************************************************)
(* The cells of a line and the columns they start at.                      *)
(***************************************************************************)
Cell == [at : Nat, len : Nat, width : Nat]
Broad == {c \in Cell : c.width > 0}
Gathered == [cells : Seq(Broad), joins : BOOLEAN]

LEMMA BroadAreCells == ASSUME NEW cells \in Seq(Broad) PROVE cells \in Seq(Cell)
<1>1. Broad \subseteq Cell
  BY DEF Broad, Cell
<1>2. \A i \in 1..Len(cells) : cells[i] \in Cell
  BY <1>1, ElementOfSeq
<1>3. cells \in [1..Len(cells) -> Cell] /\ Len(cells) \in Nat
  BY <1>2, LenProperties
<1>4. QED BY <1>3, FunctionIsSeq

LEMMA NextClusterType ==
    ASSUME NEW c, NEW acc \in Gathered, NEW i \in Nat
    PROVE  NextCluster(c, acc, i) \in Gathered
<1> DEFINE cells == acc.cells
           n == Len(cells)
           last == cells[n]
           widens == ~acc.joins /\ c[i] = "vs16" /\ last.width = 1
           one == [last EXCEPT !.len = @ + 1, !.width = IF widens THEN 2 ELSE @]
           fresh == [at |-> i, len |-> 1, width |-> IF c[i] \in Wide THEN 2 ELSE 1]
           folded == cells # <<>> /\ (acc.joins \/ c[i] \in Extenders \union {"zwj"})
<1>1. cells \in Seq(Broad) /\ acc.joins \in BOOLEAN
  BY DEF Gathered
<1>2. NextCluster(c, acc, i)
        = IF folded
          THEN [cells |-> [cells EXCEPT ![n] = one], joins |-> ~acc.joins /\ c[i] = "zwj"]
          ELSE [cells |-> Append(cells, fresh), joins |-> FALSE]
  BY DEF NextCluster
<1>3. fresh \in Broad
  BY DEF Broad, Cell
<1>4. Append(cells, fresh) \in Seq(Broad)
  <2> HIDE DEF fresh, cells
  <2>1. QED BY <1>1, <1>3, AppendProperties
<1>5. CASE cells # <<>>
  <2>1. n \in 1..Len(cells)
    BY <1>1, <1>5, EmptySeq
  <2>2. last \in Broad
    BY <1>1, <2>1, ElementOfSeq
  <2>3. one \in Broad
    <3> HIDE DEF last, widens
    <3>1. last \in [at : Nat, len : Nat, width : Nat] /\ last.width > 0
      BY <2>2 DEF Broad, Cell
    <3>2. /\ last.len + 1 \in Nat
          /\ (IF widens THEN 2 ELSE last.width) \in Nat
          /\ (IF widens THEN 2 ELSE last.width) > 0
      BY <3>1
    <3>3. one \in [at : Nat, len : Nat, width : Nat] /\ one.width > 0
      BY <3>1, <3>2
    <3> HIDE DEF one
    <3>4. QED BY <3>3 DEF Broad, Cell
  <2> HIDE DEF one, cells, n
  <2>4. [cells EXCEPT ![n] = one] \in Seq(Broad)
    BY <1>1, <2>1, <2>3, ExceptSeq DEF n
  <2>5. QED BY <1>2, <1>4, <2>4 DEF Gathered
<1>6. CASE cells = <<>>
  BY <1>2, <1>4, <1>6 DEF Gathered
<1>7. QED BY <1>5, <1>6

\* The places from..to, and the clusters of none of them.
Places(from, to) == [k \in 1..(to - from + 1) |-> from + k - 1]
NothingGathered == [cells |-> <<>>, joins |-> FALSE]

ClustersFold(c, from, to) ==
    FoldLeft(LAMBDA acc, i : NextCluster(c, acc, i), NothingGathered, Places(from, to))

ClustersTrace(acc, c, from, to) ==
    /\ acc \in [0..(to - from + 1) -> Gathered]
    /\ acc[0] = NothingGathered
    /\ \A i \in 1..(to - from + 1) : acc[i] = NextCluster(c, acc[i - 1], Places(from, to)[i])
    /\ acc[(to - from + 1)] = ClustersFold(c, from, to)

LEMMA ClustersFolds ==
    ASSUME NEW c,
           NEW from \in Nat,
           NEW to \in Nat,
           from <= to + 1
    PROVE  \E acc : ClustersTrace(acc, c, from, to)
<1> DEFINE N == (to - from + 1)
           zero == NothingGathered
           fold == ClustersFold(c, from, to)
           Is(it) == it = [x \in SUBSET (DOMAIN Places(from, to)) |->
                             IF x = {} THEN zero
                             ELSE LET y == Max(x) IN NextCluster(c, it[x \ {y}], Places(from, to)[y])]
           it == CHOOSE it : Is(it)
           step == [i \in 1..N |-> [a \in Gathered |-> NextCluster(c, a, Places(from, to)[i])]]
<1>1. DOMAIN Places(from, to) = 1..N /\ N \in Nat /\ zero \in Gathered
  BY DEF Places, NothingGathered, Gathered
<1>2. fold = it[1..N]
  BY <1>1 DEF ClustersFold, FoldLeft, MapThenFoldSet
<1>3. \A i \in 1..N, a \in Gathered : NextCluster(c, a, Places(from, to)[i]) \in Gathered
  BY <1>1, NextClusterType DEF Places
<1> HIDE DEF N, zero, fold
<1>4. step \in [1..N -> [Gathered -> Gathered]]
  BY <1>3
<1>5. \A i \in 1..N, a \in Gathered : step[i][a] = NextCluster(c, a, Places(from, to)[i])
  OBVIOUS
<1> HIDE DEF step
<1>6. \E f : Is(f)
  <2> HIDE DEF Is, it
  <2>1. PICK f \in [SUBSET (1..N) -> Gathered] : IsFold(f, N, zero, step)
    BY <1>1, <1>4, FoldExists
  <2>2. \A x \in SUBSET (1..N) : x # {} => Max(x) \in 1..N
    BY <1>1, MaxIn
  <2>3. \A x \in SUBSET (1..N) :
          (IF x = {} THEN zero ELSE step[Max(x)][f[x \ {Max(x)}]])
            = IF x = {} THEN zero ELSE NextCluster(c, f[x \ {Max(x)}], Places(from, to)[Max(x)])
    BY <1>5, <2>1, <2>2, ZenonT(30)
  <2>4. f = [x \in SUBSET (1..N) |->
               IF x = {} THEN zero ELSE NextCluster(c, f[x \ {Max(x)}], Places(from, to)[Max(x)])]
    BY <2>1, <2>3, ZenonT(30) DEF IsFold
  <2>5. QED BY <1>1, <2>4 DEF Is
<1>7. Is(it)
  BY <1>6, ZenonT(30)
<1> HIDE DEF it
<1>8. it[{}] = zero
  BY <1>7
<1>9. \A i \in 1..N : it[1..(i - 1)] \in Gathered => it[1..i] = step[i][it[1..(i - 1)]]
  <2>1. SUFFICES ASSUME NEW i \in 1..N, it[1..(i - 1)] \in Gathered
                 PROVE  it[1..i] = step[i][it[1..(i - 1)]]
    OBVIOUS
  <2>2. 1..i \in SUBSET (DOMAIN Places(from, to)) /\ i \in Nat \ {0}
    BY <1>1
  <2>3. it[1..i] = IF 1..i = {} THEN zero
                   ELSE NextCluster(c, it[(1..i) \ {Max(1..i)}], Places(from, to)[Max(1..i)])
    BY <1>7, <2>2, Zenon
  <2>4. it[1..i] = NextCluster(c, it[1..(i - 1)], Places(from, to)[i])
    BY <2>2, <2>3, MaxOfInterval, Zenon
  <2>5. QED BY <1>5, <2>1, <2>4
<1> HIDE DEF Is
<1>10. PICK acc : IsTrace(acc, N, Gathered, zero, step, it[1..N])
  BY <1>1, <1>4, <1>8, <1>9, FoldTrace DEF Computes
<1>11. \A i \in 1..N : acc[i] = NextCluster(c, acc[i - 1], Places(from, to)[i])
  BY <1>1, <1>5, <1>10 DEF IsTrace
<1>12. /\ acc \in [0..N -> Gathered]
       /\ acc[0] = zero
       /\ \A i \in 1..N : acc[i] = NextCluster(c, acc[i - 1], Places(from, to)[i])
       /\ acc[N] = fold
  BY <1>2, <1>10, <1>11 DEF IsTrace
<1>13. QED BY <1>12, Zenon DEF N, zero, fold, ClustersTrace

LEMMA ClustersType ==
    ASSUME NEW c, NEW from \in Nat, NEW to \in Nat, from <= to + 1
    PROVE  Clusters(c, from, to) \in Seq(Broad)
<1>1. PICK f : ClustersTrace(f, c, from, to)
  BY ClustersFolds
<1>2. Clusters(c, from, to) = ClustersFold(c, from, to).cells
  BY DEF Clusters, ClustersFold, Places, NothingGathered
<1>3. to - from + 1 \in 0..(to - from + 1)
  OBVIOUS
<1>4. ClustersFold(c, from, to) \in Gathered
  BY <1>1, <1>3 DEF ClustersTrace
<1>5. QED BY <1>2, <1>4 DEF Gathered

\* The cells of a line have columns, a tab as many as it is wide.
LEMMA LineCellsType ==
    ASSUME NEW c, NEW line \in [from : Nat, to : Nat], line.from <= line.to + 1, NEW tab \in Nat
    PROVE  /\ LineCells(c, line, tab) \in Seq(Cell)
           /\ tab > 0 => LineCells(c, line, tab) \in Seq(Broad)
<1> DEFINE cells == Clusters(c, line.from, line.to)
           e(k) == IF c[cells[k].at] = "tab" THEN [cells[k] EXCEPT !.width = tab] ELSE cells[k]
           n == Len(cells)
<1>1. cells \in Seq(Broad)
  BY ClustersType
<1>2. n \in Nat /\ DOMAIN cells = 1..n
  BY <1>1, LenProperties
<1>3. LineCells(c, line, tab) = [k \in 1..n |-> e(k)]
  BY <1>2 DEF LineCells, WithWidth
<1> HIDE DEF cells
<1>4. ASSUME NEW k \in 1..n PROVE e(k) \in Cell /\ (tab > 0 => e(k) \in Broad)
  <2>1. cells[k] \in Broad
    BY <1>1, ElementOfSeq
  <2>2. cells[k] \in Cell
    BY <2>1 DEF Broad, Cell
  <2>3. [cells[k] EXCEPT !.width = tab] \in Cell
    BY <2>2 DEF Cell
  <2>4. [cells[k] EXCEPT !.width = tab].width = tab
    BY <2>2 DEF Cell
  <2>5. tab > 0 => [cells[k] EXCEPT !.width = tab] \in Broad
    BY <2>3, <2>4 DEF Broad, Cell
  <2>6. QED BY <2>1, <2>2, <2>3, <2>5
<1> HIDE DEF n, e
<1>5. /\ [k \in 1..n |-> e(k)] \in [1..n -> Cell]
      /\ tab > 0 => [k \in 1..n |-> e(k)] \in [1..n -> Broad]
  BY <1>4
<1>6. /\ [k \in 1..n |-> e(k)] \in Seq(Cell)
      /\ tab > 0 => [k \in 1..n |-> e(k)] \in Seq(Broad)
  BY <1>2, <1>5, FunctionIsSeq
<1>7. QED BY <1>3, <1>6

\* The columns of the first cells of a line.
Cols(cells, j) == Sum([i \in 1..j |-> cells[i].width])

LEMMA ColsAre ==
    ASSUME NEW cells \in Seq(Cell)
    PROVE  /\ Cols(cells, 0) = 0
           /\ \A j \in 0..Len(cells) : Cols(cells, j) \in Nat
           /\ \A j \in 1..Len(cells) : Cols(cells, j) = Cols(cells, j - 1) + cells[j].width
           /\ \A j \in 1..Len(cells) : Starts(cells)[j] = Cols(cells, j - 1)
           /\ DOMAIN Starts(cells) = 1..Len(cells)
           /\ Width(cells) = Cols(cells, Len(cells))
<1>1. Len(cells) \in Nat /\ DOMAIN cells = 1..Len(cells)
  BY LenProperties
<1>2. \A j \in 1..Len(cells) : cells[j].width \in Nat
  <2>1. SUFFICES ASSUME NEW j \in 1..Len(cells) PROVE cells[j].width \in Nat
    OBVIOUS
  <2>2. cells[j] \in Cell
    BY ElementOfSeq
  <2>3. QED BY <2>2 DEF Cell
<1> DEFINE w(j) == [i \in 1..j |-> cells[i].width]
<1>3. \A j \in 0..Len(cells) : w(j) \in [1..j -> Nat]
  BY <1>1, <1>2
<1>4. Cols(cells, 0) = 0
  <2>1. w(0) = [k \in {} |-> w(0)[k]] /\ DOMAIN w(0) = {}
    OBVIOUS
  <2> HIDE DEF w
  <2>2. Sum(w(0)) = 0
    BY <2>1, SumOfNone
  <2>3. QED BY <2>2 DEF Cols, w
<1>5. ASSUME NEW j \in 0..Len(cells) PROVE Cols(cells, j) \in Nat
  <2>1. w(j) \in [1..j -> Nat] /\ j \in Int
    BY <1>3
  <2> HIDE DEF w
  <2>2. Sum(w(j)) \in Nat
    BY <2>1, SumIsNat
  <2>3. QED BY <2>2 DEF Cols, w
<1>6. ASSUME NEW j \in 1..Len(cells) PROVE Cols(cells, j) = Cols(cells, j - 1) + cells[j].width
  <2> DEFINE s == w(j)
             t == w(j - 1)
  <2>1. s \in [1..j -> Nat] /\ t \in [1..(j - 1) -> Nat] /\ j \in Nat \ {0}
    BY <1>1, <1>3
  <2>2. \A k \in 1..(j - 1) : t[k] = s[k]
    BY <1>1
  <2>3. s[j] = cells[j].width
    OBVIOUS
  <2> HIDE DEF s, t
  <2>4. Sum(s) = Sum(t) + s[j]
    BY <2>1, <2>2, SumLast
  <2>5. QED BY <2>3, <2>4 DEF s, t, Cols, w
<1>7. \A j \in 1..Len(cells) : Starts(cells)[j] = Cols(cells, j - 1)
  BY <1>1 DEF Starts, Cols
<1>8. DOMAIN Starts(cells) = 1..Len(cells)
  BY <1>1 DEF Starts
<1>9. Width(cells) = Cols(cells, Len(cells))
  BY <1>1 DEF Width, Cols
<1>10. QED BY <1>4, <1>5, <1>6, <1>7, <1>8, <1>9

\* They increase.
LEMMA ColsRise ==
    ASSUME NEW cells \in Seq(Broad), NEW a \in 0..Len(cells), NEW b \in 0..Len(cells), a < b
    PROVE  Cols(cells, a) < Cols(cells, b)
<1> DEFINE n == Len(cells)
           S == {k \in 0..n : a < k => Cols(cells, a) < Cols(cells, k)}
<1> cells \in Seq(Cell)
  BY BroadAreCells
<1>1. n \in Nat
  BY LenProperties
<1>2. 0 \in S
  BY <1>1
<1>3. ASSUME NEW k \in 1..n, k - 1 \in S PROVE k \in S
  <2>1. cells[k] \in Broad
    BY ElementOfSeq
  <2>2. cells[k].width \in Nat \ {0}
    BY <2>1 DEF Broad, Cell
  <2>3. /\ Cols(cells, k) = Cols(cells, k - 1) + cells[k].width
        /\ Cols(cells, k - 1) \in Nat /\ Cols(cells, a) \in Nat
    BY <1>1, ColsAre
  <2>4. a < k => a = k - 1 \/ a < k - 1
    BY <1>1
  <2>5. QED BY <1>1, <1>3, <2>2, <2>3, <2>4
<1> HIDE DEF S, n
<1>4. \A k \in 0..n : k \in S
  BY <1>1, <1>2, <1>3, Induction
<1>5. b \in S
  BY <1>4 DEF n
<1>6. QED BY <1>5 DEF S

LEMMA ColsGrow ==
    ASSUME NEW cells \in Seq(Cell), NEW a \in 0..Len(cells), NEW b \in 0..Len(cells), a <= b
    PROVE  Cols(cells, a) <= Cols(cells, b)
<1> DEFINE n == Len(cells)
           S == {k \in 0..n : a <= k => Cols(cells, a) <= Cols(cells, k)}
<1>1. n \in Nat
  BY LenProperties
<1>2. 0 \in S
  BY <1>1, ColsAre
<1>3. ASSUME NEW k \in 1..n, k - 1 \in S PROVE k \in S
  <2>1. cells[k] \in Cell
    BY ElementOfSeq
  <2>2. cells[k].width \in Nat
    BY <2>1 DEF Cell
  <2>3. /\ Cols(cells, k) = Cols(cells, k - 1) + cells[k].width
        /\ Cols(cells, k - 1) \in Nat /\ Cols(cells, a) \in Nat
    BY <1>1, ColsAre
  <2>4. a <= k => a = k \/ a <= k - 1
    BY <1>1
  <2>5. QED BY <1>1, <1>3, <2>2, <2>3, <2>4
<1> HIDE DEF S, n
<1>4. \A k \in 0..n : k \in S
  BY <1>1, <1>2, <1>3, Induction
<1>5. b \in S
  BY <1>4 DEF n
<1>6. QED BY <1>5 DEF S

\* A part of a line has the columns between its ends.
LEMMA ColsOfPart ==
    ASSUME NEW cells \in Seq(Cell), NEW a \in 0..Len(cells), NEW b \in a..Len(cells)
    PROVE  /\ SubSeq(cells, a + 1, b) \in Seq(Cell)
           /\ Len(SubSeq(cells, a + 1, b)) = b - a
           /\ \A i \in 1..(b - a) : SubSeq(cells, a + 1, b)[i] = cells[a + i]
           /\ Width(SubSeq(cells, a + 1, b)) = Cols(cells, b) - Cols(cells, a)
<1> DEFINE n == b - a
           part == SubSeq(cells, a + 1, b)
           S == {k \in 0..n : Cols(part, k) = Cols(cells, a + k) - Cols(cells, a)}
<1>1. Len(cells) \in Nat /\ a \in Nat /\ b \in Nat /\ n \in Nat /\ b <= Len(cells) /\ a <= b
  BY LenProperties
<1>2. part \in Seq(Cell) /\ Len(part) = n /\ \A i \in 1..n : part[i] = cells[a + i]
  <2>1. \A i \in (a + 1)..b : cells[i] \in Cell
    BY <1>1, ElementOfSeq
  <2> DEFINE lo == a + 1
  <2>2. lo \in Int /\ b \in Int
    BY <1>1
  <2> HIDE DEF lo
  <2>3. /\ SubSeq(cells, lo, b) \in Seq(Cell)
        /\ Len(SubSeq(cells, lo, b)) = IF lo <= b THEN b - lo + 1 ELSE 0
        /\ \A i \in 1..(b - lo + 1) : SubSeq(cells, lo, b)[i] = cells[lo + i - 1]
    BY <2>1, <2>2, SubSeqProperties DEF lo
  <2>4. b - lo + 1 = n /\ \A i \in 1..n : lo + i - 1 = a + i
    BY <1>1 DEF lo
  <2>5. part = SubSeq(cells, lo, b)
    BY DEF lo
  <2> HIDE DEF part
  <2>6. Len(part) = n
    BY <1>1, <2>3, <2>5 DEF lo
  <2>7. QED BY <2>3, <2>4, <2>5, <2>6
<1> HIDE DEF part
<1>3. \A k \in 0..n : a + k \in 0..Len(cells) /\ Cols(cells, a + k) \in Nat /\ Cols(cells, a) \in Nat
  BY <1>1, ColsAre
<1>4. 0 \in S
  BY <1>1, <1>2, ColsAre
<1>5. ASSUME NEW k \in 1..n, k - 1 \in S PROVE k \in S
  <2>1. Cols(part, k) = Cols(part, k - 1) + part[k].width
    BY <1>2, ColsAre
  <2> DEFINE j == a + k
  <2>2. j \in 1..Len(cells) /\ a + (k - 1) = j - 1 /\ k - 1 \in 0..n /\ k \in 0..n
    BY <1>1
  <2>3. Cols(cells, j) = Cols(cells, j - 1) + cells[j].width
    BY <2>2, ColsAre
  <2>4. part[k] = cells[j]
    BY <1>2
  <2>5. cells[j].width \in Nat
    <3>1. cells[j] \in Cell
      BY <2>2, ElementOfSeq
    <3>2. QED BY <3>1 DEF Cell
  <2>6. Cols(cells, j - 1) \in Nat /\ Cols(cells, a) \in Nat
    BY <1>3, <2>2
  <2>7. Cols(part, k - 1) = Cols(cells, j - 1) - Cols(cells, a)
    BY <1>5, <2>2
  <2> HIDE DEF j, n
  <2>8. Cols(part, k) = Cols(cells, j) - Cols(cells, a)
    BY <2>1, <2>3, <2>4, <2>5, <2>6, <2>7
  <2>9. QED BY <2>2, <2>8 DEF j
<1> HIDE DEF S, n
<1>6. \A k \in 0..n : k \in S
  BY <1>1, <1>4, <1>5, Induction
<1>7. Cols(part, n) = Cols(cells, a + n) - Cols(cells, a) /\ a + n = b
  BY <1>1, <1>6 DEF S, n
<1>8. Width(part) = Cols(part, n)
  BY <1>2, ColsAre
<1>9. QED BY <1>2, <1>7, <1>8 DEF part, n

(***************************************************************************)
(* A line that is wrapped.                                                 *)
(***************************************************************************)
VLine == [col : Nat, width : Nat, line : Nat, src : Nat, wrap : Nat]
Cur == [vlines : Seq(VLine), global : Nat, pending : BOOLEAN, line : Nat, ww : Nat,
        source : Nat, w : Nat, off : Nat, from : Nat, wrap : Nat, any : BOOLEAN]

\* Cells a + 1 to c fit the k-th virtual line of line n.
Fits(cells, n, k, a, c) ==
    wrapMode # "none" /\ wrapWidth > 0 =>
      c = a + 1 \/ Cols(cells, c) - Cols(cells, a) <= Room(n, k)

\* v is the k-th virtual line of line n and has cells a + 1 to c.
CutIs(cells, v, n, k, a, c) ==
    /\ a <= c /\ v.line = n /\ v.wrap = k - 1
    /\ v.src = Cols(cells, a) /\ v.width = Cols(cells, c) - Cols(cells, a)
    /\ Fits(cells, n, k, a, c)

\* The m virtual lines after the first lo cut line n at the places b.
Cutting(cells, vlines, lo, m, n, b) ==
    /\ b \in [0..m -> 0..Len(cells)] /\ b[0] = 0
    /\ \A k \in 1..m : CutIs(cells, vlines[lo + k], n, k, b[k - 1], b[k])

\* The virtual line under way has cells a + 1 to j.
UnderWay(cells, n, cur, a, j) ==
    /\ a <= j /\ cur.from = Cols(cells, a) /\ cur.w = Cols(cells, j) - Cols(cells, a)
    /\ a < j => Fits(cells, n, cur.wrap + 1, a, j)

\* The first j cells of line n are laid out, after the virtual lines of old.
Laid(cells, old, n, cur, j) ==
    /\ cur \in Cur /\ cur.line = n /\ cur.ww = wrapWidth
    /\ cur.source = Cols(cells, j) /\ (j > 0 => cur.any)
    /\ Len(cur.vlines) = Len(old) + cur.wrap
    /\ \A k \in 1..Len(old) : cur.vlines[k] = old[k]
    /\ cur.pending <=> (n = 1 /\ cur.wrap = 0 /\ firstLineOffset > 0)
    /\ \E b : /\ Cutting(cells, cur.vlines, Len(old), cur.wrap, n, b)
              /\ UnderWay(cells, n, cur, b[cur.wrap], j)

WrapSet == wrapWidth \in Nat /\ firstLineOffset \in Nat

LEMMA RoomIs ==
    ASSUME WrapSet, NEW cells \in Seq(Cell), NEW old \in Seq(VLine), NEW n \in Nat,
           NEW j \in 0..Len(cells), NEW cur, Laid(cells, old, n, cur, j)
    PROVE  LineWrapW(cur) = Room(n, cur.wrap + 1) /\ LineWrapW(cur) \in Nat
<1>1. /\ cur.ww = wrapWidth /\ cur.wrap \in Nat
      /\ cur.pending <=> (n = 1 /\ cur.wrap = 0 /\ firstLineOffset > 0)
  BY DEF Laid, Cur
<1>2. wrapWidth \in Nat /\ firstLineOffset \in Nat
  BY DEF WrapSet
<1>3. cur.wrap + 1 = 1 <=> cur.wrap = 0
  BY <1>1
<1>4. LineWrapW(cur) = IF cur.pending /\ firstLineOffset < wrapWidth
                        THEN wrapWidth - firstLineOffset ELSE wrapWidth
  BY <1>1 DEF LineWrapW
<1>5. Room(n, cur.wrap + 1) = IF n = 1 /\ cur.wrap = 0 /\ firstLineOffset < wrapWidth
                              THEN wrapWidth - firstLineOffset ELSE wrapWidth
  BY <1>3 DEF Room
<1>6. LineWrapW(cur) \in Nat
  BY <1>2, <1>4
<1>7. CASE firstLineOffset > 0
  <2>1. cur.pending <=> (n = 1 /\ cur.wrap = 0)
    BY <1>1, <1>7
  <2>2. CASE cur.pending
    BY <1>4, <1>5, <1>6, <2>1, <2>2
  <2>3. CASE ~cur.pending
    BY <1>4, <1>5, <1>6, <2>1, <2>3
  <2>4. QED BY <2>2, <2>3
<1>8. CASE firstLineOffset = 0
  <2>1. ~cur.pending /\ wrapWidth - firstLineOffset = wrapWidth
    BY <1>1, <1>2, <1>8
  <2>2. LineWrapW(cur) = Room(n, cur.wrap + 1)
    BY <1>4, <1>5, <2>1, Zenon
  <2>3. QED BY <1>6, <2>2
<1>9. QED BY <1>2, <1>7, <1>8

LEMMA Flushes ==
    ASSUME WrapSet, NEW cells \in Seq(Cell), NEW old \in Seq(VLine), NEW n \in Nat,
           NEW j \in 0..Len(cells), NEW cur, Laid(cells, old, n, cur, j), cur.w > 0
    PROVE  Laid(cells, old, n, Flush(cur), j) /\ Flush(cur).w = 0
<1> DEFINE lo == Len(old)
           m == cur.wrap
           v == VLineOf(cur)
           new == Flush(cur)
           vlines == Append(cur.vlines, v)
<1>1. cur \in Cur /\ m \in Nat /\ lo \in Nat /\ Len(cells) \in Nat
  BY LenProperties DEF Laid, Cur
<1>2. v \in VLine
  BY <1>1 DEF VLineOf, VLine, Cur
<1>3. cur.vlines \in Seq(VLine) /\ Len(cur.vlines) = lo + m
  BY <1>1 DEF Laid, Cur
<1>4. /\ vlines \in Seq(VLine) /\ Len(vlines) = lo + m + 1
      /\ \A k \in 1..(lo + m) : vlines[k] = cur.vlines[k]
      /\ vlines[lo + m + 1] = v
  <2> HIDE DEF v
  <2>1. QED BY <1>2, <1>3, AppendProperties
<1>5. /\ new \in Cur /\ new.vlines = vlines /\ new.wrap = m + 1 /\ new.w = 0
      /\ new.pending = FALSE /\ new.from = cur.source /\ new.source = cur.source
      /\ new.line = cur.line /\ new.ww = cur.ww /\ new.any = cur.any
  <2> HIDE DEF vlines, m
  <2>1. new = [cur EXCEPT !.vlines = vlines, !.wrap = m + 1, !.off = cur.global,
                          !.w = 0, !.pending = FALSE, !.from = cur.source]
    BY DEF Flush, vlines, v, m
  <2>2. cur.global \in Nat /\ cur.source \in Nat /\ m + 1 \in Nat
    BY <1>1 DEF Cur
  <2>3. /\ new.vlines = vlines /\ new.wrap = m + 1 /\ new.w = 0 /\ new.pending = FALSE
        /\ new.from = cur.source /\ new.source = cur.source /\ new.line = cur.line
        /\ new.ww = cur.ww /\ new.any = cur.any
    BY <1>1, <2>1, Zenon DEF Cur
  <2>4. new \in Cur
    <3>1. vlines \in Seq(VLine)
      BY <1>4
    <3> HIDE DEF new
    <3>2. QED BY <1>1, <2>1, <2>2, <3>1 DEF Cur
  <2>5. QED BY <2>3, <2>4
<1>6. PICK b : /\ Cutting(cells, cur.vlines, lo, m, n, b)
               /\ UnderWay(cells, n, cur, b[m], j)
  BY DEF Laid
<1> DEFINE d == [k \in 0..(m + 1) |-> IF k = m + 1 THEN j ELSE b[k]]
<1>7. b \in [0..m -> 0..Len(cells)] /\ b[0] = 0
  BY <1>6 DEF Cutting
<1>8. /\ d \in [0..(m + 1) -> 0..Len(cells)] /\ d[0] = 0
      /\ \A k \in 0..m : d[k] = b[k]
      /\ d[m + 1] = j
  BY <1>1, <1>7
<1>9. /\ b[m] <= j /\ cur.from = Cols(cells, b[m])
      /\ cur.w = Cols(cells, j) - Cols(cells, b[m])
      /\ b[m] < j => Fits(cells, n, m + 1, b[m], j)
  BY <1>6 DEF UnderWay
<1>10. b[m] < j
  BY <1>1, <1>7, <1>9, ColsAre
<1>11. CutIs(cells, v, n, m + 1, b[m], j)
  <2>1. /\ v.line = n /\ v.wrap = m /\ v.src = cur.from /\ v.width = cur.w
    BY DEF VLineOf, Laid
  <2>2. (m + 1) - 1 = m
    BY <1>1
  <2> HIDE DEF v, m
  <2>3. QED BY <1>9, <1>10, <2>1, <2>2 DEF CutIs
<1> HIDE DEF new, vlines, v, d, m
<1>12. Cutting(cells, vlines, lo, m + 1, n, d)
  <2>1. ASSUME NEW k \in 1..m PROVE CutIs(cells, vlines[lo + k], n, k, d[k - 1], d[k])
    <3>1. lo + k \in 1..(lo + m) /\ k - 1 \in 0..m /\ k \in 0..m
      BY <1>1
    <3>2. CutIs(cells, cur.vlines[lo + k], n, k, b[k - 1], b[k])
      BY <1>6 DEF Cutting
    <3>3. QED BY <1>4, <1>8, <3>1, <3>2
  <2>2. CutIs(cells, vlines[lo + (m + 1)], n, m + 1, d[(m + 1) - 1], d[m + 1])
    <3>1. lo + (m + 1) = lo + m + 1 /\ (m + 1) - 1 = m /\ m \in 0..m
      BY <1>1
    <3>2. QED BY <1>4, <1>8, <1>11, <3>1
  <2>3. \A k \in 1..(m + 1) : k \in 1..m \/ k = m + 1
    BY <1>1
  <2>4. QED BY <1>8, <2>1, <2>2, <2>3 DEF Cutting
<1>13. UnderWay(cells, n, new, d[m + 1], j)
  BY <1>5, <1>8, ColsAre DEF Laid, UnderWay
<1>14. /\ new.line = n /\ new.ww = wrapWidth /\ new.source = Cols(cells, j)
       /\ (j > 0 => new.any)
       /\ \A k \in 1..lo : cur.vlines[k] = old[k]
  BY <1>5 DEF Laid
<1>15. Len(new.vlines) = lo + new.wrap /\ \A k \in 1..lo : new.vlines[k] = old[k]
  BY <1>1, <1>4, <1>5, <1>14
<1>16. new.pending <=> (n = 1 /\ new.wrap = 0 /\ firstLineOffset > 0)
  <2>1. m + 1 # 0
    BY <1>1
  <2>2. QED BY <1>5, <2>1, Zenon
<1>17. \E e : /\ Cutting(cells, new.vlines, lo, new.wrap, n, e)
              /\ UnderWay(cells, n, new, e[new.wrap], j)
  BY <1>5, <1>12, <1>13
<1>18. Laid(cells, old, n, new, j)
  BY <1>5, <1>14, <1>15, <1>16, <1>17 DEF Laid
<1>19. QED BY <1>5, <1>18 DEF new

LEMMA Advances ==
    ASSUME WrapSet, NEW cells \in Seq(Broad), NEW old \in Seq(VLine), NEW n \in Nat,
           NEW j \in 0..Len(cells), NEW to \in 0..Len(cells), j < to,
           NEW cur, Laid(cells, old, n, cur, j),
           NEW w, w = Cols(cells, to) - Cols(cells, j),
           (cur.w = 0 /\ to = j + 1) \/ cur.w + w <= LineWrapW(cur)
    PROVE  Laid(cells, old, n, Advance(cur, w), to)
<1> cells \in Seq(Cell)
  BY BroadAreCells
<1> DEFINE new == Advance(cur, w)
           m == cur.wrap
<1>1. cur \in Cur /\ m \in Nat /\ Len(old) \in Nat /\ Len(cells) \in Nat
  BY LenProperties DEF Laid, Cur
<1>2. Cols(cells, j) \in Nat /\ Cols(cells, to) \in Nat /\ Cols(cells, j) < Cols(cells, to)
  BY ColsAre, ColsRise
<1>3. w \in Nat
  BY <1>2
<1>4. /\ cur.source = Cols(cells, j) /\ cur.w \in Nat /\ cur.global \in Nat /\ cur.source \in Nat
  BY <1>1 DEF Laid, Cur
<1>5. /\ new \in Cur /\ new.w = cur.w + w /\ new.source = Cols(cells, to) /\ new.any
      /\ new.vlines = cur.vlines /\ new.wrap = m /\ new.pending = cur.pending
      /\ new.from = cur.from /\ new.line = cur.line /\ new.ww = cur.ww
  <2>1. new = [cur EXCEPT !.w = cur.w + w, !.global = cur.global + w,
                          !.source = cur.source + w, !.any = TRUE]
    BY DEF Advance
  <2> HIDE DEF new
  <2>2. cur.w + w \in Nat /\ cur.global + w \in Nat
    <3>1. \A x, y \in Nat : x + y \in Nat
      OBVIOUS
    <3>2. QED BY <1>3, <1>4, <3>1, Zenon
  <2>3. cur.source + w = Cols(cells, to)
    BY <1>2, <1>4
  <2>4. QED BY <1>1, <1>2, <2>1, <2>2, <2>3 DEF Cur
<1>6. PICK b : /\ Cutting(cells, cur.vlines, Len(old), m, n, b)
               /\ UnderWay(cells, n, cur, b[m], j)
  BY DEF Laid
<1> DEFINE a == b[m]
<1>7. a \in 0..Len(cells) /\ a <= j /\ cur.from = Cols(cells, a)
      /\ cur.w = Cols(cells, j) - Cols(cells, a)
  BY <1>1, <1>6 DEF Cutting, UnderWay
<1>8. Cols(cells, a) \in Nat
  BY <1>7, ColsAre
<1> HIDE DEF a
<1>9. new.w = Cols(cells, to) - Cols(cells, a)
  BY <1>2, <1>5, <1>7, <1>8
<1>10. Fits(cells, n, m + 1, a, to)
  <2>1. CASE cur.w = 0 /\ to = j + 1
    BY <1>1, <1>2, <1>7, <1>8, <2>1, ColsRise DEF Fits
  <2>2. CASE cur.w + w <= LineWrapW(cur)
    BY <1>5, <1>9, <2>2, RoomIs DEF Fits
  <2>3. QED BY <2>1, <2>2
<1> HIDE DEF new, m
<1>11. UnderWay(cells, n, new, a, to)
  BY <1>1, <1>5, <1>7, <1>9, <1>10 DEF UnderWay
<1>12. /\ cur.line = n /\ cur.ww = wrapWidth
       /\ Len(cur.vlines) = Len(old) + m
       /\ \A k \in 1..Len(old) : cur.vlines[k] = old[k]
       /\ cur.pending <=> (n = 1 /\ m = 0 /\ firstLineOffset > 0)
  BY DEF Laid, m
<1>13. \E e : /\ Cutting(cells, new.vlines, Len(old), new.wrap, n, e)
              /\ UnderWay(cells, n, new, e[new.wrap], to)
  BY <1>5, <1>6, <1>11 DEF a
<1>14. QED BY <1>5, <1>12, <1>13 DEF Laid, new

\* Cells j + 1 to to, all on one virtual line.
LEMMA Takes ==
    ASSUME WrapSet, NEW cells \in Seq(Broad), NEW old \in Seq(VLine), NEW n \in Nat,
           NEW j \in 0..Len(cells), NEW to \in 0..Len(cells), j < to,
           NEW cur, Laid(cells, old, n, cur, j),
           NEW w, w = Cols(cells, to) - Cols(cells, j),
           to = j + 1 \/ w <= LineWrapW(FlushIfOver(cur, w))
    PROVE  Laid(cells, old, n, Advance(FlushIfOver(cur, w), w), to)
<1> cells \in Seq(Cell)
  BY BroadAreCells
<1> DEFINE new == FlushIfOver(cur, w)
<1>1. cur.w \in Nat
  BY DEF Laid, Cur
<1>2. w \in Nat
  BY ColsAre, ColsRise
<1>3. LineWrapW(cur) \in Nat
  BY RoomIs
<1>4. CASE cur.w > 0 /\ cur.w + w > LineWrapW(cur)
  <2>1. new = Flush(cur)
    BY <1>4 DEF FlushIfOver
  <2>2. Laid(cells, old, n, new, j) /\ new.w = 0
    BY <1>4, <2>1, Flushes
  <2>3. (new.w = 0 /\ to = j + 1) \/ new.w + w <= LineWrapW(new)
    BY <1>2, <2>2
  <2> HIDE DEF new
  <2>4. Laid(cells, old, n, Advance(new, w), to)
    BY <2>2, <2>3, Advances
  <2>5. QED BY <2>4 DEF new
<1>5. CASE ~(cur.w > 0 /\ cur.w + w > LineWrapW(cur))
  BY <1>1, <1>2, <1>3, <1>5, Advances DEF FlushIfOver
<1>6. QED BY <1>4, <1>5

LEMMA PushColsTakes ==
    ASSUME WrapSet, NEW cells \in Seq(Broad), NEW old \in Seq(VLine), NEW n \in Nat,
           NEW j \in 0..Len(cells), NEW cur, Laid(cells, old, n, cur, j), NEW w
    PROVE  PushCols(cur, w) = Advance(cur, w)
<1> cells \in Seq(Cell)
  BY BroadAreCells
<1> DEFINE m == cur.wrap
<1>1. CASE cur.w = 0
  <2>1. PICK b : /\ Cutting(cells, cur.vlines, Len(old), m, n, b)
                 /\ UnderWay(cells, n, cur, b[m], j)
    BY DEF Laid
  <2> DEFINE a == b[m]
  <2>2. /\ m \in Nat /\ cur \in Cur /\ cur.source = Cols(cells, j)
    BY DEF Laid, Cur
  <2>3. /\ a \in 0..Len(cells) /\ cur.from = Cols(cells, a)
        /\ cur.w = Cols(cells, j) - Cols(cells, a)
    BY <2>1, <2>2 DEF Cutting, UnderWay
  <2> HIDE DEF a
  <2>4. Cols(cells, j) \in Nat /\ Cols(cells, a) \in Nat
    BY <2>3, ColsAre
  <2>5. cur.from = cur.source
    BY <1>1, <2>2, <2>3, <2>4
  <2>6. [cur EXCEPT !.from = cur.source] = cur
    BY <2>2, <2>5 DEF Cur
  <2>7. QED BY <1>1, <2>6 DEF PushCols
<1>2. CASE cur.w # 0
  BY <1>2 DEF PushCols
<1>3. QED BY <1>1, <1>2

LEMMA CursorTypes ==
    ASSUME NEW cur \in Cur, NEW w \in Nat
    PROVE  Flush(cur) \in Cur /\ FlushIfOver(cur, w) \in Cur /\ Advance(cur, w) \in Cur
           /\ PushCols(cur, w) \in Cur
<1>1. Flush(cur) \in Cur
  <2> DEFINE v == VLineOf(cur)
             vlines == Append(cur.vlines, v)
             new == Flush(cur)
  <2>1. v \in VLine /\ cur.vlines \in Seq(VLine)
    BY DEF VLineOf, VLine, Cur
  <2> HIDE DEF v
  <2>2. vlines \in Seq(VLine)
    BY <2>1, AppendProperties
  <2>3. cur.global \in Nat /\ cur.source \in Nat /\ cur.wrap + 1 \in Nat
    BY DEF Cur
  <2> HIDE DEF vlines
  <2>4. new = [cur EXCEPT !.vlines = vlines, !.wrap = cur.wrap + 1, !.off = cur.global,
                          !.w = 0, !.pending = FALSE, !.from = cur.source]
    BY DEF Flush, vlines, v
  <2> HIDE DEF new
  <2>5. new \in Cur
    BY <2>2, <2>3, <2>4 DEF Cur
  <2>6. QED BY <2>5 DEF new
<1>2. FlushIfOver(cur, w) \in Cur
  BY <1>1 DEF FlushIfOver
<1>3. ASSUME NEW c \in Cur PROVE Advance(c, w) \in Cur
  <2> DEFINE new == Advance(c, w)
  <2>1. new = [c EXCEPT !.w = c.w + w, !.global = c.global + w,
                        !.source = c.source + w, !.any = TRUE]
    BY DEF Advance
  <2>2. c.w + w \in Nat /\ c.global + w \in Nat /\ c.source + w \in Nat
    <3>1. c.w \in Nat /\ c.global \in Nat /\ c.source \in Nat
      BY DEF Cur
    <3>2. QED BY <3>1
  <2> HIDE DEF new
  <2>3. new \in Cur
    BY <2>1, <2>2 DEF Cur
  <2>4. QED BY <2>3 DEF new
<1>4. PushCols(cur, w) \in Cur
  <2> DEFINE c == IF cur.w = 0 THEN [cur EXCEPT !.from = cur.source] ELSE cur
  <2>1. c \in Cur
    BY DEF Cur
  <2>2. PushCols(cur, w) = Advance(c, w)
    BY DEF PushCols
  <2> HIDE DEF c
  <2>3. QED BY <1>3, <2>1, <2>2
<1>5. QED BY <1>1, <1>2, <1>3, <1>4

LEMMA PushCharType ==
    ASSUME NEW cur \in Cur, NEW cell \in Cell PROVE PushChar(cur, cell) \in Cur
<1> DEFINE w == cell.width
           c == FlushIfOver(cur, w)
<1>1. w \in Nat
  BY DEF Cell
<1> HIDE DEF w
<1>2. c \in Cur
  BY <1>1, CursorTypes
<1> HIDE DEF c
<1>3. Advance(c, w) \in Cur
  BY <1>1, <1>2, CursorTypes
<1>4. QED BY <1>3 DEF PushChar, c, w

CharsFold(cur, seg) ==
    FoldLeft(LAMBDA c, cell : PushChar(c, cell), cur, seg)

CharsTrace(acc, cur, seg) ==
    /\ acc \in [0..Len(seg) -> Cur]
    /\ acc[0] = cur
    /\ \A i \in 1..Len(seg) : acc[i] = PushChar(acc[i - 1], seg[i])
    /\ acc[Len(seg)] = CharsFold(cur, seg)

LEMMA CharsFolds ==
    ASSUME NEW cur \in Cur,
           NEW seg \in Seq(Cell)
    PROVE  \E acc : CharsTrace(acc, cur, seg)
<1> DEFINE N == Len(seg)
           zero == cur
           fold == CharsFold(cur, seg)
           Is(it) == it = [x \in SUBSET (DOMAIN seg) |->
                             IF x = {} THEN zero
                             ELSE LET y == Max(x) IN PushChar(it[x \ {y}], seg[y])]
           it == CHOOSE it : Is(it)
           step == [i \in 1..N |-> [a \in Cur |-> PushChar(a, seg[i])]]
<1>1. DOMAIN seg = 1..N /\ N \in Nat /\ zero \in Cur
  BY LenProperties
<1>2. fold = it[1..N]
  BY <1>1 DEF CharsFold, FoldLeft, MapThenFoldSet
<1>3. \A i \in 1..N, a \in Cur : PushChar(a, seg[i]) \in Cur
  BY ElementOfSeq, PushCharType
<1> HIDE DEF N, zero, fold
<1>4. step \in [1..N -> [Cur -> Cur]]
  BY <1>3
<1>5. \A i \in 1..N, a \in Cur : step[i][a] = PushChar(a, seg[i])
  OBVIOUS
<1> HIDE DEF step
<1>6. \E f : Is(f)
  <2> HIDE DEF Is, it
  <2>1. PICK f \in [SUBSET (1..N) -> Cur] : IsFold(f, N, zero, step)
    BY <1>1, <1>4, FoldExists
  <2>2. \A x \in SUBSET (1..N) : x # {} => Max(x) \in 1..N
    BY <1>1, MaxIn
  <2>3. \A x \in SUBSET (1..N) :
          (IF x = {} THEN zero ELSE step[Max(x)][f[x \ {Max(x)}]])
            = IF x = {} THEN zero ELSE PushChar(f[x \ {Max(x)}], seg[Max(x)])
    BY <1>5, <2>1, <2>2, ZenonT(30)
  <2>4. f = [x \in SUBSET (1..N) |->
               IF x = {} THEN zero ELSE PushChar(f[x \ {Max(x)}], seg[Max(x)])]
    BY <2>1, <2>3, ZenonT(30) DEF IsFold
  <2>5. QED BY <1>1, <2>4 DEF Is
<1>7. Is(it)
  BY <1>6, ZenonT(30)
<1> HIDE DEF it
<1>8. it[{}] = zero
  BY <1>7
<1>9. \A i \in 1..N : it[1..(i - 1)] \in Cur => it[1..i] = step[i][it[1..(i - 1)]]
  <2>1. SUFFICES ASSUME NEW i \in 1..N, it[1..(i - 1)] \in Cur
                 PROVE  it[1..i] = step[i][it[1..(i - 1)]]
    OBVIOUS
  <2>2. 1..i \in SUBSET (DOMAIN seg) /\ i \in Nat \ {0}
    BY <1>1
  <2>3. it[1..i] = IF 1..i = {} THEN zero
                   ELSE PushChar(it[(1..i) \ {Max(1..i)}], seg[Max(1..i)])
    BY <1>7, <2>2, Zenon
  <2>4. it[1..i] = PushChar(it[1..(i - 1)], seg[i])
    BY <2>2, <2>3, MaxOfInterval, Zenon
  <2>5. QED BY <1>5, <2>1, <2>4
<1> HIDE DEF Is
<1>10. PICK acc : IsTrace(acc, N, Cur, zero, step, it[1..N])
  BY <1>1, <1>4, <1>8, <1>9, FoldTrace DEF Computes
<1>11. \A i \in 1..N : acc[i] = PushChar(acc[i - 1], seg[i])
  BY <1>1, <1>5, <1>10 DEF IsTrace
<1>12. /\ acc \in [0..N -> Cur]
       /\ acc[0] = zero
       /\ \A i \in 1..N : acc[i] = PushChar(acc[i - 1], seg[i])
       /\ acc[N] = fold
  BY <1>2, <1>10, <1>11 DEF IsTrace
<1>13. QED BY <1>12, Zenon DEF N, zero, fold, CharsTrace

LEMMA PushCharsType ==
    ASSUME NEW cur \in Cur, NEW seg \in Seq(Cell) PROVE PushChars(cur, seg) \in Cur
<1>1. PICK f : CharsTrace(f, cur, seg)
  BY CharsFolds
<1>2. Len(seg) \in 0..Len(seg)
  BY LenProperties
<1>3. QED BY <1>1, <1>2 DEF CharsTrace, CharsFold, PushChars

LEMMA WidthIsNat == ASSUME NEW seg \in Seq(Cell) PROVE Width(seg) \in Nat
<1>1. Len(seg) \in 0..Len(seg)
  BY LenProperties
<1>2. QED BY <1>1, ColsAre

LEMMA PushSegmentTypes ==
    ASSUME NEW cur \in Cur, NEW fill \in BOOLEAN, NEW seg \in Seq(Cell)
    PROVE  /\ PushSegmentCharMode(cur, seg) \in Cur
           /\ PushWord([fill |-> fill, cur |-> cur], seg) \in [fill : BOOLEAN, cur : Cur]
<1> DEFINE w == Width(seg)
           flushed == FlushIfOver(cur, w)
<1>1. w \in Nat
  BY WidthIsNat
<1> HIDE DEF w
<1>2. flushed \in Cur
  BY <1>1, CursorTypes
<1> HIDE DEF flushed
<1>3. PushChars(cur, seg) \in Cur /\ PushChars(flushed, seg) \in Cur
  BY <1>2, PushCharsType
<1>4. PushCols(flushed, w) \in Cur
  BY <1>1, <1>2, CursorTypes
<1>5. PushSegmentCharMode(cur, seg)
        = IF w > LineWrapW(cur) THEN PushChars(flushed, seg) ELSE PushCols(flushed, w)
  BY DEF PushSegmentCharMode, flushed, w
<1>6. PushWord([fill |-> fill, cur |-> cur], seg)
        = IF fill THEN [fill |-> fill, cur |-> PushChars(cur, seg)]
          ELSE IF w <= LineWrapW(flushed) THEN [fill |-> fill, cur |-> PushCols(flushed, w)]
          ELSE [fill |-> TRUE, cur |-> PushChars(flushed, seg)]
  BY DEF PushWord, flushed, w
<1> HIDE DEF flushed, w
<1>7. PushSegmentCharMode(cur, seg) \in Cur
  BY <1>3, <1>4, <1>5
<1>8. PushWord([fill |-> fill, cur |-> cur], seg) \in [fill : BOOLEAN, cur : Cur]
  <2> DEFINE Of(b, c) == [fill |-> b, cur |-> c]
             r == PushWord([fill |-> fill, cur |-> cur], seg)
  <2>1. \A b \in BOOLEAN, c \in Cur : Of(b, c) \in [fill : BOOLEAN, cur : Cur]
    OBVIOUS
  <2>2. r \in {Of(fill, PushChars(cur, seg)), Of(fill, PushCols(flushed, w)),
               Of(TRUE, PushChars(flushed, seg))}
    <3> HIDE DEF r
    <3>1. r = IF fill THEN Of(fill, PushChars(cur, seg))
              ELSE IF w <= LineWrapW(flushed) THEN Of(fill, PushCols(flushed, w))
              ELSE Of(TRUE, PushChars(flushed, seg))
      BY <1>6, Zenon DEF r
    <3> HIDE DEF Of
    <3>2. QED BY <3>1
  <2> HIDE DEF Of, r
  <2>3. r \in [fill : BOOLEAN, cur : Cur]
    BY <1>3, <1>4, <2>1, <2>2, ZenonT(30)
  <2>4. QED BY <2>3 DEF r
<1>9. QED BY <1>7, <1>8

CellsFold(cur, cells) ==
    FoldLeft(LAMBDA c, cell : PushSegmentCharMode(c, <<cell>>), cur, cells)

CellsTrace(acc, cur, cells) ==
    /\ acc \in [0..Len(cells) -> Cur]
    /\ acc[0] = cur
    /\ \A i \in 1..Len(cells) : acc[i] = PushSegmentCharMode(acc[i - 1], <<cells[i]>>)
    /\ acc[Len(cells)] = CellsFold(cur, cells)

LEMMA CellsFolds ==
    ASSUME NEW cur \in Cur,
           NEW cells \in Seq(Cell)
    PROVE  \E acc : CellsTrace(acc, cur, cells)
<1> DEFINE N == Len(cells)
           zero == cur
           fold == CellsFold(cur, cells)
           Is(it) == it = [x \in SUBSET (DOMAIN cells) |->
                             IF x = {} THEN zero
                             ELSE LET y == Max(x) IN PushSegmentCharMode(it[x \ {y}], <<cells[y]>>)]
           it == CHOOSE it : Is(it)
           step == [i \in 1..N |-> [a \in Cur |-> PushSegmentCharMode(a, <<cells[i]>>)]]
<1>1. DOMAIN cells = 1..N /\ N \in Nat /\ zero \in Cur
  BY LenProperties
<1>2. fold = it[1..N]
  BY <1>1 DEF CellsFold, FoldLeft, MapThenFoldSet
<1>3. \A i \in 1..N, a \in Cur : PushSegmentCharMode(a, <<cells[i]>>) \in Cur
  <2>1. SUFFICES ASSUME NEW i \in 1..N, NEW a \in Cur
                 PROVE  PushSegmentCharMode(a, <<cells[i]>>) \in Cur
    OBVIOUS
  <2>2. cells[i] \in Cell
    BY ElementOfSeq
  <2>3. <<cells[i]>> \in Seq(Cell)
    BY <2>2
  <2>4. QED BY <2>3, PushSegmentTypes
<1> HIDE DEF N, zero, fold
<1>4. step \in [1..N -> [Cur -> Cur]]
  BY <1>3
<1>5. \A i \in 1..N, a \in Cur : step[i][a] = PushSegmentCharMode(a, <<cells[i]>>)
  OBVIOUS
<1> HIDE DEF step
<1>6. \E f : Is(f)
  <2> HIDE DEF Is, it
  <2>1. PICK f \in [SUBSET (1..N) -> Cur] : IsFold(f, N, zero, step)
    BY <1>1, <1>4, FoldExists
  <2>2. \A x \in SUBSET (1..N) : x # {} => Max(x) \in 1..N
    BY <1>1, MaxIn
  <2>3. \A x \in SUBSET (1..N) :
          (IF x = {} THEN zero ELSE step[Max(x)][f[x \ {Max(x)}]])
            = IF x = {} THEN zero ELSE PushSegmentCharMode(f[x \ {Max(x)}], <<cells[Max(x)]>>)
    BY <1>5, <2>1, <2>2, ZenonT(30)
  <2>4. f = [x \in SUBSET (1..N) |->
               IF x = {} THEN zero ELSE PushSegmentCharMode(f[x \ {Max(x)}], <<cells[Max(x)]>>)]
    BY <2>1, <2>3, ZenonT(30) DEF IsFold
  <2>5. QED BY <1>1, <2>4 DEF Is
<1>7. Is(it)
  BY <1>6, ZenonT(30)
<1> HIDE DEF it
<1>8. it[{}] = zero
  BY <1>7
<1>9. \A i \in 1..N : it[1..(i - 1)] \in Cur => it[1..i] = step[i][it[1..(i - 1)]]
  <2>1. SUFFICES ASSUME NEW i \in 1..N, it[1..(i - 1)] \in Cur
                 PROVE  it[1..i] = step[i][it[1..(i - 1)]]
    OBVIOUS
  <2>2. 1..i \in SUBSET (DOMAIN cells) /\ i \in Nat \ {0}
    BY <1>1
  <2>3. it[1..i] = IF 1..i = {} THEN zero
                   ELSE PushSegmentCharMode(it[(1..i) \ {Max(1..i)}], <<cells[Max(1..i)]>>)
    BY <1>7, <2>2, Zenon
  <2>4. it[1..i] = PushSegmentCharMode(it[1..(i - 1)], <<cells[i]>>)
    BY <2>2, <2>3, MaxOfInterval, Zenon
  <2>5. QED BY <1>5, <2>1, <2>4
<1> HIDE DEF Is
<1>10. PICK acc : IsTrace(acc, N, Cur, zero, step, it[1..N])
  BY <1>1, <1>4, <1>8, <1>9, FoldTrace DEF Computes
<1>11. \A i \in 1..N : acc[i] = PushSegmentCharMode(acc[i - 1], <<cells[i]>>)
  BY <1>1, <1>5, <1>10 DEF IsTrace
<1>12. /\ acc \in [0..N -> Cur]
       /\ acc[0] = zero
       /\ \A i \in 1..N : acc[i] = PushSegmentCharMode(acc[i - 1], <<cells[i]>>)
       /\ acc[N] = fold
  BY <1>2, <1>10, <1>11 DEF IsTrace
<1>13. QED BY <1>12, Zenon DEF N, zero, fold, CellsTrace

WordsFold(cur, segs) ==
    FoldLeft(LAMBDA a, seg : PushWord(a, seg), [fill |-> FALSE, cur |-> cur], segs)

WordsTrace(acc, cur, segs) ==
    /\ acc \in [0..Len(segs) -> [fill : BOOLEAN, cur : Cur]]
    /\ acc[0] = [fill |-> FALSE, cur |-> cur]
    /\ \A i \in 1..Len(segs) : acc[i] = PushWord(acc[i - 1], segs[i])
    /\ acc[Len(segs)] = WordsFold(cur, segs)

LEMMA WordsFolds ==
    ASSUME NEW cur \in Cur,
           NEW segs \in Seq(Seq(Cell))
    PROVE  \E acc : WordsTrace(acc, cur, segs)
<1> DEFINE N == Len(segs)
           zero == [fill |-> FALSE, cur |-> cur]
           fold == WordsFold(cur, segs)
           Is(it) == it = [x \in SUBSET (DOMAIN segs) |->
                             IF x = {} THEN zero
                             ELSE LET y == Max(x) IN PushWord(it[x \ {y}], segs[y])]
           it == CHOOSE it : Is(it)
           step == [i \in 1..N |-> [a \in [fill : BOOLEAN, cur : Cur] |-> PushWord(a, segs[i])]]
<1>1. DOMAIN segs = 1..N /\ N \in Nat /\ zero \in [fill : BOOLEAN, cur : Cur]
  BY LenProperties
<1>2. fold = it[1..N]
  BY <1>1 DEF WordsFold, FoldLeft, MapThenFoldSet
<1>3. \A i \in 1..N, a \in [fill : BOOLEAN, cur : Cur] : PushWord(a, segs[i]) \in [fill : BOOLEAN, cur : Cur]
  <2>1. SUFFICES ASSUME NEW i \in 1..N, NEW a \in [fill : BOOLEAN, cur : Cur]
                 PROVE  PushWord(a, segs[i]) \in [fill : BOOLEAN, cur : Cur]
    OBVIOUS
  <2>2. segs[i] \in Seq(Cell)
    BY ElementOfSeq
  <2>3. a = [fill |-> a.fill, cur |-> a.cur] /\ a.fill \in BOOLEAN /\ a.cur \in Cur
    OBVIOUS
  <2>4. QED BY <2>2, <2>3, PushSegmentTypes
<1> HIDE DEF N, zero, fold
<1>4. step \in [1..N -> [[fill : BOOLEAN, cur : Cur] -> [fill : BOOLEAN, cur : Cur]]]
  BY <1>3
<1>5. \A i \in 1..N, a \in [fill : BOOLEAN, cur : Cur] : step[i][a] = PushWord(a, segs[i])
  OBVIOUS
<1> HIDE DEF step
<1>6. \E f : Is(f)
  <2> HIDE DEF Is, it
  <2>1. PICK f \in [SUBSET (1..N) -> [fill : BOOLEAN, cur : Cur]] : IsFold(f, N, zero, step)
    BY <1>1, <1>4, FoldExists
  <2>2. \A x \in SUBSET (1..N) : x # {} => Max(x) \in 1..N
    BY <1>1, MaxIn
  <2>3. \A x \in SUBSET (1..N) :
          (IF x = {} THEN zero ELSE step[Max(x)][f[x \ {Max(x)}]])
            = IF x = {} THEN zero ELSE PushWord(f[x \ {Max(x)}], segs[Max(x)])
    BY <1>5, <2>1, <2>2, ZenonT(30)
  <2>4. f = [x \in SUBSET (1..N) |->
               IF x = {} THEN zero ELSE PushWord(f[x \ {Max(x)}], segs[Max(x)])]
    BY <2>1, <2>3, ZenonT(30) DEF IsFold
  <2>5. QED BY <1>1, <2>4 DEF Is
<1>7. Is(it)
  BY <1>6, ZenonT(30)
<1> HIDE DEF it
<1>8. it[{}] = zero
  BY <1>7
<1>9. \A i \in 1..N : it[1..(i - 1)] \in [fill : BOOLEAN, cur : Cur] => it[1..i] = step[i][it[1..(i - 1)]]
  <2>1. SUFFICES ASSUME NEW i \in 1..N, it[1..(i - 1)] \in [fill : BOOLEAN, cur : Cur]
                 PROVE  it[1..i] = step[i][it[1..(i - 1)]]
    OBVIOUS
  <2>2. 1..i \in SUBSET (DOMAIN segs) /\ i \in Nat \ {0}
    BY <1>1
  <2>3. it[1..i] = IF 1..i = {} THEN zero
                   ELSE PushWord(it[(1..i) \ {Max(1..i)}], segs[Max(1..i)])
    BY <1>7, <2>2, Zenon
  <2>4. it[1..i] = PushWord(it[1..(i - 1)], segs[i])
    BY <2>2, <2>3, MaxOfInterval, Zenon
  <2>5. QED BY <1>5, <2>1, <2>4
<1> HIDE DEF Is
<1>10. PICK acc : IsTrace(acc, N, [fill : BOOLEAN, cur : Cur], zero, step, it[1..N])
  BY <1>1, <1>4, <1>8, <1>9, FoldTrace DEF Computes
<1>11. \A i \in 1..N : acc[i] = PushWord(acc[i - 1], segs[i])
  <2>1. \A i \in 1..N : acc[i - 1] \in [fill : BOOLEAN, cur : Cur] /\ acc[i] = step[i][acc[i - 1]]
    BY <1>1, <1>10 DEF IsTrace
  <2>2. QED BY <1>5, <2>1
<1>12. /\ acc \in [0..N -> [fill : BOOLEAN, cur : Cur]]
       /\ acc[0] = zero
       /\ \A i \in 1..N : acc[i] = PushWord(acc[i - 1], segs[i])
       /\ acc[N] = fold
  BY <1>2, <1>10, <1>11 DEF IsTrace
<1>13. QED BY <1>12, Zenon DEF N, zero, fold, WordsTrace

\* Laying out a part of the line, cell by cell, by itself, or as a word.
LEMMA FlushIfOverLays ==
    ASSUME WrapSet, NEW cells \in Seq(Cell), NEW old \in Seq(VLine), NEW n \in Nat,
           NEW j \in 0..Len(cells), NEW cur, Laid(cells, old, n, cur, j), NEW w
    PROVE  Laid(cells, old, n, FlushIfOver(cur, w), j)
<1>1. cur.w > 0 => Laid(cells, old, n, Flush(cur), j)
  BY Flushes
<1>2. QED BY <1>1 DEF FlushIfOver

LEMMA PushCharsLays ==
    ASSUME WrapSet, NEW cells \in Seq(Broad), NEW old \in Seq(VLine), NEW n \in Nat,
           NEW a \in 0..Len(cells), NEW b \in a..Len(cells),
           NEW cur, Laid(cells, old, n, cur, a)
    PROVE  Laid(cells, old, n, PushChars(cur, SubSeq(cells, a + 1, b)), b)
<1> cells \in Seq(Cell)
  BY BroadAreCells
<1> DEFINE seg == SubSeq(cells, a + 1, b)
           m == b - a
<1>1. /\ Len(cells) \in Nat /\ a \in Nat /\ b \in Nat /\ m \in Nat /\ b <= Len(cells)
  BY LenProperties
<1>2. seg \in Seq(Cell) /\ Len(seg) = m /\ \A i \in 1..m : seg[i] = cells[a + i]
  BY ColsOfPart
<1> HIDE DEF seg
<1>3. cur \in Cur
  BY DEF Laid
<1>4. PICK f : CharsTrace(f, cur, seg)
  BY <1>2, <1>3, CharsFolds
<1>5. /\ f[0] = cur /\ f[m] = PushChars(cur, seg)
      /\ \A i \in 1..m : f[i] = PushChar(f[i - 1], seg[i])
  BY <1>2, <1>4 DEF CharsTrace, CharsFold, PushChars
<1> DEFINE S == {i \in 0..m : Laid(cells, old, n, f[i], a + i)}
<1>6. 0 \in S
  BY <1>1, <1>5
<1>7. ASSUME NEW i \in 1..m, i - 1 \in S PROVE i \in S
  <2> DEFINE j == a + (i - 1)
             to == a + i
             c == f[i - 1]
             w == cells[to].width
  <2>1. j \in 0..Len(cells) /\ to \in 1..Len(cells) /\ to = j + 1 /\ j < to /\ to - 1 = j
    BY <1>1
  <2>2. Laid(cells, old, n, c, j)
    BY <1>7
  <2>3. f[i] = Advance(FlushIfOver(c, w), w)
    BY <1>2, <1>5 DEF PushChar
  <2> HIDE DEF j, to, c
  <2>4. w = Cols(cells, to) - Cols(cells, j)
    <3>1. Cols(cells, to) = Cols(cells, j) + w /\ Cols(cells, j) \in Nat
      BY <2>1, ColsAre
    <3>2. cells[to] \in Cell
      BY <2>1, ElementOfSeq
    <3>3. w \in Nat
      BY <3>2 DEF Cell
    <3> HIDE DEF w
    <3>4. QED BY <3>1, <3>3
  <2> HIDE DEF w
  <2>5. to \in 0..Len(cells)
    BY <2>1
  <2>6. Laid(cells, old, n, Advance(FlushIfOver(c, w), w), to)
    BY <2>1, <2>2, <2>4, <2>5, Takes
  <2>7. i \in 0..m
    BY <1>1
  <2>8. QED BY <2>3, <2>6, <2>7 DEF to
<1> HIDE DEF S
<1>8. \A i \in 0..m : i \in S
  <2> HIDE DEF m
  <2>1. QED BY <1>1, <1>6, <1>7, Induction
<1>9. Laid(cells, old, n, f[m], a + m) /\ a + m = b
  BY <1>1, <1>8 DEF S
<1>10. QED BY <1>5, <1>9 DEF seg

LEMMA PushCellLays ==
    ASSUME WrapSet, NEW cells \in Seq(Broad), NEW old \in Seq(VLine), NEW n \in Nat,
           NEW j \in 1..Len(cells), NEW cur, Laid(cells, old, n, cur, j - 1)
    PROVE  Laid(cells, old, n, PushSegmentCharMode(cur, <<cells[j]>>), j)
<1> cells \in Seq(Cell)
  BY BroadAreCells
<1> DEFINE i == j - 1
           seg == SubSeq(cells, i + 1, j)
           w == Width(seg)
           flushed == FlushIfOver(cur, w)
<1>1. i \in 0..Len(cells) /\ j \in 0..Len(cells) /\ j \in i..Len(cells) /\ j = i + 1 /\ i < j
      /\ j - i = 1
  BY LenProperties
<1> HIDE DEF i
<1>2. /\ seg \in Seq(Cell) /\ Len(seg) = 1 /\ seg[1] = cells[j]
      /\ w = Cols(cells, j) - Cols(cells, i)
  BY <1>1, ColsOfPart
<1> HIDE DEF seg
<1>3. <<cells[j]>> = seg
  BY <1>2, ElementOfSeq, SeqEqual
<1> HIDE DEF w
<1>4. PushSegmentCharMode(cur, seg)
        = IF w > LineWrapW(cur) THEN PushChars(flushed, seg) ELSE PushCols(flushed, w)
  BY DEF PushSegmentCharMode, w
<1>5. Laid(cells, old, n, cur, i)
  BY DEF i
<1>6. Laid(cells, old, n, flushed, i)
  BY <1>1, <1>5, FlushIfOverLays
<1>7. CASE w > LineWrapW(cur)
  <2> HIDE DEF flushed
  <2>1. Laid(cells, old, n, PushChars(flushed, seg), j)
    BY <1>1, <1>6, PushCharsLays DEF seg
  <2>2. QED BY <1>3, <1>4, <1>7, <2>1
<1>8. CASE ~(w > LineWrapW(cur))
  <2>1. Laid(cells, old, n, Advance(flushed, w), j)
    BY <1>1, <1>2, <1>5, Takes
  <2>2. PushCols(flushed, w) = Advance(flushed, w)
    <3> HIDE DEF flushed
    <3>1. QED BY <1>1, <1>6, PushColsTakes
  <2>3. QED BY <1>3, <1>4, <1>8, <2>1, <2>2
<1>9. QED BY <1>7, <1>8

LEMMA PushWordLays ==
    ASSUME WrapSet, NEW cells \in Seq(Broad), NEW old \in Seq(VLine), NEW n \in Nat,
           NEW a \in 0..Len(cells), NEW b \in a..Len(cells), a < b,
           NEW acc \in [fill : BOOLEAN, cur : Cur], Laid(cells, old, n, acc.cur, a)
    PROVE  Laid(cells, old, n, PushWord(acc, SubSeq(cells, a + 1, b)).cur, b)
<1> cells \in Seq(Cell)
  BY BroadAreCells
<1> DEFINE seg == SubSeq(cells, a + 1, b)
           w == Width(seg)
           cur == acc.cur
           flushed == FlushIfOver(cur, w)
<1>1. b \in 0..Len(cells)
  BY LenProperties
<1>2. w = Cols(cells, b) - Cols(cells, a)
  BY ColsOfPart
<1> HIDE DEF w
<1>3. PushWord(acc, seg)
        = IF acc.fill THEN [acc EXCEPT !.cur = PushChars(acc.cur, seg)]
          ELSE IF w <= LineWrapW(flushed) THEN [acc EXCEPT !.cur = PushCols(flushed, w)]
          ELSE [fill |-> TRUE, cur |-> PushChars(flushed, seg)]
  BY DEF PushWord, w
<1> HIDE DEF cur
<1>4. Laid(cells, old, n, cur, a)
  BY DEF cur
<1>5. Laid(cells, old, n, flushed, a)
  BY <1>4, FlushIfOverLays
<1>6. Laid(cells, old, n, PushChars(cur, seg), b)
  BY <1>4, PushCharsLays
<1>7. Laid(cells, old, n, PushChars(flushed, seg), b)
  <2> HIDE DEF flushed
  <2>1. QED BY <1>5, PushCharsLays
<1>8. w <= LineWrapW(flushed) => Laid(cells, old, n, PushCols(flushed, w), b)
  <2>1. w <= LineWrapW(flushed) => Laid(cells, old, n, Advance(flushed, w), b)
    BY <1>1, <1>2, <1>4, Takes
  <2>2. PushCols(flushed, w) = Advance(flushed, w)
    <3> HIDE DEF flushed
    <3>1. QED BY <1>5, PushColsTakes
  <2>3. QED BY <2>1, <2>2
<1> HIDE DEF flushed, seg
<1>9. CASE acc.fill
  BY <1>3, <1>6, <1>9 DEF cur, seg
<1>10. CASE ~acc.fill /\ w <= LineWrapW(flushed)
  BY <1>3, <1>8, <1>10 DEF seg
<1>11. CASE ~acc.fill /\ ~(w <= LineWrapW(flushed))
  BY <1>3, <1>7, <1>11 DEF seg
<1>12. QED BY <1>9, <1>10, <1>11

\* The units of a line are its parts between some places.
Parts(segs, cells, p, m) ==
    /\ segs \in Seq(Seq(Cell)) /\ Len(segs) = m /\ m \in Nat
    /\ p \in [0..m -> 0..Len(cells)] /\ p[0] = 0 /\ p[m] = Len(cells)
    /\ \A i \in 1..m : p[i - 1] < p[i] /\ segs[i] = SubSeq(cells, p[i - 1] + 1, p[i])

LEMMA CutAtParts ==
    ASSUME NEW cells \in Seq(Cell), NEW idx \in SUBSET (1..Len(cells)), 1 \in idx
    PROVE  \E p, m : Parts(CutAt(cells, Sorted(idx)), cells, p, m)
<1> DEFINE n == Len(cells)
           from == Sorted(idx)
           m == Cardinality(idx)
           stop(j) == IF j = m THEN n ELSE from[j + 1] - 1
           e(j) == SubSeq(cells, from[j], stop(j))
           p == [i \in 0..m |-> IF i = m THEN n ELSE from[i + 1] - 1]
           segs == CutAt(cells, from)
<1>1. n \in Nat /\ IsFiniteSet(idx) /\ idx \in SUBSET Nat
  BY LenProperties, PickIsSeq
<1>2. /\ m \in Nat /\ from \in [1..m -> idx]
      /\ \A i, j \in 1..m : i < j => from[i] < from[j]
      /\ \A k \in idx : \E i \in 1..m : from[i] = k
  BY <1>1, SortedSet
<1>3. segs = [j \in 1..m |-> e(j)]
  <2> HIDE DEF from, m
  <2>1. DOMAIN from = 1..m /\ Len(from) = m
    BY <1>2
  <2>2. QED BY <2>1 DEF CutAt
<1> HIDE DEF from, m, segs
<1>4. \A i \in 1..m : from[i] \in 1..n /\ from[i] \in Nat
  BY <1>1, <1>2
<1>5. m # 0 /\ from[1] = 1
  <2>1. PICK i \in 1..m : from[i] = 1
    BY <1>2
  <2>2. 1 \in 1..m
    BY <1>2, <2>1
  <2>3. ~(1 < i)
    BY <1>2, <1>4, <2>1, <2>2
  <2>4. QED BY <1>2, <2>1, <2>2, <2>3
<1>6. /\ p \in [0..m -> 0..n] /\ p[0] = 0 /\ p[m] = n
      /\ \A i \in 1..m : p[i - 1] = from[i] - 1 /\ p[i] = stop(i)
  <2>1. ASSUME NEW i \in 0..m PROVE (IF i = m THEN n ELSE from[i + 1] - 1) \in 0..n
    <3>1. CASE i = m
      BY <1>1, <3>1
    <3>2. CASE i # m
      BY <1>1, <1>2, <1>4, <3>2
    <3>3. QED BY <3>1, <3>2
  <2>2. p \in [0..m -> 0..n]
    BY <2>1
  <2>3. 0 \in 0..m /\ m \in 0..m /\ 0 + 1 = 1
    BY <1>2
  <2>4. p[0] = 0 /\ p[m] = n
    BY <1>5, <2>3
  <2>5. ASSUME NEW i \in 1..m PROVE p[i - 1] = from[i] - 1 /\ p[i] = stop(i)
    BY <1>2
  <2>6. QED BY <2>2, <2>4, <2>5
<1>7. ASSUME NEW i \in 1..m
      PROVE  p[i - 1] < p[i] /\ e(i) = SubSeq(cells, p[i - 1] + 1, p[i])
  <2>1. (from[i] - 1) + 1 = from[i]
    BY <1>4
  <2>2. from[i] - 1 < stop(i)
    <3>1. CASE i = m
      BY <1>1, <1>4, <3>1
    <3>2. CASE i # m
      BY <1>2, <1>4, <3>2
    <3>3. QED BY <3>1, <3>2
  <2> HIDE DEF stop, p
  <2>3. QED BY <1>6, <2>1, <2>2
<1> HIDE DEF p
<1>8. ASSUME NEW i \in 1..m PROVE e(i) \in Seq(Cell)
  <2> DEFINE a == p[i - 1]
             c == p[i]
  <2>1. a \in 0..n /\ c \in 0..n /\ a < c
    BY <1>2, <1>6, <1>7
  <2> HIDE DEF a, c, e
  <2>2. c \in a..n
    BY <1>1, <2>1
  <2>3. SubSeq(cells, a + 1, c) \in Seq(Cell)
    BY <2>1, <2>2, ColsOfPart
  <2>4. QED BY <1>7, <2>3 DEF a, c
<1> HIDE DEF e
<1>9. segs \in [1..m -> Seq(Cell)]
  BY <1>3, <1>8
<1>10. segs \in Seq(Seq(Cell)) /\ Len(segs) = m
  <2> DEFINE T == Seq(Cell)
  <2>1. segs \in [1..m -> T]
    BY <1>9
  <2> HIDE DEF T
  <2>2. segs \in Seq(T) /\ Len(segs) = m
    BY <1>2, <2>1, FunctionIsSeq
  <2>3. QED BY <2>2 DEF T
<1>11. \A i \in 1..m : segs[i] = e(i)
  BY <1>3
<1>12. Parts(segs, cells, p, m)
  BY <1>2, <1>6, <1>7, <1>10, <1>11 DEF Parts
<1>13. QED BY <1>12 DEF segs, from

LEMMA WordsAreParts ==
    ASSUME NEW cells \in Seq(Cell), cells # <<>>
    PROVE  \E p, m : Parts(WordSegments(cells), cells, p, m)
<1> DEFINE class(k) == WordClass(content[cells[k].at])
           starts(k) == \/ k = 1
                        \/ IsWrapBreak(content[cells[k - 1].at])
                        \/ {class(k - 1), class(k)} = {"ascii", "cjk"}
           idx == {k \in DOMAIN cells : starts(k)}
<1>1. DOMAIN cells = 1..Len(cells) /\ Len(cells) \in Nat \ {0}
  BY LenProperties, EmptySeq
<1>2. WordSegments(cells) = CutAt(cells, Sorted(idx))
  BY DEF WordSegments
<1>3. idx \in SUBSET (1..Len(cells)) /\ 1 \in idx
  BY <1>1
<1> HIDE DEF idx
<1>4. QED BY <1>2, <1>3, CutAtParts

LEMMA PushType ==
    ASSUME NEW cur \in Cur, NEW cells \in Seq(Cell), cells # <<>>
    PROVE  Push(cur, cells) \in Cur
<1>1. CASE wrapMode = "char"
  <2>1. PICK f : CellsTrace(f, cur, cells)
    BY CellsFolds
  <2>2. Push(cur, cells) = CellsFold(cur, cells)
    BY <1>1 DEF Push, CellsFold
  <2>3. Len(cells) \in 0..Len(cells)
    BY LenProperties
  <2>4. QED BY <2>1, <2>2, <2>3 DEF CellsTrace
<1>2. CASE wrapMode # "char"
  <2> DEFINE segs == WordSegments(cells)
  <2>1. segs \in Seq(Seq(Cell))
    BY WordsAreParts DEF Parts
  <2>2. Push(cur, cells) = WordsFold(cur, segs).cur
    BY <1>2 DEF Push, WordsFold
  <2> HIDE DEF segs
  <2>3. PICK f : WordsTrace(f, cur, segs)
    BY <2>1, WordsFolds
  <2>4. Len(segs) \in 0..Len(segs)
    BY <2>1, LenProperties
  <2>5. WordsFold(cur, segs) \in [fill : BOOLEAN, cur : Cur]
    BY <2>3, <2>4 DEF WordsTrace
  <2>6. QED BY <2>2, <2>5
<1>3. QED BY <1>1, <1>2

\* The whole line, in either mode.
LEMMA PushLays ==
    ASSUME WrapSet, NEW cells \in Seq(Broad), cells # <<>>, NEW old \in Seq(VLine), NEW n \in Nat,
           NEW cur, Laid(cells, old, n, cur, 0)
    PROVE  Laid(cells, old, n, Push(cur, cells), Len(cells))
<1> cells \in Seq(Cell)
  BY BroadAreCells
<1>1. cur \in Cur /\ Len(cells) \in Nat
  BY LenProperties DEF Laid
<1>2. CASE wrapMode = "char"
  <2> DEFINE m == Len(cells)
  <2>1. PICK f : CellsTrace(f, cur, cells)
    BY <1>1, CellsFolds
  <2>2. Push(cur, cells) = CellsFold(cur, cells)
    BY <1>2 DEF Push, CellsFold
  <2>3. /\ f[0] = cur /\ f[m] = Push(cur, cells)
        /\ \A i \in 1..m : f[i] = PushSegmentCharMode(f[i - 1], <<cells[i]>>)
    BY <2>1, <2>2 DEF CellsTrace
  <2> DEFINE S == {i \in 0..m : Laid(cells, old, n, f[i], i)}
  <2>4. 0 \in S
    BY <1>1, <2>3
  <2>5. ASSUME NEW i \in 1..m, i - 1 \in S PROVE i \in S
    <3>1. Laid(cells, old, n, f[i - 1], i - 1)
      BY <2>5
    <3> DEFINE c == f[i - 1]
    <3> HIDE DEF c
    <3>2. Laid(cells, old, n, PushSegmentCharMode(c, <<cells[i]>>), i)
      BY <3>1, PushCellLays DEF c
    <3>3. i \in 0..m
      BY <1>1
    <3>4. QED BY <2>3, <3>2, <3>3 DEF c
  <2> HIDE DEF S
  <2>6. \A i \in 0..m : i \in S
    <3> HIDE DEF m
    <3>1. m \in Nat
      BY <1>1 DEF m
    <3>2. QED BY <2>4, <2>5, <3>1, Induction
  <2>7. m \in 0..m
    BY <1>1
  <2>8. QED BY <2>3, <2>6, <2>7 DEF S
<1>3. CASE wrapMode # "char"
  <2> DEFINE segs == WordSegments(cells)
  <2>1. PICK p, m : Parts(segs, cells, p, m)
    BY WordsAreParts
  <2>2. Push(cur, cells) = WordsFold(cur, segs).cur
    BY <1>3 DEF Push, WordsFold
  <2> HIDE DEF segs
  <2>3. segs \in Seq(Seq(Cell)) /\ Len(segs) = m /\ m \in Nat
    BY <2>1 DEF Parts
  <2>4. PICK f : WordsTrace(f, cur, segs)
    BY <1>1, <2>3, WordsFolds
  <2>5. /\ f[0] = [fill |-> FALSE, cur |-> cur] /\ f[m] = WordsFold(cur, segs)
        /\ f \in [0..m -> [fill : BOOLEAN, cur : Cur]]
        /\ \A i \in 1..m : f[i] = PushWord(f[i - 1], segs[i])
    BY <2>3, <2>4 DEF WordsTrace
  <2> DEFINE S == {i \in 0..m : Laid(cells, old, n, f[i].cur, p[i])}
  <2>6. 0 \in S
    BY <2>1, <2>3, <2>5 DEF Parts
  <2>7. ASSUME NEW i \in 1..m, i - 1 \in S PROVE i \in S
    <3> DEFINE a == p[i - 1]
               b == p[i]
               acc == f[i - 1]
    <3>1. /\ a \in 0..Len(cells) /\ b \in 0..Len(cells) /\ a < b
          /\ segs[i] = SubSeq(cells, a + 1, b) /\ i \in 0..m /\ i - 1 \in 0..m
      BY <2>1, <2>3, SMTT(30) DEF Parts
    <3>2. acc \in [fill : BOOLEAN, cur : Cur] /\ Laid(cells, old, n, acc.cur, a)
      BY <2>5, <2>7, <3>1
    <3> HIDE DEF a, b, acc
    <3>3. b \in a..Len(cells)
      BY <1>1, <3>1
    <3>4. Laid(cells, old, n, PushWord(acc, SubSeq(cells, a + 1, b)).cur, b)
      BY <3>1, <3>2, <3>3, PushWordLays
    <3>5. QED BY <2>5, <3>1, <3>4 DEF acc, b
  <2> HIDE DEF S
  <2>8. \A i \in 0..m : i \in S
    BY <2>3, <2>6, <2>7, Induction
  <2>9. m \in 0..m /\ p[m] = Len(cells)
    BY <2>1, <2>3 DEF Parts
  <2>10. QED BY <2>2, <2>5, <2>8, <2>9 DEF S
<1>4. QED BY <1>2, <1>3

(***************************************************************************)
(* A line added to those before.                                           *)
(***************************************************************************)
Lined == [vlines : Seq(VLine), global : Nat, pending : BOOLEAN]

\* acc2 is acc with the virtual lines of line n, which cut all of its cells.
AddedTo(acc, acc2, n, cells) ==
    /\ acc2 \in Lined /\ ~acc2.pending
    /\ \A k \in 1..Len(acc.vlines) : acc2.vlines[k] = acc.vlines[k]
    /\ \E m \in Nat \ {0} : \E b :
         /\ Len(acc2.vlines) = Len(acc.vlines) + m
         /\ Cutting(cells, acc2.vlines, Len(acc.vlines), m, n, b)
         /\ b[m] = Len(cells)

LEMMA CursorLays ==
    ASSUME WrapSet, NEW cells \in Seq(Cell), NEW acc \in Lined, NEW n \in Nat
    PROVE  /\ Cursor(acc, n) \in Cur
           /\ (acc.pending <=> (n = 1 /\ firstLineOffset > 0))
                => Laid(cells, acc.vlines, n, Cursor(acc, n), 0)
<1> DEFINE cur == Cursor(acc, n)
           b == [k \in 0..0 |-> 0]
           lo == Len(acc.vlines)
<1>1. /\ acc.vlines \in Seq(VLine) /\ acc.global \in Nat /\ acc.pending \in BOOLEAN
      /\ wrapWidth \in Nat
  BY DEF Lined, WrapSet
<1>2. cur = [vlines |-> acc.vlines, global |-> acc.global, pending |-> acc.pending, line |-> n,
             ww |-> wrapWidth, source |-> 0, w |-> 0, off |-> acc.global, from |-> 0, wrap |-> 0,
             any |-> FALSE]
  BY DEF Cursor
<1>3. cur \in Cur
  <2> HIDE DEF cur
  <2>1. QED BY <1>1, <1>2 DEF Cur
<1>4. lo \in Nat /\ Len(cells) \in Nat
  BY <1>1, LenProperties
<1>5. ASSUME acc.pending <=> (n = 1 /\ firstLineOffset > 0)
      PROVE  Laid(cells, acc.vlines, n, cur, 0)
  <2> HIDE DEF cur
  <2>1. /\ cur.line = n /\ cur.ww = wrapWidth /\ cur.source = 0 /\ cur.wrap = 0
        /\ cur.vlines = acc.vlines /\ cur.from = 0 /\ cur.w = 0
        /\ (cur.pending <=> acc.pending)
    BY <1>2
  <2>2. Cols(cells, 0) = 0
    BY ColsAre
  <2>3. b \in [0..0 -> 0..Len(cells)] /\ b[0] = 0
    BY <1>4
  <2> HIDE DEF b
  <2>4. Cutting(cells, acc.vlines, lo, 0, n, b)
    BY <2>3 DEF Cutting
  <2>5. UnderWay(cells, n, cur, 0, 0)
    BY <2>1, <2>2 DEF UnderWay
  <2>6. \E e : /\ Cutting(cells, cur.vlines, lo, cur.wrap, n, e)
               /\ UnderWay(cells, n, cur, e[cur.wrap], 0)
    BY <2>1, <2>3, <2>4, <2>5
  <2>7. Len(cur.vlines) = lo + cur.wrap
    BY <1>4, <2>1
  <2>8. cur.pending <=> (n = 1 /\ cur.wrap = 0 /\ firstLineOffset > 0)
    BY <1>5, <2>1
  <2>9. (0 > 0 => cur.any) /\ \A k \in 1..lo : cur.vlines[k] = acc.vlines[k]
    BY <2>1
  <2>10. cur.source = Cols(cells, 0)
    BY <2>1, <2>2
  <2>11. QED BY <1>3, <2>1, <2>6, <2>7, <2>8, <2>9, <2>10 DEF Laid
<1>6. QED BY <1>3, <1>5 DEF cur

LEMMA FinishType ==
    ASSUME NEW cur \in Cur PROVE Finish(cur) \in Seq(VLine) /\ LineDone(cur) \in Lined
<1> DEFINE v == VLineOf(cur)
<1>1. v \in VLine /\ cur.vlines \in Seq(VLine) /\ cur.global \in Nat
  BY DEF VLineOf, VLine, Cur
<1> HIDE DEF v
<1>2. Append(cur.vlines, v) \in Seq(VLine)
  BY <1>1, AppendProperties
<1>3. Finish(cur) \in Seq(VLine)
  BY <1>1, <1>2 DEF Finish, v
<1>4. cur.global + 1 \in Nat
  BY <1>1
<1>5. QED BY <1>3, <1>4 DEF LineDone, Lined

LEMMA WrapLineAdds ==
    ASSUME WrapSet, NEW cells \in Seq(Broad), cells # <<>>, NEW acc \in Lined, NEW n \in Nat
    PROVE  /\ WrapLine(acc, n, cells) \in Lined
           /\ (acc.pending <=> (n = 1 /\ firstLineOffset > 0))
                => AddedTo(acc, WrapLine(acc, n, cells), n, cells)
<1> cells \in Seq(Cell)
  BY BroadAreCells
<1> DEFINE start == Cursor(acc, n)
           cur == Push(start, cells)
           new == LineDone(cur)
           N == Len(cells)
           old == acc.vlines
           lo == Len(old)
<1>1. new = WrapLine(acc, n, cells)
  BY DEF WrapLine
<1>2. start \in Cur
  BY CursorLays
<1> HIDE DEF start
<1>3. cur \in Cur
  BY <1>2, PushType
<1> HIDE DEF cur
<1>4. new \in Lined
  BY <1>3, FinishType
<1>5. ASSUME acc.pending <=> (n = 1 /\ firstLineOffset > 0) PROVE AddedTo(acc, new, n, cells)
  <2>1. old \in Seq(VLine) /\ N \in Nat \ {0} /\ N \in 0..N
    BY LenProperties, EmptySeq DEF Lined
  <2>2. Laid(cells, old, n, start, 0)
    BY <1>5, CursorLays DEF start
  <2> HIDE DEF old
  <2>3. Laid(cells, old, n, cur, N)
    BY <2>1, <2>2, PushLays DEF cur
  <2> DEFINE done == IF cur.w > 0 THEN Flush(cur) ELSE cur
  <2>4. Laid(cells, old, n, done, N) /\ done.w = 0
    <3>1. cur.w \in Nat
      BY <1>3 DEF Cur
    <3>2. CASE cur.w > 0
      <4> HIDE DEF N
      <4>1. Laid(cells, old, n, Flush(cur), N) /\ Flush(cur).w = 0
        BY <2>1, <2>3, <3>2, Flushes DEF N
      <4>2. QED BY <3>2, <4>1
    <3>3. CASE ~(cur.w > 0)
      BY <2>3, <3>1, <3>3
    <3>4. QED BY <3>2, <3>3
  <2>5. new.vlines = done.vlines /\ ~new.pending
    BY <1>3, <2>1, <2>3 DEF Laid, Flush, Cur, LineDone, Finish
  <2> HIDE DEF done, new
  <2> DEFINE m == done.wrap
  <2>6. PICK b : Cutting(cells, done.vlines, lo, m, n, b) /\ UnderWay(cells, n, done, b[m], N)
    BY <2>4 DEF Laid
  <2>7. done \in Cur /\ m \in Nat
    BY <2>4 DEF Laid, Cur
  <2>8. b[m] = N
    <3> DEFINE a == b[m]
    <3>1. a \in 0..N /\ a <= N /\ done.w = Cols(cells, N) - Cols(cells, a)
      BY <2>6, <2>7 DEF Cutting, UnderWay
    <3> HIDE DEF a
    <3>2. Cols(cells, a) \in Nat /\ Cols(cells, N) \in Nat
      BY <2>1, <3>1, ColsAre
    <3>3. a < N => Cols(cells, a) < Cols(cells, N)
      BY <2>1, <3>1, ColsRise
    <3>4. ~(a < N)
      BY <2>4, <3>1, <3>2, <3>3
    <3>5. QED BY <2>1, <3>1, <3>4 DEF a
  <2>9. m # 0
    BY <2>1, <2>6, <2>8 DEF Cutting
  <2>10. /\ Len(done.vlines) = lo + m
         /\ \A k \in 1..lo : done.vlines[k] = old[k]
    BY <2>4 DEF Laid
  <2>11. \E k \in Nat \ {0} : \E e :
           /\ Len(new.vlines) = lo + k
           /\ Cutting(cells, new.vlines, lo, k, n, e)
           /\ e[k] = N
    BY <2>5, <2>6, <2>7, <2>8, <2>9, <2>10
  <2>12. QED BY <1>4, <2>5, <2>10, <2>11 DEF AddedTo, old, new
<1>6. QED BY <1>1, <1>4, <1>5

LEMMA WholeLineAdds ==
    ASSUME WrapSet, NEW cells \in Seq(Cell), NEW acc \in Lined, NEW n \in Nat,
           wrapMode = "none" \/ ~(wrapWidth > 0) \/ cells = <<>>
    PROVE  AddedTo(acc, WholeLine(acc, n, cells), n, cells)
<1> DEFINE new == WholeLine(acc, n, cells)
           N == Len(cells)
           old == acc.vlines
           lo == Len(old)
           v == [col |-> acc.global, width |-> Width(cells), line |-> n, src |-> 0, wrap |-> 0]
           b == [k \in 0..1 |-> IF k = 0 THEN 0 ELSE N]
<1>1. /\ old \in Seq(VLine) /\ acc.global \in Nat /\ lo \in Nat /\ N \in Nat
  BY LenProperties DEF Lined
<1>2. Width(cells) \in Nat /\ Width(cells) = Cols(cells, N) /\ Cols(cells, 0) = 0
  BY WidthIsNat, ColsAre
<1>3. v \in VLine
  BY <1>1, <1>2 DEF VLine
<1>4. /\ Append(old, v) \in Seq(VLine) /\ Len(Append(old, v)) = lo + 1
      /\ \A k \in 1..lo : Append(old, v)[k] = old[k]
      /\ Append(old, v)[lo + 1] = v
  <2> HIDE DEF v, old
  <2>1. QED BY <1>1, <1>3, AppendProperties
<1>5. new = [vlines |-> Append(old, v), global |-> acc.global + Width(cells) + 1,
             pending |-> FALSE]
  BY DEF WholeLine
<1>6. acc.global + Width(cells) + 1 \in Nat
  BY <1>1, <1>2
<1>7. v.line = n /\ v.wrap = 0 /\ v.src = 0 /\ v.width = Cols(cells, N)
  BY <1>2
<1> HIDE DEF new, v
<1>8. new \in Lined /\ ~new.pending /\ new.vlines = Append(old, v)
  BY <1>4, <1>5, <1>6 DEF Lined
<1>9. b \in [0..1 -> 0..N] /\ b[0] = 0 /\ b[1] = N
  BY <1>1
<1> HIDE DEF b
<1>10. Fits(cells, n, 1, 0, N)
  <2>1. SUFFICES ASSUME wrapMode # "none", wrapWidth > 0
                 PROVE  Cols(cells, N) - Cols(cells, 0) <= Room(n, 1)
    BY DEF Fits
  <2>2. N = 0
    BY <2>1
  <2>3. Cols(cells, N) - Cols(cells, 0) = 0
    BY <1>2, <2>2
  <2>4. Room(n, 1) \in Nat
    BY DEF WrapSet, Room
  <2> HIDE DEF N
  <2>5. QED BY <2>3, <2>4
<1>11. CutIs(cells, v, n, 1, 0, N)
  <2>1. Cols(cells, N) - Cols(cells, 0) = Cols(cells, N)
    BY <1>2
  <2>2. 1 - 1 = 0 /\ 0 <= N
    BY <1>1
  <2> HIDE DEF N
  <2>3. QED BY <1>2, <1>7, <1>10, <2>1, <2>2 DEF CutIs
<1>12. Cutting(cells, new.vlines, lo, 1, n, b)
  BY <1>4, <1>8, <1>9, <1>11 DEF Cutting
<1>13. 1 \in Nat \ {0} /\ Len(new.vlines) = lo + 1
  BY <1>4, <1>8
<1>14. \E m \in Nat \ {0} : \E e :
         /\ Len(new.vlines) = lo + m
         /\ Cutting(cells, new.vlines, lo, m, n, e)
         /\ e[m] = N
  BY <1>9, <1>12, <1>13
<1>15. QED BY <1>4, <1>8, <1>14 DEF AddedTo, new

LEMMA AddLineType ==
    ASSUME WrapSet, NEW cells \in Seq(Cell), NEW acc \in Lined, NEW n \in Nat
    PROVE  AddLine(acc, n, cells) \in Lined
<1>1. CASE wrapMode # "none" /\ wrapWidth > 0 /\ cells # <<>>
  <2> DEFINE start == Cursor(acc, n)
  <2>1. start \in Cur
    BY CursorLays
  <2> HIDE DEF start
  <2>2. Push(start, cells) \in Cur
    BY <1>1, <2>1, PushType
  <2>3. LineDone(Push(start, cells)) \in Lined
    BY <2>2, FinishType
  <2>4. QED BY <1>1, <2>3 DEF AddLine, WrapLine, start
<1>2. CASE ~(wrapMode # "none" /\ wrapWidth > 0 /\ cells # <<>>)
  BY <1>2, WholeLineAdds DEF AddLine, AddedTo
<1>3. QED BY <1>1, <1>2

LEMMA AddLineAdds ==
    ASSUME WrapSet, NEW cells \in Seq(Broad), NEW acc \in Lined, NEW n \in Nat,
           acc.pending <=> (n = 1 /\ firstLineOffset > 0)
    PROVE  AddedTo(acc, AddLine(acc, n, cells), n, cells)
<1> cells \in Seq(Cell)
  BY BroadAreCells
<1>1. CASE wrapMode # "none" /\ wrapWidth > 0 /\ cells # <<>>
  BY <1>1, WrapLineAdds DEF AddLine
<1>2. CASE ~(wrapMode # "none" /\ wrapWidth > 0 /\ cells # <<>>)
  BY <1>2, WholeLineAdds DEF AddLine
<1>3. QED BY <1>1, <1>2

\* The cells of the lines of a text.
TabSet == tabWidth \in Nat
TextSet == content \in Seq(Scalars)

\* Every cell has columns.
AllBroad == \A n \in 1..Len(ContentLines(content)) : CellsOf(n) \in Seq(Broad)

LEMMA CellsOfType ==
    ASSUME TextSet, TabSet
    PROVE  /\ \A n \in 1..Len(ContentLines(content)) : CellsOf(n) \in Seq(Cell)
           /\ tabWidth > 0 => AllBroad
<1>1. Cuts(ContentLines(content), content)
  BY LinesOfText DEF TextSet
<1>2. ASSUME NEW n \in 1..Len(ContentLines(content))
      PROVE  CellsOf(n) \in Seq(Cell) /\ (tabWidth > 0 => CellsOf(n) \in Seq(Broad))
  <2> DEFINE line == ContentLines(content)[n]
  <2>1. line \in [from : Nat, to : Nat] /\ line.from <= line.to + 1
    BY <1>1 DEF Cuts
  <2> HIDE DEF line
  <2>2. /\ LineCells(content, line, tabWidth) \in Seq(Cell)
        /\ tabWidth > 0 => LineCells(content, line, tabWidth) \in Seq(Broad)
    BY <2>1, LineCellsType DEF TabSet
  <2>3. QED BY <2>2 DEF CellsOf, line
<1>3. QED BY <1>2 DEF AllBroad

\* The first lines of a text, before there is any.
NoLine == [vlines |-> <<>>, global |-> 0, pending |-> firstLineOffset > 0]

LinesFold(lines) ==
    FoldLeft(LAMBDA acc, n : AddLine(acc, n, CellsOf(n)), NoLine, Numbers(lines))

LinesTrace(acc, lines) ==
    /\ acc \in [0..Len(lines) -> Lined]
    /\ acc[0] = NoLine
    /\ \A i \in 1..Len(lines) : acc[i] = AddLine(acc[i - 1], Numbers(lines)[i], CellsOf(Numbers(lines)[i]))
    /\ acc[Len(lines)] = LinesFold(lines)

LEMMA LinesFolds ==
    ASSUME WrapSet,
           TextSet,
           TabSet,
           NEW lines,
           lines = ContentLines(content)
    PROVE  \E acc : LinesTrace(acc, lines)
<1> DEFINE N == Len(lines)
           zero == NoLine
           fold == LinesFold(lines)
           Is(it) == it = [x \in SUBSET (DOMAIN Numbers(lines)) |->
                             IF x = {} THEN zero
                             ELSE LET y == Max(x) IN AddLine(it[x \ {y}], Numbers(lines)[y], CellsOf(Numbers(lines)[y]))]
           it == CHOOSE it : Is(it)
           step == [i \in 1..N |-> [a \in Lined |-> AddLine(a, Numbers(lines)[i], CellsOf(Numbers(lines)[i]))]]
<1>1. DOMAIN Numbers(lines) = 1..N /\ N \in Nat /\ zero \in Lined
  BY LinesOfText DEF TextSet, Cuts, NoLine, Lined, Numbers
<1>2. fold = it[1..N]
  BY <1>1 DEF LinesFold, FoldLeft, MapThenFoldSet
<1>3. \A i \in 1..N, a \in Lined : AddLine(a, Numbers(lines)[i], CellsOf(Numbers(lines)[i])) \in Lined
  <2>1. SUFFICES ASSUME NEW i \in 1..N, NEW a \in Lined
                 PROVE  AddLine(a, Numbers(lines)[i], CellsOf(Numbers(lines)[i])) \in Lined
    OBVIOUS
  <2>2. Numbers(lines)[i] = i /\ i \in Nat
    BY <1>1 DEF Numbers
  <2>3. CellsOf(i) \in Seq(Cell)
    BY <1>1, CellsOfType
  <2> DEFINE cells == CellsOf(i)
  <2> HIDE DEF cells
  <2>4. AddLine(a, i, cells) \in Lined
    BY <2>2, <2>3, AddLineType DEF cells
  <2>5. QED BY <2>2, <2>4 DEF cells
<1> HIDE DEF N, zero, fold
<1>4. step \in [1..N -> [Lined -> Lined]]
  BY <1>3
<1>5. \A i \in 1..N, a \in Lined : step[i][a] = AddLine(a, Numbers(lines)[i], CellsOf(Numbers(lines)[i]))
  OBVIOUS
<1> HIDE DEF step
<1>6. \E f : Is(f)
  <2> HIDE DEF Is, it
  <2>1. PICK f \in [SUBSET (1..N) -> Lined] : IsFold(f, N, zero, step)
    BY <1>1, <1>4, FoldExists
  <2>2. \A x \in SUBSET (1..N) : x # {} => Max(x) \in 1..N
    BY <1>1, MaxIn
  <2>3. \A x \in SUBSET (1..N) :
          (IF x = {} THEN zero ELSE step[Max(x)][f[x \ {Max(x)}]])
            = IF x = {} THEN zero ELSE AddLine(f[x \ {Max(x)}], Numbers(lines)[Max(x)], CellsOf(Numbers(lines)[Max(x)]))
    BY <1>5, <2>1, <2>2, ZenonT(30)
  <2>4. f = [x \in SUBSET (1..N) |->
               IF x = {} THEN zero ELSE AddLine(f[x \ {Max(x)}], Numbers(lines)[Max(x)], CellsOf(Numbers(lines)[Max(x)]))]
    BY <2>1, <2>3, ZenonT(30) DEF IsFold
  <2>5. QED BY <1>1, <2>4 DEF Is
<1>7. Is(it)
  BY <1>6, ZenonT(30)
<1> HIDE DEF it
<1>8. it[{}] = zero
  BY <1>7
<1>9. \A i \in 1..N : it[1..(i - 1)] \in Lined => it[1..i] = step[i][it[1..(i - 1)]]
  <2>1. SUFFICES ASSUME NEW i \in 1..N, it[1..(i - 1)] \in Lined
                 PROVE  it[1..i] = step[i][it[1..(i - 1)]]
    OBVIOUS
  <2>2. 1..i \in SUBSET (DOMAIN Numbers(lines)) /\ i \in Nat \ {0}
    BY <1>1
  <2>3. it[1..i] = IF 1..i = {} THEN zero
                   ELSE AddLine(it[(1..i) \ {Max(1..i)}], Numbers(lines)[Max(1..i)], CellsOf(Numbers(lines)[Max(1..i)]))
    BY <1>7, <2>2, Zenon
  <2>4. it[1..i] = AddLine(it[1..(i - 1)], Numbers(lines)[i], CellsOf(Numbers(lines)[i]))
    BY <2>2, <2>3, MaxOfInterval, Zenon
  <2>5. QED BY <1>5, <2>1, <2>4
<1> HIDE DEF Is
<1>10. PICK acc : IsTrace(acc, N, Lined, zero, step, it[1..N])
  BY <1>1, <1>4, <1>8, <1>9, FoldTrace DEF Computes
<1>11. \A i \in 1..N : acc[i] = AddLine(acc[i - 1], Numbers(lines)[i], CellsOf(Numbers(lines)[i]))
  BY <1>1, <1>5, <1>10 DEF IsTrace
<1>12. /\ acc \in [0..N -> Lined]
       /\ acc[0] = zero
       /\ \A i \in 1..N : acc[i] = AddLine(acc[i - 1], Numbers(lines)[i], CellsOf(Numbers(lines)[i]))
       /\ acc[N] = fold
  BY <1>2, <1>10, <1>11 DEF IsTrace
<1>13. QED BY <1>12, Zenon DEF N, zero, fold, LinesTrace

\* The virtual lines of line i are the m after the first lo, and cut its cells.
LineCut(vlines, i) ==
    \E lo \in Nat, m \in Nat \ {0} : \E b :
      /\ lo + m <= Len(vlines)
      /\ \A k \in 1..Len(vlines) : vlines[k].line = i <=> k \in (lo + 1)..(lo + m)
      /\ Cutting(CellsOf(i), vlines, lo, m, i, b)
      /\ b[m] = Len(CellsOf(i))

LinesCut(acc, n) ==
    /\ acc \in Lined /\ (acc.pending <=> (n = 0 /\ firstLineOffset > 0))
    /\ \A k \in 1..Len(acc.vlines) : acc.vlines[k].line \in 1..n
    /\ \A i \in 1..n : LineCut(acc.vlines, i)

LEMMA LineKept ==
    ASSUME NEW acc \in Lined, NEW acc2, NEW n \in Nat, NEW cells, AddedTo(acc, acc2, n, cells),
           NEW i \in Nat, i # n, LineCut(acc.vlines, i)
    PROVE  LineCut(acc2.vlines, i)
<1> DEFINE old == acc.vlines
           new == acc2.vlines
<1>1. PICK lo, m, b :
        /\ lo \in Nat /\ m \in Nat \ {0}
        /\ lo + m <= Len(old)
        /\ \A k \in 1..Len(old) : old[k].line = i <=> k \in (lo + 1)..(lo + m)
        /\ Cutting(CellsOf(i), old, lo, m, i, b)
        /\ b[m] = Len(CellsOf(i))
  BY DEF LineCut
<1>2. \A k \in 1..Len(old) : new[k] = old[k]
  BY DEF AddedTo
<1>3. PICK more, d :
        /\ more \in Nat \ {0}
        /\ Len(new) = Len(old) + more
        /\ Cutting(cells, new, Len(old), more, n, d)
  BY DEF AddedTo
<1>4. Len(old) \in Nat
  BY LenProperties DEF Lined
<1> HIDE DEF old, new
<1>5. lo + m <= Len(new)
  BY <1>1, <1>3, <1>4
<1>6. ASSUME NEW k \in 1..Len(new)
      PROVE  new[k].line = i <=> k \in (lo + 1)..(lo + m)
  <2>1. CASE k \in 1..Len(old)
    BY <1>1, <1>2, <2>1
  <2>2. CASE k \notin 1..Len(old)
    <3> DEFINE j == k - Len(old)
    <3>1. j \in 1..more /\ Len(old) + j = k
      BY <1>3, <1>4, <2>2
    <3> HIDE DEF j
    <3>2. new[k].line = n
      BY <1>3, <3>1 DEF Cutting, CutIs
    <3>3. k \notin (lo + 1)..(lo + m)
      BY <1>1, <1>4, <2>2
    <3>4. QED BY <3>2, <3>3
  <2>3. QED BY <2>1, <2>2
<1>7. Cutting(CellsOf(i), new, lo, m, i, b)
  <2>1. \A k \in 1..m : lo + k \in 1..Len(old)
    BY <1>1, <1>4
  <2>2. \A k \in 1..m : new[lo + k] = old[lo + k]
    BY <1>2, <2>1
  <2>3. QED BY <1>1, <2>2 DEF Cutting
<1>8. LineCut(new, i)
  BY <1>1, <1>5, <1>6, <1>7 DEF LineCut
<1>9. QED BY <1>8 DEF new

LEMMA LineAdded ==
    ASSUME NEW acc \in Lined, NEW acc2, NEW n \in Nat \ {0}, AddedTo(acc, acc2, n, CellsOf(n)),
           \A k \in 1..Len(acc.vlines) : acc.vlines[k].line \in 1..(n - 1)
    PROVE  /\ LineCut(acc2.vlines, n)
           /\ \A k \in 1..Len(acc2.vlines) : acc2.vlines[k].line \in 1..n
<1> DEFINE old == acc.vlines
           new == acc2.vlines
           lo == Len(old)
<1>1. \A k \in 1..lo : new[k] = old[k] /\ old[k].line \in 1..(n - 1)
  BY DEF AddedTo
<1>2. PICK m, b :
        /\ m \in Nat \ {0}
        /\ Len(new) = lo + m
        /\ Cutting(CellsOf(n), new, lo, m, n, b)
        /\ b[m] = Len(CellsOf(n))
  BY DEF AddedTo
<1>3. lo \in Nat
  BY LenProperties DEF Lined
<1> HIDE DEF old, new, lo
<1>4. ASSUME NEW k \in 1..Len(new)
      PROVE  /\ new[k].line \in 1..n
             /\ new[k].line = n <=> k \in (lo + 1)..(lo + m)
  <2>1. CASE k \in 1..lo
    BY <1>1, <1>3, <2>1
  <2>2. CASE k \notin 1..lo
    <3> DEFINE j == k - lo
    <3>1. j \in 1..m /\ lo + j = k /\ k \in (lo + 1)..(lo + m)
      BY <1>2, <1>3, <2>2
    <3> HIDE DEF j
    <3>2. new[k].line = n
      BY <1>2, <3>1 DEF Cutting, CutIs
    <3>3. n \in 1..n
      OBVIOUS
    <3>4. QED BY <3>1, <3>2, <3>3
  <2>3. QED BY <2>1, <2>2
<1>5. lo + m <= Len(new)
  BY <1>2, <1>3
<1>6. LineCut(new, n)
  BY <1>2, <1>3, <1>4, <1>5 DEF LineCut
<1>7. QED BY <1>4, <1>6 DEF new

LEMMA LinesAreCut ==
    ASSUME WrapSet, TextSet, TabSet, AllBroad, NEW n \in 1..Len(ContentLines(content))
    PROVE  LineCut(CalculateVirtualLines, n) /\ CalculateVirtualLines \in Seq(VLine)
<1> DEFINE lines == ContentLines(content)
           m == Len(lines)
<1>1. m \in Nat
  BY LinesOfText DEF TextSet, Cuts
<1> HIDE DEF lines
<1>2. PICK f : LinesTrace(f, lines)
  BY LinesFolds DEF lines
<1>3. CalculateVirtualLines = LinesFold(lines).vlines
  BY DEF CalculateVirtualLines, LinesFold, NoLine, Numbers, lines
<1>4. DOMAIN lines = 1..m
  BY LinesOfText DEF TextSet, Cuts, lines
<1>5. /\ f \in [0..m -> Lined] /\ f[0] = NoLine /\ f[m] = LinesFold(lines)
      /\ \A i \in 1..m : f[i] = AddLine(f[i - 1], i, CellsOf(i))
  BY <1>2, <1>4 DEF LinesTrace, Numbers
<1> DEFINE S == {i \in 0..m : LinesCut(f[i], i)}
<1>6. 0 \in S
  <2>1. /\ NoLine.vlines = <<>> /\ (NoLine.pending <=> firstLineOffset > 0)
        /\ NoLine \in Lined
    <3>1. NoLine.vlines = <<>> /\ (NoLine.pending <=> firstLineOffset > 0)
      BY DEF NoLine
    <3>2. <<>> \in Seq(VLine) /\ (firstLineOffset > 0) \in BOOLEAN
      OBVIOUS
    <3>3. NoLine \in Lined
      BY <3>2, Zenon DEF NoLine, Lined
    <3>4. QED BY <3>1, <3>3
  <2>2. LinesCut(NoLine, 0)
    BY <2>1 DEF LinesCut
  <2>3. 0 \in 0..m
    BY <1>1
  <2>4. QED BY <1>5, <2>2, <2>3
<1>7. ASSUME NEW i \in 1..m, i - 1 \in S PROVE i \in S
  <2> DEFINE acc == f[i - 1]
             cells == CellsOf(i)
             acc2 == AddLine(acc, i, cells)
  <2>1. LinesCut(acc, i - 1)
    BY <1>7
  <2>2. /\ acc \in Lined /\ (acc.pending <=> (i - 1 = 0 /\ firstLineOffset > 0))
        /\ \A k \in 1..Len(acc.vlines) : acc.vlines[k].line \in 1..(i - 1)
        /\ \A k \in 1..(i - 1) : LineCut(acc.vlines, k)
    BY <2>1 DEF LinesCut
  <2> HIDE DEF acc
  <2>3. i - 1 = 0 <=> i = 1
    BY <1>1
  <2>4. cells \in Seq(Broad)
    BY DEF m, lines, AllBroad
  <2> HIDE DEF m
  <2>5. AddedTo(acc, acc2, i, cells)
    <3> HIDE DEF cells
    <3>1. i \in Nat
      OBVIOUS
    <3>2. acc.pending <=> (i = 1 /\ firstLineOffset > 0)
      BY <2>2, <2>3
    <3>3. QED BY <2>2, <2>4, <3>1, <3>2, AddLineAdds
  <2> HIDE DEF acc2
  <2>6. acc2 \in Lined /\ ~acc2.pending
    BY <2>5 DEF AddedTo
  <2>7. /\ LineCut(acc2.vlines, i)
        /\ \A k \in 1..Len(acc2.vlines) : acc2.vlines[k].line \in 1..i
    BY <2>2, <2>5, LineAdded
  <2>8. ASSUME NEW k \in 1..i PROVE LineCut(acc2.vlines, k)
    <3>1. CASE k = i
      BY <2>7, <3>1
    <3>2. CASE k # i
      <4>1. k \in 1..(i - 1) /\ k \in Nat /\ i \in Nat
        BY <3>2
      <4>2. LineCut(acc.vlines, k)
        BY <2>2, <4>1
      <4> HIDE DEF cells
      <4>3. QED BY <2>2, <2>5, <3>2, <4>1, <4>2, LineKept
    <3>3. QED BY <3>1, <3>2
  <2>9. i # 0 /\ i \in 0..m
    BY <1>1
  <2>10. LinesCut(acc2, i)
    BY <2>6, <2>7, <2>8, <2>9 DEF LinesCut
  <2>11. f[i] = acc2
    BY <1>5 DEF acc2, acc
  <2>12. QED BY <2>9, <2>10, <2>11
<1> HIDE DEF S, m
<1>8. \A i \in 0..m : i \in S
  BY <1>1, <1>6, <1>7, Induction
<1>9. m \in 0..m
  BY <1>1
<1>10. LinesCut(LinesFold(lines), m)
  BY <1>5, <1>8, <1>9 DEF S
<1>11. n \in 1..m
  BY DEF m, lines
<1>12. LineCut(CalculateVirtualLines, n)
  BY <1>3, <1>10, <1>11 DEF LinesCut
<1>13. CalculateVirtualLines \in Seq(VLine)
  BY <1>3, <1>10 DEF LinesCut, Lined
<1>14. QED BY <1>12, <1>13

(***************************************************************************)
(* What the property says of a line that is cut.                           *)
(***************************************************************************)
\* Picking the elements at an interval of places is taking that part.
LEMMA PickInterval ==
    ASSUME NEW S, NEW s \in Seq(S), NEW lo \in Nat, NEW hi \in Nat, lo <= hi, hi <= Len(s)
    PROVE  /\ Pick(s, (lo + 1)..hi) \in Seq(S) /\ Len(Pick(s, (lo + 1)..hi)) = hi - lo
           /\ \A k \in 1..(hi - lo) : Pick(s, (lo + 1)..hi)[k] = s[lo + k]
<1> DEFINE idx == (lo + 1)..hi
           m == hi - lo
           upTo(k) == {j \in idx : j <= k}
<1>1. m \in Nat /\ idx \in SUBSET (1..Len(s)) /\ idx \in SUBSET Nat
  BY LenProperties
<1>2. ASSUME NEW k \in Nat, lo <= k PROVE Cardinality((lo + 1)..k) = k - lo
  <2> DEFINE a == lo + 1
  <2>1. a \in Int /\ k \in Int
    OBVIOUS
  <2> HIDE DEF a
  <2>2. Cardinality(a..k) = IF a > k THEN 0 ELSE k - a + 1
    BY <2>1, FS_Interval, Zenon
  <2>3. (IF a > k THEN 0 ELSE k - a + 1) = k - lo
    BY <1>2 DEF a
  <2>4. QED BY <2>2, <2>3 DEF a
<1>3. Cardinality(idx) = m
  BY <1>2
<1>4. ASSUME NEW k \in idx PROVE Cardinality(upTo(k)) = k - lo
  <2>1. upTo(k) = (lo + 1)..k
    OBVIOUS
  <2>2. k \in Nat /\ lo <= k
    OBVIOUS
  <2> HIDE DEF upTo, idx
  <2>3. QED BY <1>2, <2>1, <2>2
<1>5. Sorted(idx) = [n \in 1..m |-> CHOOSE k \in idx : Cardinality(upTo(k)) = n]
  <2> HIDE DEF idx, m
  <2>1. QED BY <1>3 DEF Sorted
<1>6. ASSUME NEW n \in 1..m PROVE Sorted(idx)[n] = lo + n
  <2>1. lo + n \in idx
    BY <1>1
  <2> HIDE DEF upTo
  <2>2. \A k \in idx : Cardinality(upTo(k)) = n <=> k = lo + n
    BY <1>4
  <2> HIDE DEF idx, m
  <2>3. (CHOOSE k \in idx : Cardinality(upTo(k)) = n) = lo + n
    BY <2>1, <2>2
  <2>4. QED BY <1>5, <2>3
<1> HIDE DEF idx, upTo, m
<1>7. /\ Pick(s, idx) \in Seq(S)
      /\ Len(Pick(s, idx)) = m
      /\ \A i \in 1..m : Pick(s, idx)[i] = s[Sorted(idx)[i]]
  BY <1>1, <1>3, PickIsSeq
<1>8. \A i \in 1..m : Pick(s, idx)[i] = s[lo + i]
  BY <1>6, <1>7
<1>9. QED BY <1>7, <1>8 DEF idx, m

\* The cells that start in the columns of a part of a line are that part.
LEMMA SliceIsPart ==
    ASSUME NEW cells \in Seq(Broad), NEW a \in 0..Len(cells), NEW b \in 0..Len(cells), a <= b
    PROVE  SliceLineCols(cells, Cols(cells, a), Cols(cells, b) - Cols(cells, a))
             = SubSeq(cells, a + 1, b)
<1> cells \in Seq(Cell)
  BY BroadAreCells
<1> DEFINE N == Len(cells)
           src == Cols(cells, a)
           w == Cols(cells, b) - src
           part == SubSeq(cells, a + 1, b)
           got == Pick(cells, (a + 1)..b)
<1>1. N \in Nat /\ DOMAIN cells = 1..N /\ a \in Nat /\ b \in Nat /\ b <= N
  BY LenProperties
<1>2. Cols(cells, a) \in Nat /\ Cols(cells, b) \in Nat /\ src + w = Cols(cells, b)
  BY ColsAre
<1>3. ASSUME NEW k \in 1..N
      PROVE  src <= Starts(cells)[k] /\ Starts(cells)[k] < src + w <=> k \in (a + 1)..b
  <2> DEFINE j == k - 1
             c == Cols(cells, j)
  <2>1. j \in 0..N /\ Starts(cells)[k] = c
    BY <1>1, ColsAre
  <2> HIDE DEF j
  <2>2. c \in Nat
    BY <2>1, ColsAre
  <2>3. j < a => c < Cols(cells, a)
    BY <2>1, ColsRise
  <2>4. a < j => Cols(cells, a) < c
    BY <2>1, ColsRise
  <2>5. j < b => c < Cols(cells, b)
    BY <2>1, ColsRise
  <2>6. b < j => Cols(cells, b) < c
    BY <2>1, ColsRise
  <2>7. j = a => c = Cols(cells, a)
    OBVIOUS
  <2>8. j = b => c = Cols(cells, b)
    OBVIOUS
  <2> HIDE DEF c, w
  <2>9. a <= j <=> src <= c
    BY <1>1, <1>2, <2>1, <2>2, <2>3, <2>4, <2>7
  <2>10. j < b <=> c < src + w
    BY <1>1, <1>2, <2>1, <2>2, <2>5, <2>6, <2>8
  <2>11. a <= j /\ j < b <=> k \in (a + 1)..b
    BY <1>1 DEF j
  <2>12. QED BY <2>1, <2>9, <2>10, <2>11
<1> HIDE DEF src, w
<1>4. StartingIn(cells, src, src + w) = (a + 1)..b
  BY <1>1, <1>3 DEF StartingIn
<1>5. SliceLineCols(cells, src, w) = got
  BY <1>4 DEF SliceLineCols
<1>6. /\ got \in Seq(Cell) /\ Len(got) = b - a
      /\ \A k \in 1..(b - a) : got[k] = cells[a + k]
  BY <1>1, PickInterval, SMTT(30)
<1>7. /\ part \in Seq(Cell) /\ Len(part) = b - a
      /\ \A k \in 1..(b - a) : part[k] = cells[a + k]
  BY <1>1, ColsOfPart
<1> HIDE DEF got, part
<1>8. got = part
  BY <1>6, <1>7, SeqEqual
<1>9. QED BY <1>5, <1>8 DEF src, w, part

JoinedFold(parts) ==
    FoldLeft(LAMBDA s, t : s \o t, <<>>, parts)

JoinedTrace(acc, parts) ==
    /\ acc \in [0..Len(parts) -> Seq(Cell)]
    /\ acc[0] = <<>>
    /\ \A i \in 1..Len(parts) : acc[i] = (acc[i - 1] \o parts[i])
    /\ acc[Len(parts)] = JoinedFold(parts)

LEMMA JoinedFolds ==
    ASSUME NEW parts \in Seq(Seq(Cell))
    PROVE  \E acc : JoinedTrace(acc, parts)
<1> DEFINE N == Len(parts)
           zero == <<>>
           fold == JoinedFold(parts)
           Is(it) == it = [x \in SUBSET (DOMAIN parts) |->
                             IF x = {} THEN zero
                             ELSE LET y == Max(x) IN (it[x \ {y}] \o parts[y])]
           it == CHOOSE it : Is(it)
           step == [i \in 1..N |-> [a \in Seq(Cell) |-> (a \o parts[i])]]
<1>1. DOMAIN parts = 1..N /\ N \in Nat /\ zero \in Seq(Cell)
  BY LenProperties
<1>2. fold = it[1..N]
  BY <1>1 DEF JoinedFold, FoldLeft, MapThenFoldSet
<1>3. \A i \in 1..N, a \in Seq(Cell) : (a \o parts[i]) \in Seq(Cell)
  <2>1. SUFFICES ASSUME NEW i \in 1..N, NEW a \in Seq(Cell) PROVE a \o parts[i] \in Seq(Cell)
    OBVIOUS
  <2>2. parts[i] \in Seq(Cell)
    BY ElementOfSeq
  <2>3. QED BY <2>2, ConcatProperties
<1> HIDE DEF N, zero, fold
<1>4. step \in [1..N -> [Seq(Cell) -> Seq(Cell)]]
  BY <1>3
<1>5. \A i \in 1..N, a \in Seq(Cell) : step[i][a] = (a \o parts[i])
  OBVIOUS
<1> HIDE DEF step
<1>6. \E f : Is(f)
  <2> HIDE DEF Is, it
  <2>1. PICK f \in [SUBSET (1..N) -> Seq(Cell)] : IsFold(f, N, zero, step)
    BY <1>1, <1>4, FoldExists
  <2>2. \A x \in SUBSET (1..N) : x # {} => Max(x) \in 1..N
    BY <1>1, MaxIn
  <2>3. \A x \in SUBSET (1..N) :
          (IF x = {} THEN zero ELSE step[Max(x)][f[x \ {Max(x)}]])
            = IF x = {} THEN zero ELSE (f[x \ {Max(x)}] \o parts[Max(x)])
    BY <1>5, <2>1, <2>2, ZenonT(30)
  <2>4. f = [x \in SUBSET (1..N) |->
               IF x = {} THEN zero ELSE (f[x \ {Max(x)}] \o parts[Max(x)])]
    BY <2>1, <2>3, ZenonT(30) DEF IsFold
  <2>5. QED BY <1>1, <2>4 DEF Is
<1>7. Is(it)
  BY <1>6, ZenonT(30)
<1> HIDE DEF it
<1>8. it[{}] = zero
  BY <1>7
<1>9. \A i \in 1..N : it[1..(i - 1)] \in Seq(Cell) => it[1..i] = step[i][it[1..(i - 1)]]
  <2>1. SUFFICES ASSUME NEW i \in 1..N, it[1..(i - 1)] \in Seq(Cell)
                 PROVE  it[1..i] = step[i][it[1..(i - 1)]]
    OBVIOUS
  <2>2. 1..i \in SUBSET (DOMAIN parts) /\ i \in Nat \ {0}
    BY <1>1
  <2>3. it[1..i] = IF 1..i = {} THEN zero
                   ELSE (it[(1..i) \ {Max(1..i)}] \o parts[Max(1..i)])
    BY <1>7, <2>2, Zenon
  <2>4. it[1..i] = (it[1..(i - 1)] \o parts[i])
    BY <2>2, <2>3, MaxOfInterval, Zenon
  <2>5. QED BY <1>5, <2>1, <2>4
<1> HIDE DEF Is
<1>10. PICK acc : IsTrace(acc, N, Seq(Cell), zero, step, it[1..N])
  BY <1>1, <1>4, <1>8, <1>9, FoldTrace DEF Computes
<1>11. \A i \in 1..N : acc[i] = (acc[i - 1] \o parts[i])
  <2>1. \A i \in 1..N : acc[i - 1] \in Seq(Cell) /\ acc[i] = step[i][acc[i - 1]]
    BY <1>1, <1>10 DEF IsTrace
  <2>2. QED BY <1>5, <2>1
<1>12. /\ acc \in [0..N -> Seq(Cell)]
       /\ acc[0] = zero
       /\ \A i \in 1..N : acc[i] = (acc[i - 1] \o parts[i])
       /\ acc[N] = fold
  BY <1>2, <1>10, <1>11 DEF IsTrace
<1>13. QED BY <1>12, Zenon DEF N, zero, fold, JoinedTrace

LEMMA PartsJoin ==
    ASSUME NEW cells \in Seq(Cell), NEW m \in Nat, NEW b \in [0..m -> 0..Len(cells)],
           b[0] = 0, b[m] = Len(cells), NEW parts \in Seq(Seq(Cell)), Len(parts) = m,
           \A k \in 1..m : b[k - 1] <= b[k] /\ parts[k] = SubSeq(cells, b[k - 1] + 1, b[k])
    PROVE  JoinedFold(parts) = cells
<1>1. PICK f : JoinedTrace(f, parts)
  BY JoinedFolds
<1>2. /\ f[0] = <<>> /\ f[m] = JoinedFold(parts)
      /\ \A i \in 1..m : f[i] = f[i - 1] \o parts[i]
  BY <1>1 DEF JoinedTrace
<1> DEFINE S == {i \in 0..m : f[i] = SubSeq(cells, 1, b[i])}
<1>3. Len(cells) \in Nat
  BY LenProperties
<1>4. 0 \in S
  <2> DEFINE lo == 1
             hi == b[0]
  <2>1. lo \in Int /\ hi \in Int /\ hi < lo
    OBVIOUS
  <2> HIDE DEF lo, hi
  <2>2. SubSeq(cells, lo, hi) = <<>>
    BY <2>1, SubSeqEmpty, Zenon
  <2>3. 0 \in 0..m
    OBVIOUS
  <2>4. QED BY <1>2, <2>2, <2>3 DEF lo, hi
<1>5. ASSUME NEW i \in 1..m, i - 1 \in S PROVE i \in S
  <2> DEFINE a == b[i - 1]
             c == b[i]
             one == 1
  <2>1. /\ a \in 0..Len(cells) /\ c \in 0..Len(cells) /\ a <= c
        /\ parts[i] = SubSeq(cells, a + 1, c) /\ i \in 0..m
    BY <1>3
  <2>2. f[i - 1] = SubSeq(cells, 1, a)
    BY <1>5
  <2> HIDE DEF a, c
  <2>3. one \in 1..(Len(cells) + 1) /\ a \in (one - 1)..Len(cells) /\ c \in a..Len(cells)
    BY <1>3, <2>1
  <2> HIDE DEF one
  <2>4. SubSeq(cells, one, a) \o SubSeq(cells, a + 1, c) = SubSeq(cells, one, c)
    BY <2>3, ConcatAdjacentSubSeq
  <2>5. QED BY <1>2, <2>1, <2>2, <2>4 DEF one, c
<1> HIDE DEF S
<1>6. \A i \in 0..m : i \in S
  BY <1>4, <1>5, Induction
<1>7. f[m] = SubSeq(cells, 1, Len(cells))
  BY <1>6 DEF S
<1>8. QED BY <1>2, <1>7, SubSeqFull

LEMMA CutIsRight ==
    ASSUME NEW cells \in Seq(Broad), NEW n, NEW own \in Seq(VLine), NEW m \in Nat \ {0},
           Len(own) = m, NEW b, Cutting(cells, own, 0, m, n, b), b[m] = Len(cells)
    PROVE  CutsLine(n, cells, own)
<1> cells \in Seq(Cell)
  BY BroadAreCells
<1> DEFINE slice(k) == SliceLineCols(cells, own[k].src, own[k].width)
           parts == [k \in 1..m |-> slice(k)]
           w == [k \in 1..m |-> own[k].width]
<1>1. DOMAIN own = 1..m /\ Len(cells) \in Nat
  BY LenProperties
<1>2. b \in [0..m -> 0..Len(cells)] /\ b[0] = 0
  BY DEF Cutting
<1>3. ASSUME NEW k \in 1..m
      PROVE  /\ b[k - 1] \in 0..Len(cells) /\ b[k] \in 0..Len(cells)
             /\ CutIs(cells, own[k], n, k, b[k - 1], b[k])
  BY <1>2 DEF Cutting
<1>4. ASSUME NEW k \in 1..m
      PROVE  /\ slice(k) = SubSeq(cells, b[k - 1] + 1, b[k])
             /\ slice(k) \in Seq(Cell) /\ Len(slice(k)) = b[k] - b[k - 1]
  <2> DEFINE a == b[k - 1]
             c == b[k]
  <2>1. a \in 0..Len(cells) /\ c \in 0..Len(cells) /\ a <= c
    BY <1>3 DEF CutIs
  <2>2. own[k].src = Cols(cells, a) /\ own[k].width = Cols(cells, c) - Cols(cells, a)
    BY <1>3 DEF CutIs
  <2> HIDE DEF a, c
  <2>3. slice(k) = SubSeq(cells, a + 1, c)
    BY <2>1, <2>2, SliceIsPart
  <2>4. c \in a..Len(cells)
    BY <1>1, <2>1
  <2>5. SubSeq(cells, a + 1, c) \in Seq(Cell) /\ Len(SubSeq(cells, a + 1, c)) = c - a
    BY <2>1, <2>4, ColsOfPart
  <2>6. QED BY <2>3, <2>5 DEF a, c
<1>5. JoinedFold(parts) = cells
  <2>1. parts \in Seq(Seq(Cell)) /\ Len(parts) = m
    <3> DEFINE T == Seq(Cell)
    <3>1. \A k \in 1..m : slice(k) \in T
      BY <1>4
    <3> HIDE DEF T, slice
    <3>2. parts \in [1..m -> T]
      BY <3>1
    <3> HIDE DEF parts
    <3>3. parts \in Seq(T) /\ Len(parts) = m
      BY <3>2, FunctionIsSeq
    <3>4. QED BY <3>3 DEF T
  <2>2. \A k \in 1..m : b[k - 1] <= b[k] /\ parts[k] = SubSeq(cells, b[k - 1] + 1, b[k])
    BY <1>3, <1>4 DEF CutIs
  <2> HIDE DEF parts
  <2>3. QED BY <1>2, <2>1, <2>2, PartsJoin
<1>6. FoldLeft(LAMBDA s, t : s \o t, <<>>, [k \in DOMAIN own |-> slice(k)]) = cells
  BY <1>1, <1>5 DEF JoinedFold
<1>7. \A k \in 0..m : Cols(cells, b[k]) \in Nat
  BY <1>2, ColsAre
<1> DEFINE front(k) == [j \in 1..k |-> own[j].width]
           S == {k \in 0..m : Sum(front(k)) = Cols(cells, b[k])}
<1>8. ASSUME NEW k \in 1..m
      PROVE  own[k].width = Cols(cells, b[k]) - Cols(cells, b[k - 1]) /\ own[k].width \in Nat
  <2>1. own[k] \in VLine
    BY ElementOfSeq
  <2>2. QED BY <1>3, <2>1 DEF CutIs, VLine
<1>9. 0 \in S
  <2>1. front(0) = [j \in {} |-> front(0)[j]] /\ DOMAIN front(0) = {}
    OBVIOUS
  <2> DEFINE s == front(0)
  <2> HIDE DEF s
  <2>2. Sum(s) = 0
    BY <2>1, SumOfNone DEF s
  <2>3. Cols(cells, b[0]) = 0
    BY <1>2, ColsAre
  <2>4. 0 \in 0..m
    OBVIOUS
  <2>5. QED BY <2>2, <2>3, <2>4 DEF s
<1>10. ASSUME NEW k \in 1..m, k - 1 \in S PROVE k \in S
  <2> DEFINE s == front(k)
             t == front(k - 1)
  <2>1. s \in [1..k -> Nat] /\ t \in [1..(k - 1) -> Nat] /\ k \in Nat \ {0}
    BY <1>8
  <2>2. \A j \in 1..(k - 1) : t[j] = s[j]
    OBVIOUS
  <2>3. s[k] = own[k].width
    OBVIOUS
  <2>4. Sum(t) = Cols(cells, b[k - 1])
    BY <1>10
  <2> HIDE DEF s, t
  <2>5. Sum(s) = Sum(t) + s[k]
    BY <2>1, <2>2, SumLast
  <2>6. k - 1 \in 0..m /\ k \in 0..m
    OBVIOUS
  <2>7. Cols(cells, b[k]) \in Nat /\ Cols(cells, b[k - 1]) \in Nat
    BY <1>7, <2>6
  <2>8. Sum(s) = Cols(cells, b[k])
    BY <1>8, <2>3, <2>4, <2>5, <2>7
  <2>9. QED BY <2>6, <2>8 DEF s
<1> HIDE DEF S
<1>11. \A k \in 0..m : k \in S
  BY <1>9, <1>10, Induction
<1>12. ASSUME NEW k \in 1..m
       PROVE  /\ own[k].src = Sum([j \in 1..(k - 1) |-> own[j].width])
              /\ own[k].wrap = k - 1
              /\ wrapMode # "none" /\ wrapWidth > 0 =>
                   own[k].width <= Room(n, k) \/ Len(slice(k)) = 1
  <2>1. /\ own[k].src = Cols(cells, b[k - 1]) /\ own[k].wrap = k - 1
        /\ Fits(cells, n, k, b[k - 1], b[k])
    BY <1>3 DEF CutIs
  <2>2. k - 1 \in 0..m
    OBVIOUS
  <2>3. Sum(front(k - 1)) = Cols(cells, b[k - 1])
    BY <1>11, <2>2 DEF S
  <2>4. wrapMode # "none" /\ wrapWidth > 0 =>
          b[k] = b[k - 1] + 1 \/ own[k].width <= Room(n, k)
    BY <1>8, <2>1 DEF Fits
  <2>5. b[k] = b[k - 1] + 1 => Len(slice(k)) = 1
    <3>1. b[k] \in Nat /\ b[k - 1] \in Nat /\ b[k - 1] <= b[k]
      BY <1>1, <1>3 DEF CutIs
    <3>2. Len(slice(k)) = b[k] - b[k - 1]
      BY <1>4
    <3> HIDE DEF slice
    <3>3. QED BY <3>1, <3>2
  <2> HIDE DEF slice
  <2>6. QED BY <2>1, <2>3, <2>4, <2>5
<1>13. own # <<>>
  BY EmptySeq
<1>14. QED BY <1>1, <1>6, <1>12, <1>13 DEF CutsLine

LEMMA LayoutIsRight ==
    ASSUME WrapSet, TextSet, tabWidth \in Nat PROVE LayoutCutsLines
<1> DEFINE lines == ContentLines(content)
           vlines == CalculateVirtualLines
<1>1. SUFFICES ASSUME tabWidth > 0, NEW n \in DOMAIN lines
               PROVE  CutsLine(n, CellsOf(n), Pick(vlines, {k \in DOMAIN vlines : vlines[k].line = n}))
  BY DEF LayoutCutsLines
<1>2. TabSet /\ n \in 1..Len(lines) /\ AllBroad
  BY <1>1, LinesOfText, CellsOfType DEF TabSet, TextSet, Cuts
<1> DEFINE cells == CellsOf(n)
<1>3. cells \in Seq(Broad)
  BY <1>2 DEF AllBroad
<1>4. LineCut(vlines, n) /\ vlines \in Seq(VLine)
  BY <1>2, LinesAreCut
<1> HIDE DEF vlines, lines
<1>5. PICK lo, m, b :
        /\ lo \in Nat /\ m \in Nat \ {0}
        /\ lo + m <= Len(vlines)
        /\ \A k \in 1..Len(vlines) : vlines[k].line = n <=> k \in (lo + 1)..(lo + m)
        /\ Cutting(cells, vlines, lo, m, n, b)
        /\ b[m] = Len(cells)
  BY <1>4 DEF LineCut
<1> HIDE DEF cells
<1>6. Len(vlines) \in Nat /\ DOMAIN vlines = 1..Len(vlines)
  BY <1>4, LenProperties
<1> DEFINE hi == lo + m
<1>7. {k \in DOMAIN vlines : vlines[k].line = n} = (lo + 1)..hi
  BY <1>5, <1>6
<1>8. hi \in Nat /\ lo <= hi /\ hi <= Len(vlines) /\ hi - lo = m
  BY <1>5
<1> HIDE DEF hi
<1> DEFINE own == Pick(vlines, (lo + 1)..hi)
<1>9. /\ own \in Seq(VLine) /\ Len(own) = m
      /\ \A k \in 1..m : own[k] = vlines[lo + k]
  BY <1>4, <1>5, <1>8, PickInterval
<1> HIDE DEF own
<1>10. Cutting(cells, own, 0, m, n, b)
  <2>1. \A k \in 1..m : own[0 + k] = vlines[lo + k]
    BY <1>9
  <2>2. QED BY <1>5, <2>1 DEF Cutting
<1>11. CutsLine(n, cells, own)
  BY <1>3, <1>5, <1>9, <1>10, CutIsRight
<1>12. QED BY <1>7, <1>11 DEF own, cells

(***************************************************************************)
(* The columns the virtual lines start at, in the whole text.              *)
(***************************************************************************)
\* Each virtual line ends before the next one starts, the last one at end.
Apart(vlines, end) ==
    /\ \A k \in 1..Len(vlines) : vlines[k].col + vlines[k].width <= end
    /\ \A k \in 1..Len(vlines) : \A j \in 1..(k - 1) :
         vlines[j].col + vlines[j].width <= vlines[k].col

\* A cursor on the line that starts at column base, after the lines of old.
Columned(old, cur, base, line) ==
    /\ cur \in Cur /\ base \in Nat /\ old \in Seq(VLine)
    /\ cur.global = base + cur.source /\ cur.off = base + cur.from
    /\ cur.source = cur.from + cur.w /\ cur.line = line
    /\ Len(old) <= Len(cur.vlines)
    /\ \A k \in 1..Len(old) : cur.vlines[k] = old[k]
    /\ \A k \in (Len(old) + 1)..Len(cur.vlines) :
         cur.vlines[k].line = line /\ cur.vlines[k].col = base + cur.vlines[k].src
    /\ Apart(cur.vlines, cur.off)

\* A virtual line put after those that end before it starts.
LEMMA ApartAppend ==
    ASSUME NEW vlines \in Seq(VLine), NEW v \in VLine, NEW end \in Nat,
           Apart(vlines, end), end <= v.col, NEW next \in Nat, v.col + v.width <= next
    PROVE  Apart(Append(vlines, v), next)
<1> DEFINE new == Append(vlines, v)
           n == Len(vlines)
<1>1. n \in Nat /\ v.col \in Nat /\ v.width \in Nat
  BY LenProperties DEF VLine
<1>2. /\ new \in Seq(VLine) /\ Len(new) = n + 1 /\ new[n + 1] = v
      /\ \A k \in 1..n : new[k] = vlines[k]
  BY AppendProperties
<1>3. \A k \in 1..n : vlines[k].col \in Nat /\ vlines[k].width \in Nat
  <2>1. \A k \in 1..n : vlines[k] \in VLine
    BY ElementOfSeq
  <2>2. QED BY <2>1 DEF VLine
<1> HIDE DEF new, n
<1>4. \A k \in 1..n : vlines[k].col + vlines[k].width <= end
  BY DEF Apart, n
<1>5. ASSUME NEW k \in 1..(n + 1) PROVE new[k].col + new[k].width <= next
  <2>1. CASE k \in 1..n
    <3>1. new[k].col + new[k].width <= end
      BY <1>2, <1>4, <2>1
    <3>2. new[k].col \in Nat /\ new[k].width \in Nat
      BY <1>2, <1>3, <2>1
    <3>3. QED BY <1>1, <3>1, <3>2
  <2>2. CASE k = n + 1
    BY <1>2, <2>2
  <2>3. QED BY <1>1, <2>1, <2>2
<1>6. ASSUME NEW k \in 1..(n + 1), NEW j \in 1..(k - 1)
      PROVE  new[j].col + new[j].width <= new[k].col
  <2>1. j \in 1..n
    BY <1>1
  <2>2. CASE k \in 1..n
    BY <1>2, <2>1, <2>2 DEF Apart, n
  <2>3. CASE k = n + 1
    <3>1. new[j].col + new[j].width <= end /\ new[k].col = v.col
      BY <1>2, <1>4, <2>1, <2>3
    <3>2. new[j].col \in Nat /\ new[j].width \in Nat
      BY <1>2, <1>3, <2>1
    <3>3. QED BY <1>1, <3>1, <3>2, SMTT(20)
  <2>4. QED BY <1>1, <2>2, <2>3
<1>7. QED BY <1>2, <1>5, <1>6 DEF Apart, new

LEMMA FlushColumns ==
    ASSUME NEW old, NEW cur, NEW base, NEW line, Columned(old, cur, base, line)
    PROVE  Columned(old, Flush(cur), base, line)
<1> DEFINE v == VLineOf(cur)
           n == Len(cur.vlines)
           lo == Len(old)
           vlines == Append(cur.vlines, v)
           new == Flush(cur)
<1>1. /\ cur \in Cur /\ base \in Nat /\ old \in Seq(VLine)
      /\ cur.global = base + cur.source /\ cur.off = base + cur.from
      /\ cur.source = cur.from + cur.w /\ cur.line = line /\ lo <= n /\ Apart(cur.vlines, cur.off)
      /\ \A k \in 1..lo : cur.vlines[k] = old[k]
      /\ \A k \in (lo + 1)..n :
           cur.vlines[k].line = line /\ cur.vlines[k].col = base + cur.vlines[k].src
  BY DEF Columned
<1>2. /\ cur.vlines \in Seq(VLine) /\ cur.global \in Nat /\ cur.source \in Nat /\ cur.w \in Nat
      /\ cur.off \in Nat /\ cur.from \in Nat
  BY <1>1 DEF Cur
<1>3. v \in VLine /\ v.col = cur.off /\ v.width = cur.w /\ v.src = cur.from /\ v.line = cur.line
  BY <1>1 DEF VLineOf, VLine, Cur
<1>4. n \in Nat /\ lo \in Nat
  BY <1>1, <1>2, LenProperties
<1> HIDE DEF v
<1>5. /\ vlines \in Seq(VLine) /\ Len(vlines) = n + 1 /\ vlines[n + 1] = v
      /\ \A k \in 1..n : vlines[k] = cur.vlines[k]
  BY <1>2, <1>3, AppendProperties
<1>6. v.col + v.width = cur.global
  BY <1>1, <1>2, <1>3
<1>7. Apart(vlines, cur.global)
  <2> DEFINE before == cur.vlines
             end == cur.off
             next == cur.global
  <2>1. /\ before \in Seq(VLine) /\ v \in VLine /\ Apart(before, end)
        /\ end \in Nat /\ next \in Nat /\ end <= v.col /\ v.col + v.width <= next
    BY <1>1, <1>2, <1>3, <1>6
  <2> HIDE DEF before, end, next
  <2>2. Apart(Append(before, v), next)
    BY <2>1, ApartAppend
  <2>3. QED BY <2>2 DEF before, next
<1>8. /\ new.vlines = vlines /\ new.off = cur.global /\ new.w = 0 /\ new.from = cur.source
      /\ new.source = cur.source /\ new.global = cur.global /\ new.line = cur.line
  <2> HIDE DEF vlines
  <2>1. QED BY <1>1 DEF Flush, Cur, vlines, v
<1>9. new \in Cur
  BY <1>1, CursorTypes
<1> HIDE DEF new, vlines, n, lo
<1>10. ASSUME NEW k \in (lo + 1)..(n + 1)
       PROVE  vlines[k].line = line /\ vlines[k].col = base + vlines[k].src
  <2>1. CASE k \in (lo + 1)..n
    BY <1>1, <1>4, <1>5, <2>1
  <2>2. CASE k = n + 1
    BY <1>1, <1>3, <1>5, <2>2
  <2>3. QED BY <1>4, <2>1, <2>2
<1>11. \A k \in 1..lo : vlines[k] = old[k]
  BY <1>1, <1>4, <1>5
<1>12. /\ new.global = base + new.source /\ new.off = base + new.from
       /\ new.source = new.from + new.w /\ new.line = line
  BY <1>1, <1>2, <1>8
<1>13. lo <= Len(new.vlines)
  BY <1>1, <1>4, <1>5, <1>8
<1>14. Columned(old, new, base, line)
  BY <1>1, <1>5, <1>7, <1>8, <1>9, <1>10, <1>11, <1>12, <1>13 DEF Columned, lo
<1>15. QED BY <1>14 DEF new

LEMMA AdvanceColumns ==
    ASSUME NEW old, NEW cur, NEW base, NEW line, Columned(old, cur, base, line), NEW w \in Nat
    PROVE  Columned(old, Advance(cur, w), base, line) /\ Columned(old, PushCols(cur, w), base, line)
<1>1. ASSUME NEW c, Columned(old, c, base, line) PROVE Columned(old, Advance(c, w), base, line)
  <2> DEFINE new == Advance(c, w)
  <2>1. c \in Cur /\ base \in Nat
    BY <1>1 DEF Columned
  <2>2. /\ new.w = c.w + w /\ new.global = c.global + w /\ new.source = c.source + w
        /\ new.vlines = c.vlines /\ new.off = c.off /\ new.from = c.from /\ new.line = c.line
    BY <2>1 DEF Advance, Cur
  <2>3. new \in Cur
    BY <2>1, CursorTypes
  <2> HIDE DEF new
  <2>4. c.w \in Nat /\ c.source \in Nat /\ c.from \in Nat
    BY <2>1 DEF Cur
  <2>5. /\ new.global = base + new.source /\ new.off = base + new.from
        /\ new.source = new.from + new.w /\ new.line = line
    <3>1. /\ c.global = base + c.source /\ c.off = base + c.from /\ c.source = c.from + c.w
          /\ c.line = line
      BY <1>1 DEF Columned
    <3>2. QED BY <2>1, <2>2, <2>4, <3>1
  <2>6. Columned(old, new, base, line)
    BY <1>1, <2>2, <2>3, <2>5 DEF Columned
  <2>7. QED BY <2>6 DEF new
<1> DEFINE c == IF cur.w = 0 THEN [cur EXCEPT !.from = cur.source] ELSE cur
<1>2. c = cur
  BY DEF Columned, Cur
<1>3. PushCols(cur, w) = Advance(cur, w)
  BY <1>2 DEF PushCols
<1> HIDE DEF c
<1>4. Columned(old, Advance(cur, w), base, line)
  BY <1>1
<1>5. QED BY <1>3, <1>4

LEMMA FlushIfOverColumns ==
    ASSUME NEW old, NEW cur, NEW base, NEW line, Columned(old, cur, base, line), NEW w
    PROVE  Columned(old, FlushIfOver(cur, w), base, line)
BY FlushColumns DEF FlushIfOver

LEMMA PushCharsColumns ==
    ASSUME NEW old, NEW cur, NEW base, NEW line, Columned(old, cur, base, line), NEW seg \in Seq(Cell)
    PROVE  Columned(old, PushChars(cur, seg), base, line)
<1> DEFINE n == Len(seg)
<1>1. cur \in Cur /\ n \in Nat
  BY LenProperties DEF Columned
<1>2. PICK f : CharsTrace(f, cur, seg)
  BY <1>1, CharsFolds
<1>3. /\ f[0] = cur /\ f[n] = PushChars(cur, seg)
      /\ \A i \in 1..n : f[i] = PushChar(f[i - 1], seg[i])
  BY <1>2 DEF CharsTrace, CharsFold, PushChars
<1> DEFINE S == {i \in 0..n : Columned(old, f[i], base, line)}
<1>4. 0 \in S
  BY <1>1, <1>3
<1>5. ASSUME NEW i \in 1..n, i - 1 \in S PROVE i \in S
  <2> DEFINE c == f[i - 1]
             w == seg[i].width
  <2>1. w \in Nat
    <3>1. seg[i] \in Cell
      BY ElementOfSeq
    <3>2. QED BY <3>1 DEF Cell
  <2>2. Columned(old, c, base, line)
    BY <1>5
  <2>3. f[i] = Advance(FlushIfOver(c, w), w)
    BY <1>3 DEF PushChar
  <2> HIDE DEF c, w
  <2>4. Columned(old, FlushIfOver(c, w), base, line)
    BY <2>2, FlushIfOverColumns
  <2>5. Columned(old, f[i], base, line)
    BY <2>1, <2>3, <2>4, AdvanceColumns
  <2>6. i \in 0..n
    BY <1>1
  <2>7. QED BY <2>5, <2>6
<1> HIDE DEF S
<1>6. \A i \in 0..n : i \in S
  <2> HIDE DEF n
  <2>1. QED BY <1>1, <1>4, <1>5, Induction
<1>7. n \in 0..n
  BY <1>1
<1>8. QED BY <1>3, <1>6, <1>7 DEF S

LEMMA PushSegmentColumns ==
    ASSUME NEW old, NEW cur, NEW base, NEW line, Columned(old, cur, base, line), NEW seg \in Seq(Cell)
    PROVE  /\ Columned(old, PushSegmentCharMode(cur, seg), base, line)
           /\ \A acc : acc \in [fill : BOOLEAN, cur : Cur] /\ acc.cur = cur
                         => Columned(old, PushWord(acc, seg).cur, base, line)
<1> DEFINE w == Width(seg)
           flushed == FlushIfOver(cur, w)
<1>1. w \in Nat
  BY WidthIsNat
<1>2. Columned(old, flushed, base, line)
  BY FlushIfOverColumns
<1>3. PushSegmentCharMode(cur, seg)
        = IF w > LineWrapW(cur) THEN PushChars(flushed, seg) ELSE PushCols(flushed, w)
  BY DEF PushSegmentCharMode
<1>4. ASSUME NEW acc \in [fill : BOOLEAN, cur : Cur], acc.cur = cur
      PROVE  PushWord(acc, seg).cur
               \in {PushChars(cur, seg), PushCols(flushed, w), PushChars(flushed, seg)}
  <2>1. PushWord(acc, seg)
          = IF acc.fill THEN [acc EXCEPT !.cur = PushChars(cur, seg)]
            ELSE IF w <= LineWrapW(flushed) THEN [acc EXCEPT !.cur = PushCols(flushed, w)]
            ELSE [fill |-> TRUE, cur |-> PushChars(flushed, seg)]
    BY <1>4 DEF PushWord
  <2> HIDE DEF flushed, w
  <2>2. \A c : [acc EXCEPT !.cur = c].cur = c
    BY <1>4
  <2>3. QED BY <2>1, <2>2
<1> HIDE DEF flushed, w
<1>5. /\ Columned(old, PushChars(cur, seg), base, line)
      /\ Columned(old, PushChars(flushed, seg), base, line)
      /\ Columned(old, PushCols(flushed, w), base, line)
  BY <1>1, <1>2, PushCharsColumns, AdvanceColumns
<1>6. QED BY <1>3, <1>4, <1>5

LEMMA PushColumns ==
    ASSUME NEW old, NEW cur, NEW base, NEW line, Columned(old, cur, base, line),
           NEW cells \in Seq(Cell), cells # <<>>
    PROVE  Columned(old, Push(cur, cells), base, line)
<1>1. cur \in Cur
  BY DEF Columned
<1>2. CASE wrapMode = "char"
  <2> DEFINE n == Len(cells)
  <2>1. PICK f : CellsTrace(f, cur, cells)
    BY <1>1, CellsFolds
  <2>2. Push(cur, cells) = CellsFold(cur, cells)
    BY <1>2 DEF Push, CellsFold
  <2>3. /\ f[0] = cur /\ f[n] = Push(cur, cells) /\ n \in Nat
        /\ \A i \in 1..n : f[i] = PushSegmentCharMode(f[i - 1], <<cells[i]>>)
    BY <2>1, <2>2, LenProperties DEF CellsTrace
  <2> DEFINE S == {i \in 0..n : Columned(old, f[i], base, line)}
  <2>4. 0 \in S
    BY <2>3
  <2>5. ASSUME NEW i \in 1..n, i - 1 \in S PROVE i \in S
    <3> DEFINE one == <<cells[i]>>
    <3>1. one \in Seq(Cell)
      BY ElementOfSeq
    <3>2. f[i] = PushSegmentCharMode(f[i - 1], one) /\ Columned(old, f[i - 1], base, line)
      BY <2>3, <2>5
    <3> HIDE DEF one
    <3>3. Columned(old, f[i], base, line)
      BY <3>1, <3>2, PushSegmentColumns
    <3>4. i \in 0..n
      BY <2>3
    <3>5. QED BY <3>3, <3>4
  <2> HIDE DEF S
  <2>6. \A i \in 0..n : i \in S
    <3> HIDE DEF n
    <3>1. QED BY <2>3, <2>4, <2>5, Induction
  <2>7. n \in 0..n
    BY <2>3
  <2>8. QED BY <2>3, <2>6, <2>7 DEF S
<1>3. CASE wrapMode # "char"
  <2> DEFINE segs == WordSegments(cells)
             n == Len(segs)
  <2>1. segs \in Seq(Seq(Cell))
    BY WordsAreParts DEF Parts
  <2>2. Push(cur, cells) = WordsFold(cur, segs).cur
    BY <1>3 DEF Push, WordsFold
  <2> HIDE DEF segs
  <2>3. PICK f : WordsTrace(f, cur, segs)
    BY <1>1, <2>1, WordsFolds
  <2>4. /\ f[0] = [fill |-> FALSE, cur |-> cur] /\ f[n].cur = Push(cur, cells) /\ n \in Nat
        /\ f \in [0..n -> [fill : BOOLEAN, cur : Cur]]
        /\ \A i \in 1..n : f[i] = PushWord(f[i - 1], segs[i])
    BY <2>1, <2>2, <2>3, LenProperties DEF WordsTrace
  <2> DEFINE S == {i \in 0..n : Columned(old, f[i].cur, base, line)}
  <2>5. 0 \in S
    BY <2>4
  <2>6. ASSUME NEW i \in 1..n, i - 1 \in S PROVE i \in S
    <3> DEFINE acc == f[i - 1]
    <3>1. segs[i] \in Seq(Cell) /\ i - 1 \in 0..n /\ i \in 0..n
      BY <2>1, <2>4, ElementOfSeq
    <3>2. acc \in [fill : BOOLEAN, cur : Cur]
      BY <2>4, <3>1
    <3>3. f[i] = PushWord(acc, segs[i]) /\ Columned(old, acc.cur, base, line)
      BY <2>4, <2>6
    <3> HIDE DEF acc
    <3>4. Columned(old, f[i].cur, base, line)
      BY <3>1, <3>2, <3>3, PushSegmentColumns
    <3>5. QED BY <3>1, <3>4
  <2> HIDE DEF S
  <2>7. \A i \in 0..n : i \in S
    <3> HIDE DEF n
    <3>1. QED BY <2>4, <2>5, <2>6, Induction
  <2>8. n \in 0..n
    BY <2>4
  <2>9. QED BY <2>4, <2>7, <2>8 DEF S
<1>4. QED BY <1>2, <1>3

\* acc2 is acc with the virtual lines of line n, from the column acc ended at.
Placed(acc, acc2, n, cells) ==
    /\ acc2 \in Lined /\ ~acc2.pending /\ Apart(acc2.vlines, acc2.global)
    /\ Len(acc.vlines) <= Len(acc2.vlines)
    /\ \A k \in 1..Len(acc.vlines) : acc2.vlines[k] = acc.vlines[k]
    /\ \A k \in (Len(acc.vlines) + 1)..Len(acc2.vlines) :
         /\ acc2.vlines[k].line = n
         /\ acc2.vlines[k].col = acc.global + acc2.vlines[k].src
         /\ wrapMode = "none" => acc2.vlines[k].src = 0 /\ acc2.vlines[k].width = Width(cells)

LEMMA FinishColumns ==
    ASSUME NEW old, NEW cur, NEW base, NEW line, Columned(old, cur, base, line)
    PROVE  /\ Apart(Finish(cur), cur.global + 1)
           /\ Len(old) <= Len(Finish(cur))
           /\ \A k \in 1..Len(old) : Finish(cur)[k] = old[k]
           /\ \A k \in (Len(old) + 1)..Len(Finish(cur)) :
                Finish(cur)[k].line = line /\ Finish(cur)[k].col = base + Finish(cur)[k].src
<1> DEFINE new == Flush(cur)
           end == cur.global + 1
<1>1. cur \in Cur /\ new \in Cur
  BY CursorTypes DEF Columned
<1>2. /\ cur.vlines \in Seq(VLine) /\ new.vlines \in Seq(VLine)
      /\ cur.global \in Nat /\ cur.off \in Nat /\ cur.off <= cur.global
  <2>1. /\ cur.global = base + cur.source /\ cur.off = base + cur.from
        /\ cur.source = cur.from + cur.w /\ base \in Nat
    BY DEF Columned
  <2>2. cur.global \in Nat /\ cur.off \in Nat /\ cur.w \in Nat /\ cur.from \in Nat
    BY <1>1 DEF Cur
  <2>3. cur.vlines \in Seq(VLine) /\ new.vlines \in Seq(VLine)
    BY <1>1 DEF Cur
  <2> HIDE DEF new
  <2>4. cur.off <= cur.global
    BY <2>1, <2>2
  <2>5. QED BY <2>2, <2>3, <2>4
<1>3. Columned(old, new, base, line)
  BY FlushColumns
<1>4. new.vlines = Append(cur.vlines, VLineOf(cur)) /\ new.line = cur.line /\ new.off = cur.global
  BY <1>1 DEF Flush, Cur
<1>5. Finish(cur) = IF cur.w > 0 \/ ~cur.any THEN new.vlines ELSE cur.vlines
  BY <1>4 DEF Finish
<1> HIDE DEF new
<1>6. ASSUME NEW vlines \in Seq(VLine), NEW to \in Nat, to <= cur.global, Apart(vlines, to)
      PROVE  Apart(vlines, end)
  <2>1. \A k \in 1..Len(vlines) : vlines[k].col \in Nat /\ vlines[k].width \in Nat
    <3>1. \A k \in 1..Len(vlines) : vlines[k] \in VLine
      BY ElementOfSeq
    <3>2. QED BY <3>1 DEF VLine
  <2>2. \A k \in 1..Len(vlines) : vlines[k].col + vlines[k].width <= to
    BY <1>6 DEF Apart
  <2>3. \A k \in 1..Len(vlines) : vlines[k].col + vlines[k].width <= end
    BY <1>2, <1>6, <2>1, <2>2
  <2>4. QED BY <1>6, <2>3 DEF Apart
<1>7. Apart(cur.vlines, end) /\ Apart(new.vlines, end)
  <2>1. Apart(cur.vlines, cur.off) /\ Apart(new.vlines, cur.global)
    BY <1>3, <1>4 DEF Columned
  <2> DEFINE a == cur.vlines
             b == new.vlines
             off == cur.off
             global == cur.global
  <2>2. a \in Seq(VLine) /\ b \in Seq(VLine) /\ off \in Nat /\ global \in Nat
        /\ off <= global /\ Apart(a, off) /\ Apart(b, global)
    BY <1>2, <2>1
  <2> HIDE DEF end, a, b, off
  <2>3. Apart(a, end)
    BY <1>6, <2>2
  <2>4. Apart(b, end)
    BY <1>6, <2>2
  <2>5. QED BY <2>3, <2>4 DEF a, b
<1> HIDE DEF end
<1>8. CASE cur.w > 0 \/ ~cur.any
  BY <1>3, <1>4, <1>5, <1>7, <1>8 DEF Columned, end
<1>9. CASE ~(cur.w > 0 \/ ~cur.any)
  BY <1>5, <1>7, <1>9 DEF Columned, end
<1>10. QED BY <1>8, <1>9

LEMMA CursorColumns ==
    ASSUME WrapSet, NEW acc \in Lined, NEW n \in Nat, Apart(acc.vlines, acc.global)
    PROVE  Columned(acc.vlines, Cursor(acc, n), acc.global, n)
<1> DEFINE cur == Cursor(acc, n)
           old == acc.vlines
           base == acc.global
<1>1. old \in Seq(VLine) /\ base \in Nat
  BY DEF Lined
<1>2. /\ cur.vlines = old /\ cur.global = base /\ cur.off = base /\ cur.source = 0
      /\ cur.from = 0 /\ cur.w = 0 /\ cur.line = n
  BY DEF Cursor
<1>3. cur \in Cur
  <2>1. <<>> \in Seq(Cell)
    OBVIOUS
  <2>2. QED BY <2>1, CursorLays
<1>4. Len(old) \in Nat
  BY <1>1, LenProperties
<1>5. Apart(old, base)
  OBVIOUS
<1> HIDE DEF cur, old, base
<1>6. /\ base = base + 0 /\ 0 = 0 + 0 /\ Len(old) <= Len(old)
      /\ (Len(old) + 1)..Len(old) = {}
  BY <1>1, <1>4
<1>7. Columned(old, cur, base, n)
  BY <1>1, <1>2, <1>3, <1>5, <1>6 DEF Columned
<1>8. QED BY <1>2, <1>7 DEF cur, old, base

LEMMA AddLinePlaces ==
    ASSUME WrapSet, NEW cells \in Seq(Cell), NEW acc \in Lined, NEW n \in Nat,
           Apart(acc.vlines, acc.global)
    PROVE  /\ Placed(acc, AddLine(acc, n, cells), n, cells)
           /\ (cells \in Seq(Broad) /\ (acc.pending <=> (n = 1 /\ firstLineOffset > 0)))
                => AddLine(acc, n, cells).global = acc.global + Width(cells) + 1
<1> DEFINE new == AddLine(acc, n, cells)
           old == acc.vlines
           base == acc.global
<1>1. old \in Seq(VLine) /\ base \in Nat /\ Width(cells) \in Nat /\ new \in Lined
  BY WidthIsNat, AddLineType DEF Lined
<1>2. CASE wrapMode # "none" /\ wrapWidth > 0 /\ cells # <<>>
  <2> DEFINE start == Cursor(acc, n)
             cur == Push(start, cells)
  <2>1. new = LineDone(cur)
    BY <1>2 DEF AddLine, WrapLine
  <2>2. Columned(old, start, base, n)
    BY CursorColumns
  <2> HIDE DEF start
  <2>3. Columned(old, cur, base, n)
    BY <1>2, <2>2, PushColumns
  <2>4. new.vlines = Finish(cur) /\ new.global = cur.global + 1 /\ ~new.pending
    BY <2>1 DEF LineDone
  <2> HIDE DEF cur, new
  <2>5. Placed(acc, new, n, cells)
    BY <1>1, <1>2, <2>3, <2>4, FinishColumns DEF Placed
  <2>6. ASSUME cells \in Seq(Broad), acc.pending <=> (n = 1 /\ firstLineOffset > 0)
        PROVE  new.global = base + Width(cells) + 1
    <3>1. Laid(cells, old, n, start, 0)
      BY <2>6, CursorLays DEF start
    <3>2. Laid(cells, old, n, cur, Len(cells))
      BY <1>1, <1>2, <2>6, <3>1, PushLays DEF cur
    <3>3. cur.source = Width(cells)
      BY <3>2, ColsAre DEF Laid
    <3>4. cur.global = base + cur.source
      BY <2>3 DEF Columned
    <3>5. QED BY <2>4, <3>3, <3>4
  <2>7. QED BY <2>5, <2>6 DEF new
<1>3. CASE ~(wrapMode # "none" /\ wrapWidth > 0 /\ cells # <<>>)
  <2> DEFINE v == [col |-> base, width |-> Width(cells), line |-> n, src |-> 0, wrap |-> 0]
             end == base + Width(cells) + 1
  <2>1. new = [vlines |-> Append(old, v), global |-> end, pending |-> FALSE]
    BY <1>3 DEF AddLine, WholeLine
  <2>2. new.vlines = Append(old, v) /\ new.global = end /\ ~new.pending
    BY <2>1
  <2>3. v \in VLine
    BY <1>1 DEF VLine
  <2>4. /\ v.col = base /\ v.width = Width(cells) /\ v.line = n /\ v.src = 0
        /\ base + 0 = base
    BY <1>1
  <2>5. end \in Nat /\ v.col + v.width <= end /\ base <= v.col
    BY <1>1
  <2> HIDE DEF v, end, new, old
  <2>6. /\ Len(Append(old, v)) = Len(old) + 1 /\ Len(old) \in Nat
        /\ Append(old, v)[Len(old) + 1] = v
        /\ \A k \in 1..Len(old) : Append(old, v)[k] = old[k]
    BY <1>1, <2>3, AppendProperties, LenProperties
  <2>7. Apart(Append(old, v), end)
    <3> HIDE DEF base
    <3>1. Apart(old, base)
      BY DEF old, base
    <3>2. QED BY <1>1, <2>3, <2>5, <3>1, ApartAppend
  <2>8. \A k \in (Len(old) + 1)..Len(new.vlines) : new.vlines[k] = v
    BY <2>2, <2>6
  <2>9. Placed(acc, new, n, cells)
    BY <1>1, <2>2, <2>4, <2>6, <2>7, <2>8 DEF Placed, old
  <2>10. new.global = base + Width(cells) + 1
    BY <2>2 DEF end
  <2>11. QED BY <2>9, <2>10 DEF new
<1>4. QED BY <1>2, <1>3

\* The column line n of the text starts at, a newline taking one.
LineCol(n) == Sum([j \in 1..(n - 1) |-> Width(CellsOf(j)) + 1])

\* The virtual lines of the first n lines, and the column they end at.
LinesPlaced(acc, n) ==
    /\ acc \in Lined /\ (acc.pending <=> (n = 0 /\ firstLineOffset > 0))
    /\ Apart(acc.vlines, acc.global)
    /\ \A k \in 1..Len(acc.vlines) :
         /\ acc.vlines[k].line \in 1..n
         /\ wrapMode = "none" => /\ acc.vlines[k].src = 0
                                 /\ acc.vlines[k].width = Width(CellsOf(acc.vlines[k].line))
    /\ AllBroad => /\ acc.global = LineCol(n + 1)
                   /\ \A k \in 1..Len(acc.vlines) :
                        acc.vlines[k].col = LineCol(acc.vlines[k].line) + acc.vlines[k].src

LEMMA LineCols ==
    ASSUME TextSet, TabSet
    PROVE  /\ LineCol(1) = 0
           /\ \A n \in 1..Len(ContentLines(content)) :
                /\ LineCol(n) \in Nat
                /\ LineCol(n + 1) = LineCol(n) + Width(CellsOf(n)) + 1
<1> DEFINE m == Len(ContentLines(content))
           w(n) == [j \in 1..(n - 1) |-> Width(CellsOf(j)) + 1]
<1>1. m \in Nat
  BY LinesOfText DEF TextSet, Cuts
<1> HIDE DEF m
<1>2. \A j \in 1..m : Width(CellsOf(j)) \in Nat
  BY CellsOfType, WidthIsNat DEF m
<1>3. \A n \in 1..(m + 1) : w(n) \in [1..(n - 1) -> Nat]
  BY <1>1, <1>2
<1>4. LineCol(1) = 0
  <2>1. w(1) = [k \in {} |-> w(1)[k]] /\ DOMAIN w(1) = {}
    OBVIOUS
  <2> HIDE DEF w
  <2>2. Sum(w(1)) = 0
    BY <2>1, SumOfNone
  <2>3. QED BY <2>2 DEF LineCol, w
<1>5. ASSUME NEW n \in 1..m
      PROVE  LineCol(n) \in Nat /\ LineCol(n + 1) = LineCol(n) + Width(CellsOf(n)) + 1
  <2> DEFINE s == w(n + 1)
             t == w(n)
             i == n - 1
             e == Width(CellsOf(n))
  <2>1. s \in [1..n -> Nat] /\ t \in [1..(n - 1) -> Nat] /\ n \in Nat \ {0} /\ e \in Nat
    BY <1>1, <1>2, <1>3
  <2>2. \A k \in 1..(n - 1) : t[k] = s[k]
    OBVIOUS
  <2>3. s[n] = e + 1
    OBVIOUS
  <2> HIDE DEF s, t, e
  <2>4. Sum(s) = Sum(t) + s[n]
    BY <2>1, <2>2, SumLast
  <2>5. Sum(t) \in Nat
    <3>1. i \in Int /\ t \in [1..i -> Nat]
      BY <2>1
    <3> HIDE DEF i
    <3>2. QED BY <3>1, SumIsNat
  <2>6. LineCol(n) = Sum(t) /\ LineCol(n + 1) = Sum(s)
    BY DEF LineCol, s, t, w
  <2>7. QED BY <2>1, <2>3, <2>4, <2>5, <2>6 DEF e
<1>6. QED BY <1>4, <1>5 DEF m

LEMMA LinesArePlaced ==
    ASSUME WrapSet, TextSet, TabSet
    PROVE  \E acc : /\ LinesPlaced(acc, Len(ContentLines(content)))
                    /\ acc.vlines = CalculateVirtualLines
<1> DEFINE lines == ContentLines(content)
           m == Len(lines)
<1>1. m \in Nat
  BY LinesOfText DEF TextSet, Cuts
<1> HIDE DEF lines
<1>2. PICK f : LinesTrace(f, lines)
  BY LinesFolds DEF lines
<1>3. CalculateVirtualLines = LinesFold(lines).vlines
  BY DEF CalculateVirtualLines, LinesFold, NoLine, Numbers, lines
<1>4. DOMAIN lines = 1..m
  BY LinesOfText DEF TextSet, Cuts, lines
<1>5. /\ f \in [0..m -> Lined] /\ f[0] = NoLine /\ f[m] = LinesFold(lines)
      /\ \A i \in 1..m : f[i] = AddLine(f[i - 1], i, CellsOf(i))
  BY <1>2, <1>4 DEF LinesTrace, Numbers
<1> DEFINE S == {i \in 0..m : LinesPlaced(f[i], i)}
<1>6. 0 \in S
  <2>1. /\ NoLine.vlines = <<>> /\ (NoLine.pending <=> firstLineOffset > 0)
        /\ NoLine.global = 0
    BY DEF NoLine
  <2>2. NoLine \in Lined
    BY <1>1, <1>5
  <2>3. Apart(<<>>, 0)
    BY DEF Apart
  <2>4. LineCol(0 + 1) = 0
    BY LineCols
  <2>5. LinesPlaced(NoLine, 0)
    BY <2>1, <2>2, <2>3, <2>4 DEF LinesPlaced
  <2>6. 0 \in 0..m
    BY <1>1
  <2>7. QED BY <1>5, <2>5, <2>6
<1>7. ASSUME NEW i \in 1..m, i - 1 \in S PROVE i \in S
  <2> DEFINE acc == f[i - 1]
             cells == CellsOf(i)
             new == AddLine(acc, i, cells)
             old == acc.vlines
  <2>1. LinesPlaced(acc, i - 1)
    BY <1>7
  <2> HIDE DEF acc
  <2>2. /\ acc \in Lined /\ (acc.pending <=> (i - 1 = 0 /\ firstLineOffset > 0))
        /\ Apart(acc.vlines, acc.global)
    BY <2>1 DEF LinesPlaced
  <2>3. i - 1 = 0 <=> i = 1
    BY <1>1
  <2>4. /\ cells \in Seq(Cell) /\ (AllBroad => cells \in Seq(Broad)) /\ Width(cells) \in Nat
        /\ LineCol(i) \in Nat /\ LineCol(i + 1) = LineCol(i) + Width(cells) + 1
    BY CellsOfType, LineCols, WidthIsNat DEF m, lines, AllBroad
  <2> HIDE DEF m, cells
  <2>5. i \in Nat /\ (i - 1) + 1 = i /\ i \in 0..m /\ i \in 1..i
    BY <1>1
  <2>6. /\ Placed(acc, new, i, cells)
        /\ AllBroad => new.global = acc.global + Width(cells) + 1
    BY <2>2, <2>3, <2>4, <2>5, AddLinePlaces
  <2> HIDE DEF new
  <2>7. /\ new \in Lined /\ ~new.pending /\ Apart(new.vlines, new.global)
        /\ Len(old) <= Len(new.vlines)
        /\ \A k \in 1..Len(old) : new.vlines[k] = old[k]
        /\ \A k \in (Len(old) + 1)..Len(new.vlines) :
             /\ new.vlines[k].line = i
             /\ new.vlines[k].col = acc.global + new.vlines[k].src
             /\ wrapMode = "none" => new.vlines[k].src = 0 /\ new.vlines[k].width = Width(cells)
    BY <2>6 DEF Placed
  <2>8. Len(old) \in Nat /\ Len(new.vlines) \in Nat
    BY <2>2, <2>7, LenProperties DEF Lined
  <2>9. AllBroad => acc.global = LineCol(i)
    BY <2>1, <2>5 DEF LinesPlaced
  <2>10. ASSUME NEW k \in 1..Len(new.vlines)
         PROVE  /\ new.vlines[k].line \in 1..i
                /\ wrapMode = "none" => /\ new.vlines[k].src = 0
                                        /\ new.vlines[k].width = Width(CellsOf(new.vlines[k].line))
                /\ AllBroad => new.vlines[k].col = LineCol(new.vlines[k].line) + new.vlines[k].src
    <3>1. CASE k \in 1..Len(old)
      <4>1. /\ old[k].line \in 1..(i - 1)
            /\ wrapMode = "none" => old[k].src = 0 /\ old[k].width = Width(CellsOf(old[k].line))
            /\ AllBroad => old[k].col = LineCol(old[k].line) + old[k].src
        BY <2>1, <3>1 DEF LinesPlaced
      <4>2. new.vlines[k] = old[k]
        BY <2>7, <3>1
      <4>3. old[k].line \in 1..i
        BY <2>5, <4>1
      <4>4. QED BY <4>1, <4>2, <4>3
    <3>2. CASE k \notin 1..Len(old)
      BY <2>5, <2>7, <2>8, <2>9, <3>2 DEF cells
    <3>3. QED BY <3>1, <3>2
  <2>11. AllBroad => new.global = LineCol(i + 1)
    BY <2>4, <2>6, <2>9
  <2>12. new.pending <=> (i = 0 /\ firstLineOffset > 0)
    BY <2>7
  <2>13. LinesPlaced(new, i)
    BY <2>7, <2>10, <2>11, <2>12 DEF LinesPlaced
  <2>14. f[i] = new
    BY <1>5 DEF new, acc, cells
  <2>15. QED BY <2>5, <2>13, <2>14
<1> HIDE DEF S, m
<1>8. \A i \in 0..m : i \in S
  BY <1>1, <1>6, <1>7, Induction
<1>9. m \in 0..m
  BY <1>1
<1>10. LinesPlaced(LinesFold(lines), m)
  BY <1>5, <1>8, <1>9 DEF S
<1>11. QED BY <1>3, <1>10 DEF m, lines

(***************************************************************************)
(* The clusters of a line are the clusters of the whole text that start in *)
(* it, where no newline is in a cluster with other scalars.                *)
(***************************************************************************)
\* The scalar i joins the cluster before it, or starts one of its own.
Folds(c, acc, i) ==
    acc.cells # <<>> /\ (acc.joins \/ c[i] \in Extenders \union {"zwj"})

Widens(c, acc, i) == ~acc.joins /\ c[i] = "vs16" /\ acc.cells[Len(acc.cells)].width = 1

Wider(cell, widens) == [cell EXCEPT !.len = @ + 1, !.width = IF widens THEN 2 ELSE @]

Fresh(c, i) == [at |-> i, len |-> 1, width |-> IF c[i] \in Wide THEN 2 ELSE 1]

\* The lengths of some cells are numbers.
LEMMA LensAreNat ==
    ASSUME NEW acc \in Gathered
    PROVE  /\ acc.cells \in Seq(Broad) /\ Len(acc.cells) \in Nat
           /\ \A k \in 1..Len(acc.cells) : acc.cells[k].at \in Nat /\ acc.cells[k].len \in Nat
<1>1. acc.cells \in Seq(Broad)
  BY DEF Gathered
<1>2. \A k \in 1..Len(acc.cells) : acc.cells[k] \in Broad
  BY <1>1, ElementOfSeq
<1>3. QED BY <1>1, <1>2, LenProperties DEF Broad, Cell

\* What is known of a cluster that grows: it starts where it did.
LEMMA WiderIs ==
    ASSUME NEW cell \in Broad, NEW widens
    PROVE  /\ Wider(cell, widens) \in Broad
           /\ Wider(cell, widens).at = cell.at
           /\ Wider(cell, widens).len = cell.len + 1
<1> DEFINE w == IF widens THEN 2 ELSE cell.width
<1>1. cell \in [at : Nat, len : Nat, width : Nat] /\ cell.width > 0
  BY DEF Broad, Cell
<1>2. w \in Nat /\ w > 0 /\ cell.len + 1 \in Nat
  BY <1>1
<1>3. Wider(cell, widens) = [cell EXCEPT !.len = @ + 1, !.width = w]
  BY <1>1 DEF Wider
<1> HIDE DEF w
<1>4. /\ Wider(cell, widens) \in [at : Nat, len : Nat, width : Nat]
      /\ Wider(cell, widens).at = cell.at
      /\ Wider(cell, widens).len = cell.len + 1
      /\ Wider(cell, widens).width = w
  BY <1>1, <1>2, <1>3
<1>5. QED BY <1>2, <1>4 DEF Broad, Cell

LEMMA FreshIs ==
    ASSUME NEW c, NEW i \in Nat
    PROVE  Fresh(c, i) \in Broad /\ Fresh(c, i).at = i /\ Fresh(c, i).len = 1
BY DEF Fresh, Broad, Cell

\* Some cells after a scalar joined the last, and after it started another.
Joined(cells, next, last) ==
    /\ Len(cells) \in Nat \ {0} /\ Len(next) = Len(cells) /\ next # <<>>
    /\ \A k \in 1..(Len(cells) - 1) : next[k] = cells[k]
    /\ next[Len(cells)] = last
    /\ last.at = cells[Len(cells)].at /\ last.len = cells[Len(cells)].len + 1

Added(cells, next, last, i) ==
    /\ Len(cells) \in Nat /\ Len(next) = Len(cells) + 1 /\ next # <<>>
    /\ \A k \in 1..Len(cells) : next[k] = cells[k]
    /\ next[Len(cells) + 1] = last
    /\ last.at = i /\ last.len = 1

LEMMA NextClusterIs ==
    ASSUME NEW c, NEW acc \in Gathered, NEW i \in Nat
    PROVE  /\ Folds(c, acc, i) =>
                /\ Joined(acc.cells, NextCluster(c, acc, i).cells,
                          Wider(acc.cells[Len(acc.cells)], Widens(c, acc, i)))
                /\ NextCluster(c, acc, i).joins <=> (~acc.joins /\ c[i] = "zwj")
           /\ ~Folds(c, acc, i) =>
                /\ Added(acc.cells, NextCluster(c, acc, i).cells, Fresh(c, i), i)
                /\ ~NextCluster(c, acc, i).joins
<1> DEFINE cells == acc.cells
           n == Len(cells)
           next == NextCluster(c, acc, i).cells
           one == Wider(cells[n], Widens(c, acc, i))
           fresh == Fresh(c, i)
           grown == [cells EXCEPT ![n] = one]
           more == Append(cells, fresh)
           joins == ~acc.joins /\ c[i] = "zwj"
<1>1. /\ cells \in Seq(Broad) /\ n \in Nat /\ DOMAIN cells = 1..n
      /\ \A k \in 1..n : cells[k].at \in Nat /\ cells[k].len \in Nat
  BY LensAreNat, LenProperties
<1>2. NextCluster(c, acc, i)
        = IF Folds(c, acc, i) THEN [cells |-> grown, joins |-> joins]
          ELSE [cells |-> more, joins |-> FALSE]
  BY DEF NextCluster, Folds, Widens, Wider, Fresh
<1> HIDE DEF grown, more, joins
<1>3. ASSUME Folds(c, acc, i)
      PROVE  next = grown /\ (NextCluster(c, acc, i).joins <=> joins)
  BY <1>2, <1>3
<1>4. ASSUME ~Folds(c, acc, i)
      PROVE  next = more /\ ~NextCluster(c, acc, i).joins
  BY <1>2, <1>4
<1>5. Folds(c, acc, i) => Joined(cells, next, one)
  <2>1. SUFFICES ASSUME Folds(c, acc, i) PROVE Joined(cells, next, one)
    OBVIOUS
  <2>2. n \in 1..n
    BY <1>1, <2>1, EmptySeq DEF Folds
  <2>3. cells[n] \in Broad
    BY <1>1, <2>2, ElementOfSeq
  <2>4. one \in Broad /\ one.at = cells[n].at /\ one.len = cells[n].len + 1
    BY <2>3, WiderIs
  <2>5. next = grown
    BY <1>3, <2>1
  <2> HIDE DEF one, next, cells
  <2>6. /\ grown \in Seq(Broad) /\ Len(grown) = n
        /\ \A k \in 1..n : grown[k] = IF k = n THEN one ELSE cells[k]
    BY <1>1, <2>2, <2>4, ExceptSeq DEF grown
  <2>7. grown # <<>>
    BY <2>2, <2>6, EmptySeq
  <2>8. n \in Nat \ {0} /\ \A k \in 1..(n - 1) : k \in 1..n /\ k # n
    <3> HIDE DEF n
    <3>1. QED BY <1>1, <2>2
  <2>9. \A k \in 1..(n - 1) : grown[k] = cells[k]
    BY <2>6, <2>8
  <2>10. QED BY <2>2, <2>4, <2>5, <2>6, <2>7, <2>8, <2>9 DEF Joined
<1>6. ~Folds(c, acc, i) => Added(cells, next, fresh, i)
  <2>1. SUFFICES ASSUME ~Folds(c, acc, i) PROVE Added(cells, next, fresh, i)
    OBVIOUS
  <2>2. fresh \in Broad /\ fresh.at = i /\ fresh.len = 1
    BY FreshIs
  <2>3. next = more
    BY <1>4, <2>1
  <2> HIDE DEF fresh, next, cells
  <2>4. /\ more \in Seq(Broad) /\ Len(more) = n + 1 /\ more # <<>>
        /\ \A k \in 1..n : more[k] = cells[k]
        /\ more[n + 1] = fresh
    BY <1>1, <2>2, AppendProperties DEF more
  <2>5. QED BY <1>1, <2>2, <2>3, <2>4 DEF Added
<1>7. QED BY <1>3, <1>4, <1>5, <1>6, Zenon DEF joins

\* The clusters gathered of the scalars from..i cover them up to the last.
Tiled(acc, from, i) ==
    /\ acc \in Gathered
    /\ acc.cells = <<>> <=> i < from
    /\ \A k \in 1..Len(acc.cells) : acc.cells[k].at \in from..i /\ acc.cells[k].len > 0
    /\ acc.cells # <<>> =>
         acc.cells[Len(acc.cells)].at + acc.cells[Len(acc.cells)].len = i + 1

LEMMA NextTiles ==
    ASSUME NEW c, NEW from \in Nat \ {0}, NEW i \in Nat, from <= i,
           NEW acc, Tiled(acc, from, i - 1)
    PROVE  Tiled(NextCluster(c, acc, i), from, i)
<1> DEFINE cells == acc.cells
           n == Len(cells)
           next == NextCluster(c, acc, i).cells
<1>1. acc \in Gathered
  BY DEF Tiled
<1>2. \A k \in 1..n : cells[k].at \in from..(i - 1) /\ cells[k].len > 0
  BY DEF Tiled
<1>3. cells # <<>> => cells[n].at + cells[n].len = i
  BY DEF Tiled
<1>4. CASE Folds(c, acc, i)
  <2>1. cells # <<>>
    BY <1>4 DEF Folds
  <2> HIDE DEF n, cells, next
  <2> cells = acc.cells /\ n = Len(cells) /\ next = NextCluster(c, acc, i).cells
    BY DEF cells, n, next
  <2>2. /\ NextCluster(c, acc, i) \in Gathered
        /\ \A k \in 1..n : cells[k].at \in Nat /\ cells[k].len \in Nat
        /\ n \in Nat \ {0} /\ Len(next) = n /\ next # <<>>
        /\ \A k \in 1..(n - 1) : next[k] = cells[k]
        /\ next[n].at = cells[n].at /\ next[n].len = cells[n].len + 1
    <3>1. Joined(cells, next, Wider(cells[n], Widens(c, acc, i)))
      BY <1>1, <1>4, NextClusterIs DEF cells, n, next
    <3>2. /\ n \in Nat \ {0} /\ Len(next) = n /\ next # <<>>
          /\ \A k \in 1..(n - 1) : next[k] = cells[k]
          /\ next[n].at = cells[n].at /\ next[n].len = cells[n].len + 1
      BY <3>1 DEF Joined
    <3>3. \A k \in 1..n : cells[k].at \in Nat /\ cells[k].len \in Nat
      BY <1>1, LensAreNat
    <3>4. QED BY <1>1, <3>2, <3>3, NextClusterType
  <2>3. \A k \in 1..n : next[k].at \in from..i /\ next[k].len > 0
    <3>1. SUFFICES ASSUME NEW k \in 1..n PROVE next[k].at \in from..i /\ next[k].len > 0
      OBVIOUS
    <3>2. next[k].at = cells[k].at /\ (next[k].len = cells[k].len \/ next[k].len = cells[k].len + 1)
      <4>1. k = n \/ k \in 1..(n - 1)
        BY <2>2
      <4>2. QED BY <2>2, <4>1
    <3>3. QED BY <1>2, <2>2, <3>2
  <2>4. next[n].at + next[n].len = i + 1
    <3>1. cells[n].at + cells[n].len = i
      BY <1>3, <2>1
    <3>2. cells[n].at \in Nat /\ cells[n].len \in Nat
      BY <2>2
    <3>3. next[n].at = cells[n].at /\ next[n].len = cells[n].len + 1
      BY <2>2
    <3>4. \A x, y \in Nat : x + y = i => x + (y + 1) = i + 1
      OBVIOUS
    <3>5. cells[n].at + (cells[n].len + 1) = i + 1
      BY <3>1, <3>2, <3>4
    <3>6. QED BY <3>3, <3>5
  <2>5. QED BY <2>2, <2>3, <2>4 DEF Tiled, next
<1>5. CASE ~Folds(c, acc, i)
  <2> HIDE DEF n, cells, next
  <2> cells = acc.cells /\ n = Len(cells) /\ next = NextCluster(c, acc, i).cells
    BY DEF cells, n, next
  <2>1. /\ n \in Nat /\ NextCluster(c, acc, i) \in Gathered
        /\ Len(next) = n + 1 /\ next # <<>>
        /\ \A k \in 1..n : next[k] = cells[k]
        /\ next[n + 1].at = i /\ next[n + 1].len = 1
    <3>1. \E last : Added(cells, next, last, i)
      BY <1>1, <1>5, NextClusterIs
    <3>2. QED BY <1>1, <3>1, NextClusterType DEF Added
  <2>2. \A k \in 1..(n + 1) : next[k].at \in from..i /\ next[k].len > 0
    <3>1. SUFFICES ASSUME NEW k \in 1..(n + 1) PROVE next[k].at \in from..i /\ next[k].len > 0
      OBVIOUS
    <3>2. CASE k = n + 1
      BY <2>1, <3>2
    <3>3. CASE k \in 1..n
      BY <1>2, <2>1, <3>3, SMTT(20)
    <3>4. QED BY <2>1, <3>2, <3>3
  <2>3. QED BY <2>1, <2>2 DEF Tiled, next
<1>6. QED BY <1>4, <1>5

\* Of the clusters gathered, all but the last are settled, and the last only
\* takes in more scalars.
Grows(acc, acc2) ==
    /\ Len(acc.cells) <= Len(acc2.cells)
    /\ \A k \in 1..Len(acc.cells) :
         acc2.cells[k].at = acc.cells[k].at /\ acc.cells[k].len <= acc2.cells[k].len
    /\ \A k \in 1..(Len(acc.cells) - 1) : acc2.cells[k] = acc.cells[k]

LEMMA NextGrows ==
    ASSUME NEW c, NEW acc \in Gathered, NEW i \in Nat
    PROVE  Grows(acc, NextCluster(c, acc, i))
<1> DEFINE cells == acc.cells
           n == Len(cells)
           next == NextCluster(c, acc, i).cells
<1> HIDE DEF n, cells, next
<1> cells = acc.cells /\ n = Len(cells) /\ next = NextCluster(c, acc, i).cells
  BY DEF cells, n, next
<1>1. n \in Nat /\ \A k \in 1..n : cells[k].at \in Nat /\ cells[k].len \in Nat
  BY LensAreNat
<1>2. CASE Folds(c, acc, i)
  <2>1. /\ n \in 1..n /\ Len(next) = n
        /\ \A k \in 1..(n - 1) : next[k] = cells[k]
        /\ next[n].at = cells[n].at /\ next[n].len = cells[n].len + 1
    <3>1. Joined(cells, next, Wider(cells[n], Widens(c, acc, i)))
      BY <1>2, NextClusterIs DEF cells, n, next
    <3>2. QED BY <3>1 DEF Joined
  <2>2. \A k \in 1..n : k = n \/ k \in 1..(n - 1)
    BY <1>1
  <2>3. \A k \in 1..n : next[k].at = cells[k].at /\ cells[k].len <= next[k].len
    <3>1. ASSUME NEW k \in 1..(n - 1)
          PROVE  next[k].at = cells[k].at /\ cells[k].len <= next[k].len
      <4>1. next[k] = cells[k] /\ k \in 1..n
        BY <1>1, <2>1
      <4>2. cells[k].len \in Nat
        BY <1>1, <4>1
      <4>3. QED BY <4>1, <4>2
    <3>2. cells[n].len \in Nat
      BY <1>1, <2>1
    <3>3. next[n].at = cells[n].at /\ cells[n].len <= next[n].len
      BY <2>1, <3>2
    <3>4. QED BY <2>2, <3>1, <3>3
  <2>4. QED BY <1>1, <2>1, <2>3 DEF Grows, next, n, cells
<1>3. CASE ~Folds(c, acc, i)
  <2>1. Len(next) = n + 1 /\ \A k \in 1..n : next[k] = cells[k]
    <3>1. \E last : Added(cells, next, last, i)
      BY <1>3, NextClusterIs
    <3>2. QED BY <3>1 DEF Added
  <2>2. \A k \in 1..n : next[k].at = cells[k].at /\ cells[k].len <= next[k].len
    BY <1>1, <2>1
  <2>3. \A k \in 1..(n - 1) : next[k] = cells[k]
    BY <1>1, <2>1
  <2>4. QED BY <1>1, <2>1, <2>2, <2>3 DEF Grows, next, n, cells
<1>4. QED BY <1>2, <1>3

LEMMA GrowsOn ==
    ASSUME NEW acc \in Gathered, NEW acc2 \in Gathered, NEW acc3 \in Gathered,
           Grows(acc, acc2), Grows(acc2, acc3)
    PROVE  Grows(acc, acc3)
<1> DEFINE a == acc.cells
           b == acc2.cells
           d == acc3.cells
<1>1. Len(a) \in Nat /\ Len(b) \in Nat /\ Len(d) \in Nat
  BY LensAreNat
<1>2. /\ \A k \in 1..Len(a) : a[k].len \in Nat
      /\ \A k \in 1..Len(b) : b[k].len \in Nat
      /\ \A k \in 1..Len(d) : d[k].len \in Nat
  BY LensAreNat
<1>3. /\ Len(a) <= Len(b) /\ Len(b) <= Len(d)
      /\ \A k \in 1..Len(a) : b[k].at = a[k].at /\ a[k].len <= b[k].len
      /\ \A k \in 1..Len(b) : d[k].at = b[k].at /\ b[k].len <= d[k].len
      /\ \A k \in 1..(Len(a) - 1) : b[k] = a[k]
      /\ \A k \in 1..(Len(b) - 1) : d[k] = b[k]
  BY DEF Grows
<1> HIDE DEF a, b, d
<1>4. /\ \A k \in 1..Len(a) : k \in 1..Len(b) /\ k \in 1..Len(d)
      /\ \A k \in 1..(Len(a) - 1) : k \in 1..(Len(b) - 1)
      /\ Len(a) <= Len(d)
  BY <1>1, <1>3
<1>5. \A k \in 1..Len(a) : d[k].at = a[k].at /\ a[k].len <= d[k].len
  <2>1. SUFFICES ASSUME NEW k \in 1..Len(a) PROVE d[k].at = a[k].at /\ a[k].len <= d[k].len
    OBVIOUS
  <2> DEFINE x == a[k].len
             y == b[k].len
             z == d[k].len
  <2>2. x \in Nat /\ y \in Nat /\ z \in Nat /\ x <= y /\ y <= z
    BY <1>2, <1>3, <1>4
  <2>3. d[k].at = a[k].at
    BY <1>3, <1>4
  <2> HIDE DEF x, y, z
  <2>4. x <= z
    BY <2>2
  <2>5. QED BY <2>3, <2>4 DEF x, z
<1>6. \A k \in 1..(Len(a) - 1) : d[k] = a[k]
  BY <1>3, <1>4
<1>7. QED BY <1>4, <1>5, <1>6 DEF Grows, a, d

\* The trace of the whole text: it covers the scalars taken, and only grows.
LEMMA TraceTiles ==
    ASSUME NEW c, NEW from \in Nat \ {0}, NEW to \in Nat, from <= to + 1,
           NEW f, ClustersTrace(f, c, from, to)
    PROVE  \A j \in 0..(to - from + 1) : Tiled(f[j], from, from + j - 1)
<1> DEFINE N == to - from + 1
           S == {j \in 0..N : Tiled(f[j], from, from + j - 1)}
<1>1. N \in Nat
  OBVIOUS
<1>2. Tiled(f[0], from, from + 0 - 1)
  <2>1. f[0] = [cells |-> <<>>, joins |-> FALSE] /\ f[0] \in Gathered
    <3>1. 0 \in 0..N
      BY <1>1
    <3> HIDE DEF N
    <3>2. f \in [0..N -> Gathered] /\ f[0] = NothingGathered
      BY DEF ClustersTrace, N
    <3>3. QED BY <3>1, <3>2 DEF NothingGathered
  <2>2. f[0].cells = <<>> /\ Len(f[0].cells) = 0
    BY <2>1
  <2>3. QED BY <2>1, <2>2 DEF Tiled
<1>3. ASSUME NEW j \in 1..N, j - 1 \in S PROVE j \in S
  <2> DEFINE i == from + j - 1
  <2>1. f[j] = NextCluster(c, f[j - 1], i)
    BY DEF ClustersTrace, Places
  <2>2. i \in Nat /\ from <= i /\ from + (j - 1) - 1 = i - 1
    BY <1>1
  <2>3. Tiled(f[j - 1], from, i - 1)
    BY <1>3, <2>2
  <2> HIDE DEF i
  <2>4. Tiled(f[j], from, i)
    BY <2>1, <2>2, <2>3, NextTiles
  <2>5. QED BY <2>4 DEF i
<1>4. 0 \in S
  BY <1>1, <1>2
<1> HIDE DEF S
<1>5. \A j \in 0..N : j \in S
  BY <1>1, <1>3, <1>4, Induction
<1>6. QED BY <1>5 DEF S

LEMMA TraceGrows ==
    ASSUME NEW c, NEW to \in Nat, NEW f, ClustersTrace(f, c, 1, to),
           NEW i \in 0..to, NEW j \in 0..to, i <= j
    PROVE  Grows(f[i], f[j])
<1> DEFINE S == {k \in 0..to : i <= k => Grows(f[i], f[k])}
<1>1. f \in [0..to -> Gathered] /\ \A k \in 1..to : f[k] = NextCluster(c, f[k - 1], k)
  BY DEF ClustersTrace, Places
<1>2. f[i] \in Gathered
  BY <1>1
<1>3. Grows(f[i], f[i])
  <2> DEFINE a == f[i].cells
  <2>1. Len(a) \in Nat
    BY <1>2, LensAreNat
  <2>2. \A k \in 1..Len(a) : a[k].len \in Nat
    BY <1>2, LensAreNat
  <2> HIDE DEF a
  <2>3. Len(a) <= Len(a) /\ \A k \in 1..Len(a) : a[k].len <= a[k].len
    BY <2>1, <2>2
  <2>4. QED BY <2>3 DEF Grows, a
<1>4. 0 \in S
  BY <1>3
<1>5. ASSUME NEW k \in 1..to, k - 1 \in S PROVE k \in S
  <2>1. CASE k <= i
    BY <1>3, <2>1
  <2>2. CASE i < k
    <3>1. i <= k - 1 /\ k \in Nat
      BY <2>2
    <3>2. Grows(f[i], f[k - 1]) /\ f[k - 1] \in Gathered /\ f[k] \in Gathered
      BY <1>1, <1>5, <3>1
    <3>3. Grows(f[k - 1], f[k])
      BY <1>1, <3>1, <3>2, NextGrows
    <3> HIDE DEF S
    <3>4. Grows(f[i], f[k])
      BY <1>2, <3>2, <3>3, GrowsOn
    <3>5. QED BY <3>4 DEF S
  <2>3. QED BY <2>1, <2>2
<1> HIDE DEF S
<1>6. \A k \in 0..to : k \in S
  BY <1>4, <1>5, Induction
<1>7. QED BY <1>6 DEF S

TextCells == Clusters(content, 1, Len(content))

\* What the text has gathered after each of its scalars.
TextTrace(f) ==
    /\ ClustersTrace(f, content, 1, Len(content))
    /\ f \in [0..Len(content) -> Gathered]
    /\ f[0] = NothingGathered
    /\ \A i \in 1..Len(content) : f[i] = NextCluster(content, f[i - 1], i)
    /\ \A i \in 0..Len(content) : Tiled(f[i], 1, i)
    /\ f[Len(content)].cells = TextCells

LEMMA TextIsTraced == ASSUME TextSet PROVE Len(content) \in Nat /\ \E f : TextTrace(f)
<1> DEFINE L == Len(content)
<1>1. L \in Nat
  BY LenProperties DEF TextSet
<1> HIDE DEF L
<1>2. PICK f : ClustersTrace(f, content, 1, L)
  <2>1. 1 \in Nat /\ 1 <= L + 1
    BY <1>1
  <2>2. QED BY <1>1, <2>1, ClustersFolds
<1>3. L - 1 + 1 = L /\ \A i \in 1..L : Places(1, L)[i] = i
  BY <1>1 DEF Places
<1>4. /\ f \in [0..L -> Gathered] /\ f[0] = NothingGathered
      /\ \A i \in 1..L : f[i] = NextCluster(content, f[i - 1], i)
      /\ f[L] = ClustersFold(content, 1, L)
  BY <1>2, <1>3 DEF ClustersTrace
<1>5. \A i \in 0..L : Tiled(f[i], 1, i)
  BY <1>1, <1>2, <1>3, TraceTiles
<1>6. TextCells = f[L].cells
  BY <1>4 DEF TextCells, Clusters, ClustersFold, Places, NothingGathered, L
<1>7. TextTrace(f)
  BY <1>2, <1>4, <1>5, <1>6 DEF L, TextTrace
<1>8. QED BY <1>1, <1>7 DEF L

\* A newline, and the scalar after one, start a cluster.
LEMMA NewlineAlone ==
    ASSUME TextSet, SameClusters, NEW f, TextTrace(f),
           NEW i \in 1..Len(content), content[i] = "nl" \/ (i > 1 /\ content[i - 1] = "nl")
    PROVE  ~Folds(content, f[i - 1], i)
<1>1. SUFFICES ASSUME Folds(content, f[i - 1], i) PROVE FALSE
  OBVIOUS
<1> DEFINE L == Len(content)
           cells == f[i - 1].cells
           n == Len(cells)
           old == cells[n]
           next == f[i].cells
           cell == TextCells[n]
<1>2. L \in Nat /\ i - 1 \in 0..L /\ i \in 0..L /\ L \in 0..L /\ i <= L /\ i \in Nat
  BY LenProperties DEF TextSet
<1>3. /\ f[i - 1] \in Gathered /\ f[i] \in Gathered /\ f[L] \in Gathered
      /\ f[L].cells = TextCells
  BY <1>2 DEF TextTrace
<1>4. n \in Nat \ {0} /\ Len(next) = n /\ next[n].at = old.at /\ next[n].len = old.len + 1
  <2> f[i] = NextCluster(content, f[i - 1], i)
    BY DEF TextTrace
  <2>1. Joined(cells, next, Wider(cells[n], Widens(content, f[i - 1], i)))
    BY <1>1, <1>2, <1>3, NextClusterIs
  <2> HIDE DEF next, cells
  <2>2. QED BY <2>1 DEF Joined
<1>5. cells # <<>> /\ Tiled(f[i - 1], 1, i - 1)
  BY <1>1, <1>2 DEF Folds, TextTrace
<1>6. old.at \in 1..(i - 1) /\ old.len > 0 /\ old.at + old.len = i - 1 + 1
  <2>1. /\ \A k \in 1..Len(cells) : cells[k].at \in 1..(i - 1) /\ cells[k].len > 0
        /\ cells[Len(cells)].at + cells[Len(cells)].len = i - 1 + 1
    BY <1>5 DEF Tiled
  <2> HIDE DEF cells
  <2>2. QED BY <1>4, <2>1
<1>7. old.len \in Nat
  BY <1>3, <1>4, LensAreNat
<1>8. Grows(f[i], f[L])
  BY <1>2, TraceGrows DEF TextTrace
<1>9. n \in 1..Len(TextCells) /\ cell.at = old.at /\ next[n].len <= cell.len
  <2> n <= Len(f[L].cells)
    BY <1>4, <1>8 DEF Grows
  <2>1. Len(f[L].cells) \in Nat
    BY <1>3, LensAreNat
  <2>2. n \in 1..Len(f[L].cells) /\ n \in 1..Len(f[i].cells)
    BY <1>4, <2>1
  <2>3. f[L].cells[n].at = next[n].at /\ next[n].len <= f[L].cells[n].len
    BY <1>8, <2>2 DEF Grows
  <2>4. cell = f[L].cells[n]
    BY <1>3
  <2> HIDE DEF cell, old, next
  <2>5. QED BY <1>3, <1>4, <2>2, <2>3, <2>4
<1>10. cell.len \in Nat /\ TextCells \in Seq(Broad)
  BY <1>3, <1>9, LensAreNat
<1>11. cell \in Range(TextCells)
  BY <1>9, <1>10, LenProperties DEF Range
<1> DEFINE shown == {content[k] : k \in cell.at..(cell.at + cell.len - 1)}
<1>12. "nl" \in shown => cell.len = 1
  BY <1>11 DEF SameClusters, TextCells
<1>13. i \in cell.at..(cell.at + cell.len - 1) /\ i - 1 \in cell.at..(cell.at + cell.len - 1)
       /\ cell.len > 1
  <2> DEFINE a == old.at
             l == old.len
             m == cell.len
  <2>1. /\ a \in 1..(i - 1) /\ l > 0 /\ a + l = i - 1 + 1 /\ l \in Nat
        /\ cell.at = a /\ l + 1 <= m /\ m \in Nat
    BY <1>4, <1>6, <1>7, <1>9, <1>10
  <2> HIDE DEF a, l, m, cell
  <2>2. i \in a..(a + m - 1) /\ i - 1 \in a..(a + m - 1) /\ m > 1
    BY <1>2, <2>1
  <2>3. QED BY <2>1, <2>2 DEF m
<1> HIDE DEF cell
<1>14. "nl" \in shown
  BY <1>13
<1>15. QED BY <1>12, <1>13, <1>14

\* What a line has gathered, as part of what the text has.
InLine(pre, acc, one) ==
    /\ Len(acc.cells) = Len(pre.cells) + Len(one.cells)
    /\ \A k \in 1..Len(one.cells) : acc.cells[Len(pre.cells) + k] = one.cells[k]
    /\ one.cells # <<>> => (acc.joins <=> one.joins)

LEMMA InLineNext ==
    ASSUME NEW c, NEW pre \in Gathered, NEW acc \in Gathered, NEW one \in Gathered, NEW i \in Nat,
           InLine(pre, acc, one), Folds(c, acc, i) <=> Folds(c, one, i)
    PROVE  InLine(pre, NextCluster(c, acc, i), NextCluster(c, one, i))
<1> DEFINE q == Len(pre.cells)
           a == acc.cells
           b == one.cells
           n == Len(a)
           m == Len(b)
           a2 == NextCluster(c, acc, i).cells
           b2 == NextCluster(c, one, i).cells
           wa == Wider(a[n], Widens(c, acc, i))
           wb == Wider(b[m], Widens(c, one, i))
<1>1. q \in Nat /\ n \in Nat /\ m \in Nat
  BY LensAreNat
<1>2. n = q + m /\ \A k \in 1..m : a[q + k] = b[k]
  BY DEF InLine
<1>3. CASE Folds(c, one, i)
  <2>1. Joined(a, a2, wa) /\ Joined(b, b2, wb)
    BY <1>3, NextClusterIs
  <2>2. NextCluster(c, acc, i).joins <=> NextCluster(c, one, i).joins
    BY <1>3, NextClusterIs DEF Folds, InLine
  <2>3. m \in 1..m /\ q + m = n
    <3>1. m \in Nat \ {0}
      BY <2>1 DEF Joined
    <3> HIDE DEF m, n, q
    <3>2. QED BY <1>1, <1>2, <3>1
  <2>4. wa = wb
    <3>1. a[n] = b[m]
      BY <1>2, <2>3
    <3>2. acc.joins <=> one.joins
      BY <1>3 DEF Folds, InLine
    <3>3. Widens(c, acc, i) <=> Widens(c, one, i)
      BY <3>1, <3>2 DEF Widens
    <3> HIDE DEF a, b, n, m
    <3>4. QED BY <3>1, <3>3 DEF Wider
  <2> HIDE DEF wa, wb, a, b, a2, b2
  <2>5. /\ Len(a2) = n /\ \A k \in 1..(n - 1) : a2[k] = a[k] /\ a2[n] = wa
        /\ Len(b2) = m /\ \A k \in 1..(m - 1) : b2[k] = b[k] /\ b2[m] = wb
    BY <2>1 DEF Joined
  <2>6. a2[n] = wa /\ b2[m] = wb
    BY <2>1 DEF Joined
  <2> HIDE DEF q, n, m
  <2>7. ASSUME NEW k \in 1..m PROVE a2[q + k] = b2[k]
    <3>1. CASE k = m
      BY <2>3, <2>4, <2>6, <3>1
    <3>2. CASE k # m
      BY <1>1, <1>2, <2>3, <2>5, <3>2
    <3>3. QED BY <3>1, <3>2
  <2>8. QED BY <1>2, <2>2, <2>5, <2>7 DEF InLine, a2, b2, q
<1>4. CASE ~Folds(c, one, i)
  <2>1. Added(a, a2, Fresh(c, i), i) /\ Added(b, b2, Fresh(c, i), i)
    BY <1>4, NextClusterIs
  <2>2. ~NextCluster(c, acc, i).joins /\ ~NextCluster(c, one, i).joins
    BY <1>4, NextClusterIs
  <2> HIDE DEF a, b, a2, b2
  <2>3. /\ Len(a2) = n + 1 /\ \A k \in 1..n : a2[k] = a[k]
        /\ Len(b2) = m + 1 /\ \A k \in 1..m : b2[k] = b[k]
        /\ a2[n + 1] = Fresh(c, i) /\ b2[m + 1] = Fresh(c, i)
    BY <2>1 DEF Added
  <2> HIDE DEF q, n, m
  <2>4. ASSUME NEW k \in 1..(m + 1) PROVE a2[q + k] = b2[k]
    <3>1. CASE k = m + 1
      BY <1>1, <1>2, <2>3, <3>1
    <3>2. CASE k # m + 1
      BY <1>1, <1>2, <2>3, <3>2
    <3>3. QED BY <3>1, <3>2
  <2>5. n + 1 = q + (m + 1)
    BY <1>1, <1>2
  <2>6. QED BY <2>2, <2>3, <2>4, <2>5 DEF InLine, a2, b2, q
<1>5. QED BY <1>3, <1>4

\* What the text gathers while it goes through a line is what the line gathers.
LEMMA LineFollows ==
    ASSUME TextSet, SameClusters, NEW f, TextTrace(f),
           NEW from \in Nat \ {0}, NEW to \in Nat, from <= to + 1, to <= Len(content),
           from = 1 \/ content[from - 1] = "nl",
           NEW g, ClustersTrace(g, content, from, to)
    PROVE  \A j \in 0..(to - from + 1) : InLine(f[from - 1], f[from + j - 1], g[j])
<1> DEFINE L == Len(content)
           N == to - from + 1
           pre == f[from - 1]
           S == {j \in 0..N : InLine(pre, f[from + j - 1], g[j])}
<1>1. L \in Nat /\ N \in Nat /\ from - 1 \in 0..L
  BY LenProperties DEF TextSet
<1>2. pre \in Gathered
  BY <1>1 DEF TextTrace
<1>3. /\ g \in [0..N -> Gathered] /\ g[0] = NothingGathered
      /\ \A j \in 1..N : g[j] = NextCluster(content, g[j - 1], from + j - 1)
  <2>1. \A j \in 1..N : Places(from, to)[j] = from + j - 1
    BY DEF Places
  <2> HIDE DEF N
  <2>2. /\ g \in [0..N -> Gathered] /\ g[0] = NothingGathered
        /\ \A j \in 1..N : g[j] = NextCluster(content, g[j - 1], Places(from, to)[j])
    BY DEF ClustersTrace, N
  <2>3. QED BY <2>1, <2>2
<1>4. \A j \in 0..N : Tiled(g[j], from, from + j - 1)
  BY TraceTiles
<1>5. InLine(pre, f[from + 0 - 1], g[0])
  BY <1>2, <1>3, LensAreNat DEF NothingGathered, InLine
<1>6. 0 \in S
  BY <1>1, <1>5
<1>7. ASSUME NEW j \in 1..N, j - 1 \in S PROVE j \in S
  <2> DEFINE i == from + j - 1
             acc == f[i - 1]
             one == g[j - 1]
  <2>1. /\ i \in 1..L /\ i \in Nat /\ i - 1 \in 0..L /\ from + (j - 1) - 1 = i - 1
        /\ from <= i /\ j - 1 \in 0..N /\ j \in 0..N
    BY <1>1
  <2>2. InLine(pre, acc, one) /\ acc \in Gathered /\ one \in Gathered
    <3>1. InLine(pre, f[from + (j - 1) - 1], g[j - 1])
      BY <1>7
    <3> HIDE DEF i
    <3>2. QED BY <1>3, <2>1, <3>1 DEF TextTrace
  <2>3. f[i] = NextCluster(content, acc, i) /\ g[j] = NextCluster(content, one, i)
    BY <1>3, <2>1 DEF TextTrace
  <2>4. Folds(content, acc, i) <=> Folds(content, one, i)
    <3>1. one.cells = <<>> <=> j = 1
      <4>1. Tiled(one, from, from + (j - 1) - 1)
        BY <1>4, <2>1
      <4>2. from + (j - 1) - 1 < from <=> j = 1
        OBVIOUS
      <4> HIDE DEF one
      <4>3. QED BY <4>1, <4>2 DEF Tiled
    <3>2. CASE j = 1
      <4>1. ~Folds(content, one, i)
        BY <3>1, <3>2 DEF Folds
      <4>2. i = from
        BY <3>2
      <4>3. ~Folds(content, acc, i)
        <5>1. CASE from = 1
          BY <4>2, <5>1 DEF NothingGathered, TextTrace, Folds
        <5>2. CASE from # 1
          <6>1. i > 1 /\ content[i - 1] = "nl"
            BY <4>2, <5>2
          <6> HIDE DEF i
          <6>2. QED BY <2>1, <6>1, NewlineAlone
        <5>3. QED BY <5>1, <5>2
      <4>4. QED BY <4>1, <4>3
    <3>3. CASE j # 1
      <4> HIDE DEF acc, one, pre
      <4>1. one.cells # <<>> /\ (acc.joins <=> one.joins)
        BY <2>2, <3>1, <3>3 DEF InLine
      <4>2. acc.cells # <<>>
        <5>1. Len(acc.cells) = Len(pre.cells) + Len(one.cells)
          BY <2>2 DEF InLine
        <5>2. Len(pre.cells) \in Nat /\ Len(one.cells) \in Nat /\ one.cells \in Seq(Broad)
              /\ acc.cells \in Seq(Broad)
          BY <1>2, <2>2, LensAreNat
        <5>3. Len(one.cells) # 0
          BY <4>1, <5>2, EmptySeq
        <5>4. Len(acc.cells) # 0
          <6> DEFINE x == Len(acc.cells)
                     y == Len(pre.cells)
                     z == Len(one.cells)
          <6>1. x = y + z /\ y \in Nat /\ z \in Nat /\ z # 0
            BY <5>1, <5>2, <5>3
          <6> HIDE DEF x, y, z
          <6>2. x # 0
            BY <6>1
          <6>3. QED BY <6>2 DEF x
        <5>5. QED BY <5>2, <5>4, EmptySeq
      <4>3. QED BY <4>1, <4>2 DEF Folds
    <3>4. QED BY <3>2, <3>3
  <2>5. InLine(pre, f[i], g[j])
    <3> HIDE DEF pre, acc, one, i
    <3>1. QED BY <1>2, <2>1, <2>2, <2>3, <2>4, InLineNext
  <2>6. QED BY <2>1, <2>5
<1> HIDE DEF S, N
<1>8. \A j \in 0..N : j \in S
  BY <1>1, <1>6, <1>7, Induction, ZenonT(30)
<1>9. QED BY <1>8 DEF S, N

\* The lines of the text, and the clusters of each.
LineAt(n) == ContentLines(content)[n]
OwnCells(n) == Clusters(content, LineAt(n).from, LineAt(n).to)

LEMMA LinesAt ==
    ASSUME TextSet, NEW n \in 1..Len(ContentLines(content))
    PROVE  /\ Len(ContentLines(content)) \in Nat \ {0}
           /\ LineAt(n) \in [from : Nat, to : Nat]
           /\ LineAt(n).from \in Nat \ {0} /\ LineAt(n).to \in Nat
           /\ LineAt(n).from <= LineAt(n).to + 1 /\ LineAt(n).to <= Len(content)
           /\ LineAt(n).from = 1 \/ content[LineAt(n).from - 1] = "nl"
           /\ n = 1 => LineAt(n).from = 1
           /\ n = Len(ContentLines(content)) => LineAt(n).to = Len(content)
           /\ n < Len(ContentLines(content)) =>
                /\ LineAt(n).to < Len(content) /\ content[LineAt(n).to + 1] = "nl"
                /\ LineAt(n + 1).from - 1 = LineAt(n).to + 1
           /\ \A i \in LineAt(n).from..LineAt(n).to : content[i] # "nl"
<1> DEFINE lines == ContentLines(content)
           N == Len(lines)
           L == Len(content)
           from == [k \in 1..N |-> lines[k].from]
           to == [k \in 1..N |-> lines[k].to]
<1>1. Cuts(lines, content)
  BY LinesOfText DEF TextSet
<1>2. L \in Nat
  BY LenProperties DEF TextSet
<1> HIDE DEF lines
<1>3. N \in Nat \ {0} /\ lines \in [1..N -> [from : Nat, to : Nat]]
  BY <1>1 DEF Cuts
<1>4. from \in [1..N -> Nat] /\ to \in [1..N -> Nat]
  BY <1>3
<1>5. /\ from[1] = 1 /\ to[N] = L
      /\ \A k \in 1..N : 1 <= from[k] /\ from[k] <= to[k] + 1
      /\ \A k \in 1..(N - 1) : from[k + 1] = to[k] + 2 /\ content[to[k] + 1] = "nl"
      /\ \A k \in 1..N : \A i \in from[k]..to[k] : content[i] # "nl"
  BY <1>1, <1>3 DEF Cuts
<1>6. LineAt(n) = lines[n] /\ LineAt(n).from = from[n] /\ LineAt(n).to = to[n]
  BY DEF LineAt, lines
<1>7. n < N => LineAt(n + 1).from = from[n + 1]
  BY <1>3 DEF LineAt, lines
<1> n \in 1..N
  BY DEF lines
<1> HIDE DEF from, to, N, L
<1>8. \A k \in 1..N : to[k] <= L
  <2> DEFINE S == {j \in 0..(N - 1) : to[N - j] <= L}
  <2>1. 0 \in S
    BY <1>2, <1>3, <1>4, <1>5
  <2>2. ASSUME NEW j \in 1..(N - 1), j - 1 \in S PROVE j \in S
    <3> DEFINE k == N - j
    <3>1. k \in 1..(N - 1) /\ k + 1 \in 1..N /\ k + 1 = N - (j - 1) /\ k \in 1..N
      BY <1>3
    <3>2. to[N - (j - 1)] <= L
      BY <2>2
    <3> HIDE DEF k
    <3>3. to[k + 1] <= L /\ from[k + 1] = to[k] + 2 /\ from[k + 1] <= to[k + 1] + 1
      BY <1>5, <3>1, <3>2
    <3>4. to[k] \in Nat /\ to[k + 1] \in Nat
      BY <1>4, <3>1
    <3>5. to[k] <= L
      BY <1>2, <3>3, <3>4
    <3>6. QED BY <3>5 DEF k
  <2>3. N - 1 \in Nat
    BY <1>3
  <2> HIDE DEF S
  <2>4. \A j \in 0..(N - 1) : j \in S
    BY <2>1, <2>2, <2>3, Induction
  <2>5. \A k \in 1..N : N - k \in 0..(N - 1) /\ N - (N - k) = k
    BY <1>3
  <2>6. QED BY <2>4, <2>5 DEF S
<1>9. n < N => /\ to[n] < L /\ content[to[n] + 1] = "nl" /\ from[n + 1] - 1 = to[n] + 1
  <2>1. SUFFICES ASSUME n < N
                 PROVE  to[n] < L /\ content[to[n] + 1] = "nl" /\ from[n + 1] - 1 = to[n] + 1
    OBVIOUS
  <2>2. n \in 1..(N - 1) /\ n + 1 \in 1..N
    BY <1>3, <2>1
  <2>3. /\ from[n + 1] = to[n] + 2 /\ content[to[n] + 1] = "nl" /\ from[n + 1] <= to[n + 1] + 1
        /\ to[n + 1] <= L /\ to[n] \in Nat /\ to[n + 1] \in Nat
    BY <1>4, <1>5, <1>8, <2>2
  <2>4. QED BY <1>2, <2>3
<1>10. from[n] = 1 \/ content[from[n] - 1] = "nl"
  <2>1. CASE n = 1
    BY <1>5, <2>1
  <2>2. CASE n # 1
    <3> DEFINE k == n - 1
    <3>1. k \in 1..(N - 1) /\ n = k + 1 /\ k \in 1..N
      BY <1>3, <2>2
    <3> HIDE DEF k
    <3>2. from[n] = to[k] + 2 /\ content[to[k] + 1] = "nl" /\ to[k] \in Nat
      BY <1>4, <1>5, <3>1
    <3>3. from[n] - 1 = to[k] + 1
      BY <3>2
    <3>4. QED BY <3>2, <3>3
  <2>3. QED BY <2>1, <2>2
<1>11. /\ from[n] \in Nat \ {0} /\ to[n] \in Nat /\ from[n] <= to[n] + 1 /\ to[n] <= L
       /\ n = 1 => from[n] = 1
       /\ n = N => to[n] = L
       /\ \A i \in from[n]..to[n] : content[i] # "nl"
  BY <1>4, <1>5, <1>8
<1>12. LineAt(n) \in [from : Nat, to : Nat]
  BY <1>3, <1>6
<1>13. QED
  BY <1>3, <1>6, <1>7, <1>9, <1>10, <1>11, <1>12, ZenonT(30) DEF N, L, lines

\* Where the clusters of a line are among those of the text.
AreAt(q, n) ==
    \A k \in 1..Len(OwnCells(n)) :
      /\ q + k \in 1..Len(TextCells)
      /\ TextCells[q + k] = OwnCells(n)[k]
      /\ OwnCells(n)[k].at \in LineAt(n).from..LineAt(n).to

\* The clusters of a line are the next of the text, and if it is not the last
\* line, its newline is the one after them.
LineFound(f, n) ==
    LET q == Len(f[LineAt(n).from - 1].cells)
        m == Len(OwnCells(n))
        next == LineAt(n).to + 1
    IN /\ q \in Nat /\ m \in Nat /\ AreAt(q, n)
       /\ next <= Len(content) => /\ Len(f[next].cells) = q + m + 1
                                  /\ q + m + 1 \in 1..Len(TextCells)
                                  /\ TextCells[q + m + 1].at = next

LEMMA LineIsFound ==
    ASSUME TextSet, SameClusters, NEW f, TextTrace(f), NEW n \in 1..Len(ContentLines(content))
    PROVE  LineFound(f, n)
<1> DEFINE from == LineAt(n).from
           to == LineAt(n).to
           q == Len(f[from - 1].cells)
<1>1. /\ from \in Nat \ {0} /\ to \in Nat /\ from <= to + 1 /\ to <= Len(content)
      /\ from = 1 \/ content[from - 1] = "nl"
      /\ to < Len(content) => content[to + 1] = "nl"
  <2>1. Len(ContentLines(content)) \in Nat /\ Len(content) \in Nat
    BY LinesAt, LenProperties DEF TextSet
  <2>2. n = Len(ContentLines(content)) \/ n < Len(ContentLines(content))
    BY <2>1
  <2>3. /\ from \in Nat \ {0} /\ to \in Nat /\ from <= to + 1 /\ to <= Len(content)
        /\ from = 1 \/ content[from - 1] = "nl"
        /\ n = Len(ContentLines(content)) => to = Len(content)
        /\ n < Len(ContentLines(content)) => content[to + 1] = "nl"
    BY LinesAt
  <2> HIDE DEF from, to
  <2>4. to = Len(content) => ~(to < Len(content))
    BY <2>1
  <2>5. QED BY <2>2, <2>3, <2>4
<1> OwnCells(n) = Clusters(content, from, to)
  BY DEF OwnCells
<1>2. LineFound(f, n) <=>
         /\ q \in Nat /\ Len(OwnCells(n)) \in Nat /\ AreAt(q, n)
         /\ to + 1 <= Len(content) => /\ Len(f[to + 1].cells) = q + Len(OwnCells(n)) + 1
                                      /\ q + Len(OwnCells(n)) + 1 \in 1..Len(TextCells)
                                      /\ TextCells[q + Len(OwnCells(n)) + 1].at = to + 1
  BY DEF LineFound
<1>3. from = LineAt(n).from /\ to = LineAt(n).to
  OBVIOUS
<1> HIDE DEF from, to
<1> DEFINE L == Len(content)
           N == to - from + 1
           own == OwnCells(n)
           m == Len(own)
           here == f[to].cells
<1>4. /\ L \in Nat /\ N \in Nat /\ from - 1 \in 0..L /\ to \in 0..L /\ L \in 0..L
      /\ N \in 0..N /\ from + N - 1 = to
  <2>1. L \in Nat /\ to <= L
    BY <1>1, LenProperties DEF TextSet
  <2>2. \A a \in Nat \ {0}, b \in Nat, l \in Nat :
          a <= b + 1 /\ b <= l =>
            /\ a - 1 \in 0..l /\ b \in 0..l /\ l \in 0..l
            /\ b - a + 1 \in Nat /\ b - a + 1 \in 0..(b - a + 1) /\ a + (b - a + 1) - 1 = b
    OBVIOUS
  <2> HIDE DEF L
  <2>3. QED BY <1>1, <2>1, <2>2
<1>5. /\ f[from - 1] \in Gathered /\ f[to] \in Gathered /\ f[L] \in Gathered
      /\ f[L].cells = TextCells
  BY <1>4 DEF TextTrace
<1>6. PICK g : ClustersTrace(g, content, from, to)
  BY <1>1, ClustersFolds
<1>7. g[N] \in Gathered /\ g[N].cells = own
  BY <1>4, <1>6 DEF OwnCells, Clusters, ClustersFold, Places, NothingGathered, ClustersTrace
<1>8. InLine(f[from - 1], f[to], g[N])
  <2>1. \A j \in 0..(to - from + 1) : InLine(f[from - 1], f[from + j - 1], g[j])
    BY <1>1, <1>6, LineFollows
  <2> HIDE DEF N
  <2>2. \A j \in 0..N : InLine(f[from - 1], f[from + j - 1], g[j])
    BY <2>1 DEF N
  <2>3. QED BY <1>4, <2>2
<1>9. q \in Nat /\ m \in Nat /\ own \in Seq(Broad)
  BY <1>5, <1>7, LensAreNat
<1>10. Len(here) = q + m /\ \A k \in 1..m : here[q + k] = own[k]
  BY <1>7, <1>8 DEF InLine
<1>11. \A k \in 1..m : own[k].at \in from..to
  <2>1. Tiled(g[N], from, from + N - 1)
    BY <1>1, <1>4, <1>6, TraceTiles
  <2> HIDE DEF N, own, m
  <2>2. QED BY <1>4, <1>7, <2>1 DEF Tiled, m
<1>12. CASE to = L
  <2>1. here = TextCells
    BY <1>5, <1>12
  <2>2. \A k \in 1..m : q + k \in 1..Len(TextCells)
    <3> DEFINE all == Len(TextCells)
    <3>1. all = q + m
      BY <1>10, <2>1
    <3> HIDE DEF all, m
    <3>2. \A k \in 1..m : q + k \in 1..all
      BY <1>9, <3>1
    <3>3. QED BY <3>2 DEF all
  <2> HIDE DEF here, own, m
  <2>3. AreAt(q, n)
    BY <1>10, <1>11, <1>3, <2>1, <2>2 DEF AreAt, own, m
  <2>4. ~(to + 1 <= L)
    BY <1>4, <1>12
  <2>5. QED BY <1>9, <1>2, <2>3, <2>4 DEF own, m
<1>13. CASE to < L
  <2> DEFINE i == to + 1
             next == f[i].cells
  <2>1. i \in 1..L /\ i \in 0..L /\ i - 1 = to /\ i \in Nat
    <3>1. to < L /\ L \in Nat
      BY <1>4, <1>13
    <3>2. to \in Nat
      BY <1>1
    <3>3. \A b \in Nat, l \in Nat :
            b < l => b + 1 \in 1..l /\ b + 1 \in 0..l /\ b + 1 - 1 = b /\ b + 1 \in Nat
      OBVIOUS
    <3> HIDE DEF L
    <3>4. QED BY <3>1, <3>2, <3>3
  <2>2. f[i] = NextCluster(content, f[to], i) /\ f[i] \in Gathered
    BY <2>1 DEF TextTrace
  <2>3. ~Folds(content, f[to], i)
    <3>1. ~Folds(content, f[i - 1], i)
      <4> HIDE DEF i
      <4>1. content[i] = "nl"
        BY <1>1, <1>13 DEF i
      <4>2. QED BY <2>1, <4>1, NewlineAlone
    <3>2. QED BY <2>1, <3>1
  <2>4. Added(here, next, Fresh(content, i), i)
    <3> HIDE DEF i
    <3>1. QED BY <1>5, <2>1, <2>2, <2>3, NextClusterIs
  <2> HIDE DEF here, own, m
  <2>5. /\ Len(next) = q + m + 1 /\ \A k \in 1..(q + m) : next[k] = here[k]
        /\ next[q + m + 1].at = i
    <3> HIDE DEF i, next
    <3>1. QED BY <1>10, <2>4 DEF Added
  <2>6. Grows(f[i], f[L])
    <3>1. i <= L /\ L \in 0..L
      BY <1>4, <2>1
    <3> HIDE DEF i
    <3>2. QED BY <1>4, <2>1, <3>1, TraceGrows DEF TextTrace, L
  <2>7. /\ q + m + 1 \in 1..Len(TextCells) /\ Len(TextCells) \in Nat
        /\ TextCells[q + m + 1].at = i
        /\ \A k \in 1..(q + m) : k \in 1..Len(TextCells) /\ TextCells[k] = next[k]
    <3>1. Len(TextCells) \in Nat
      BY <1>5, LensAreNat
    <3> HIDE DEF i, next, L
    <3>2. /\ Len(next) <= Len(TextCells)
          /\ \A k \in 1..Len(next) : TextCells[k].at = next[k].at
          /\ \A k \in 1..(Len(next) - 1) : TextCells[k] = next[k]
      BY <1>5, <2>6 DEF Grows, next
    <3>3. q + m + 1 \in 1..Len(TextCells) /\ q + m + 1 \in 1..Len(next) /\ Len(next) - 1 = q + m
      <4> DEFINE all == Len(TextCells)
                 some == Len(next)
      <4>1. all \in Nat /\ some <= all /\ some = q + m + 1
        BY <2>5, <3>1, <3>2
      <4> HIDE DEF all, some
      <4>2. q + m + 1 \in 1..all /\ q + m + 1 \in 1..some /\ some - 1 = q + m
        BY <1>9, <4>1
      <4>3. QED BY <4>2 DEF all, some
    <3>4. \A k \in 1..(q + m) : k \in 1..Len(TextCells)
      BY <1>9, <3>1, <3>3
    <3>5. QED BY <2>5, <3>1, <3>2, <3>3, <3>4
  <2>8. AreAt(q, n)
    <3>1. ASSUME NEW k \in 1..m PROVE q + k \in 1..(q + m)
      BY <1>9
    <3> HIDE DEF next, i
    <3>2. \A k \in 1..m : q + k \in 1..Len(TextCells) /\ TextCells[q + k] = own[k]
      BY <1>10, <2>5, <2>7, <3>1
    <3>3. QED BY <1>11, <1>3, <3>2 DEF AreAt, own, m
  <2>9. QED BY <1>9, <1>2, <2>5, <2>7, <2>8 DEF own, m
<1>14. QED
  <2>1. to = L \/ to < L
    <3>1. to \in Nat /\ L \in Nat /\ to <= L
      BY <1>1, <1>4
    <3> HIDE DEF L
    <3>2. QED BY <3>1
  <2>2. QED BY <1>12, <1>13, <2>1

\* How many clusters of the text come before those of each line.
Offsets(q) ==
    /\ q \in [1..Len(ContentLines(content)) -> Nat] /\ q[1] = 0
    /\ \A n \in 1..Len(ContentLines(content)) : Len(OwnCells(n)) \in Nat /\ AreAt(q[n], n)
    /\ \A n \in 1..(Len(ContentLines(content)) - 1) :
         /\ q[n + 1] = q[n] + Len(OwnCells(n)) + 1
         /\ q[n + 1] \in 1..Len(TextCells)
         /\ content[TextCells[q[n + 1]].at] = "nl"

LEMMA TextIsLines == ASSUME TextSet, SameClusters PROVE \E q : Offsets(q)
<1> DEFINE N == Len(ContentLines(content))
           L == Len(content)
<1>1. PICK f : TextTrace(f)
  BY TextIsTraced
<1> DEFINE q == [n \in 1..N |-> Len(f[LineAt(n).from - 1].cells)]
<1>2. N \in Nat \ {0}
  BY LinesOfText DEF TextSet, Cuts
<1> HIDE DEF N
<1>3. ASSUME NEW n \in 1..N
      PROVE  /\ q[n] \in Nat /\ Len(OwnCells(n)) \in Nat /\ AreAt(q[n], n)
             /\ n < N => /\ Len(f[LineAt(n).to + 1].cells) = q[n] + Len(OwnCells(n)) + 1
                         /\ q[n] + Len(OwnCells(n)) + 1 \in 1..Len(TextCells)
                         /\ content[TextCells[q[n] + Len(OwnCells(n)) + 1].at] = "nl"
                         /\ LineAt(n + 1).from - 1 = LineAt(n).to + 1
  <2> DEFINE to == LineAt(n).to
             p == Len(f[LineAt(n).from - 1].cells)
             m == Len(OwnCells(n))
  <2>1. /\ to \in Nat
        /\ n < N => /\ to < L /\ content[to + 1] = "nl" /\ LineAt(n + 1).from - 1 = to + 1
    BY LinesAt DEF N
  <2>2. q[n] = p
    OBVIOUS
  <2>3. LineFound(f, n)
    BY <1>1, LineIsFound DEF N
  <2>4. /\ p \in Nat /\ m \in Nat /\ AreAt(p, n)
        /\ to + 1 <= L => /\ Len(f[to + 1].cells) = p + m + 1
                          /\ p + m + 1 \in 1..Len(TextCells)
                          /\ TextCells[p + m + 1].at = to + 1
    BY <2>3 DEF LineFound
  <2>5. L \in Nat
    BY LenProperties DEF TextSet
  <2> HIDE DEF q, p, m, to, L
  <2>6. n < N => to + 1 <= L
    BY <2>1, <2>5
  <2>7. /\ n < N => /\ Len(f[to + 1].cells) = p + m + 1
                    /\ p + m + 1 \in 1..Len(TextCells)
                    /\ content[TextCells[p + m + 1].at] = "nl"
                    /\ LineAt(n + 1).from - 1 = to + 1
    BY <2>1, <2>4, <2>6
  <2>8. QED BY <2>2, <2>4, <2>7 DEF m, to
<1>4. q \in [1..N -> Nat]
  BY <1>3
<1>5. q[1] = 0
  BY <1>1, <1>2, LinesAt DEF N, TextTrace, NothingGathered
<1>6. ASSUME NEW n \in 1..(N - 1)
      PROVE  /\ q[n + 1] = q[n] + Len(OwnCells(n)) + 1
             /\ q[n + 1] \in 1..Len(TextCells)
             /\ content[TextCells[q[n + 1]].at] = "nl"
  <2>1. n \in 1..N /\ n + 1 \in 1..N /\ n < N
    BY <1>2
  <2>2. q[n + 1] = Len(f[LineAt(n + 1).from - 1].cells)
    BY <2>1
  <2> HIDE DEF q
  <2>3. QED BY <1>3, <2>1, <2>2
<1> HIDE DEF q
<1>7. Offsets(q)
  BY <1>3, <1>4, <1>5, <1>6 DEF Offsets, N
<1>8. QED BY <1>7

\* The cells GetTextRangeByCols counts columns in.
ExtractCells == WithWidth(content, TextCells, "nl", 1)

Widened(c, cells, scalar, width, got) ==
    /\ Len(cells) \in Nat /\ Len(got) = Len(cells)
    /\ got \in Seq(Cell) /\ (width > 0 => got \in Seq(Broad))
    /\ \A k \in 1..Len(cells) :
         /\ cells[k] \in Broad
         /\ got[k].at = cells[k].at
         /\ got[k].width = IF c[cells[k].at] = scalar THEN width ELSE cells[k].width

LEMMA WithWidthIs ==
    ASSUME NEW c, NEW cells \in Seq(Broad), NEW scalar, NEW width \in Nat
    PROVE  Widened(c, cells, scalar, width, WithWidth(c, cells, scalar, width))
<1> DEFINE e(k) == IF c[cells[k].at] = scalar THEN [cells[k] EXCEPT !.width = width] ELSE cells[k]
           n == Len(cells)
           got == [k \in 1..n |-> e(k)]
<1>1. n \in Nat /\ DOMAIN cells = 1..n
  BY LenProperties
<1>2. WithWidth(c, cells, scalar, width) = got
  BY <1>1 DEF WithWidth
<1>3. ASSUME NEW k \in 1..n
      PROVE  /\ cells[k] \in Broad /\ e(k) \in Cell /\ (width > 0 => e(k) \in Broad)
             /\ e(k).at = cells[k].at
             /\ e(k).width = IF c[cells[k].at] = scalar THEN width ELSE cells[k].width
  <2>1. cells[k] \in Broad
    BY ElementOfSeq
  <2>2. cells[k] \in Cell
    BY <2>1 DEF Broad
  <2> DEFINE x == [cells[k] EXCEPT !.width = width]
  <2>3. x \in Cell /\ x.width = width /\ x.at = cells[k].at
    BY <2>2 DEF Cell
  <2>4. width > 0 => x \in Broad
    BY <2>3 DEF Broad
  <2> HIDE DEF x
  <2>5. e(k) = IF c[cells[k].at] = scalar THEN x ELSE cells[k]
    BY DEF x
  <2> HIDE DEF e
  <2>6. QED BY <2>1, <2>2, <2>3, <2>4, <2>5
<1> HIDE DEF e, n
<1>4. got \in [1..n -> Cell] /\ (width > 0 => got \in [1..n -> Broad])
  BY <1>3
<1>5. got \in Seq(Cell) /\ Len(got) = n /\ (width > 0 => got \in Seq(Broad))
  BY <1>1, <1>4, FunctionIsSeq
<1>6. \A k \in 1..n : got[k] = e(k)
  OBVIOUS
<1> HIDE DEF got
<1>7. QED BY <1>1, <1>2, <1>3, <1>5, <1>6 DEF n, Widened

\* A line has the cells a view lays out where the text has the cells that
\* GetTextRangeByCols counts, of the same width.
LEMMA CellsAlike ==
    ASSUME TextSet, TabSet, SameClusters, NEW q, Offsets(q),
           NEW n \in 1..Len(ContentLines(content))
    PROVE  /\ q[n] \in Nat /\ Len(CellsOf(n)) \in Nat
           /\ Len(CellsOf(n)) = Len(OwnCells(n))
           /\ \A k \in 1..Len(CellsOf(n)) :
                /\ q[n] + k \in 1..Len(ExtractCells)
                /\ ExtractCells[q[n] + k].at = CellsOf(n)[k].at
                /\ ExtractCells[q[n] + k].width = CellsOf(n)[k].width
<1> DEFINE own == OwnCells(n)
           m == Len(own)
           line == CellsOf(n)
<1>1. TextCells \in Seq(Broad)
  BY LenProperties, ClustersType DEF TextSet, TextCells
<1>2. own \in Seq(Broad)
  BY LinesAt, ClustersType DEF OwnCells
<1>3. line = WithWidth(content, own, "tab", tabWidth)
  BY DEF CellsOf, LineCells, OwnCells, LineAt
<1>4. q[n] \in Nat /\ AreAt(q[n], n)
  BY DEF Offsets
<1>5. \A i \in LineAt(n).from..LineAt(n).to : content[i] # "nl"
  BY LinesAt
<1> HIDE DEF own, line
<1>6. /\ m \in Nat /\ Len(line) = m
      /\ \A k \in 1..m :
           /\ own[k] \in Broad
           /\ line[k].at = own[k].at
           /\ line[k].width = IF content[own[k].at] = "tab" THEN tabWidth ELSE own[k].width
  <2>1. tabWidth \in Nat
    BY DEF TabSet
  <2>2. Widened(content, own, "tab", tabWidth, line)
    BY <1>2, <1>3, <2>1, WithWidthIs
  <2>3. QED BY <2>2 DEF Widened
<1>7. /\ Len(ExtractCells) = Len(TextCells)
      /\ \A j \in 1..Len(TextCells) :
           /\ ExtractCells[j].at = TextCells[j].at
           /\ ExtractCells[j].width
                = IF content[TextCells[j].at] = "nl" THEN 1 ELSE TextCells[j].width
  BY <1>1, WithWidthIs DEF ExtractCells, Widened
<1>8. ASSUME NEW k \in 1..m
      PROVE  /\ q[n] + k \in 1..Len(ExtractCells)
             /\ ExtractCells[q[n] + k].at = line[k].at
             /\ ExtractCells[q[n] + k].width = line[k].width
  <2> DEFINE j == q[n] + k
             x == own[k]
  <2>1. j \in 1..Len(TextCells) /\ TextCells[j] = x /\ x.at \in LineAt(n).from..LineAt(n).to
    BY <1>4 DEF AreAt, own
  <2>2. content[x.at] # "nl"
    BY <1>5, <2>1
  <2>3. content[x.at] = "tab" => x.width = tabWidth
    BY <1>1, <2>1, LenProperties DEF Range, SameClusters, TextCells
  <2> HIDE DEF j, x
  <2>4. ExtractCells[j].at = x.at /\ ExtractCells[j].width = x.width
    BY <1>7, <2>1, <2>2
  <2>5. line[k].at = x.at /\ line[k].width = x.width
    BY <1>6, <2>3 DEF x
  <2>6. QED BY <1>7, <2>1, <2>4, <2>5 DEF j
<1>9. QED BY <1>4, <1>6, <1>8 DEF own, line

LEMMA ExtractType == ASSUME TextSet PROVE ExtractCells \in Seq(Broad)
<1>1. Len(content) \in Nat
  BY LenProperties DEF TextSet
<1>2. 1 \in Nat /\ 1 <= Len(content) + 1
  BY <1>1
<1>3. TextCells \in Seq(Broad)
  BY <1>1, <1>2, ClustersType DEF TextCells
<1>4. Widened(content, TextCells, "nl", 1, ExtractCells)
  BY <1>2, <1>3, WithWidthIs DEF ExtractCells
<1>5. QED BY <1>4 DEF Widened

\* Where both have the same clusters, no cell of a view is without columns.
LEMMA SameAreBroad == ASSUME TextSet, TabSet, SameClusters PROVE AllBroad
<1>1. SUFFICES ASSUME NEW n \in 1..Len(ContentLines(content)) PROVE CellsOf(n) \in Seq(Broad)
  BY DEF AllBroad
<1>2. PICK q : Offsets(q)
  BY TextIsLines
<1> DEFINE line == CellsOf(n)
<1>3. line \in Seq(Cell)
  BY CellsOfType
<1>4. \A k \in 1..Len(line) : q[n] + k \in 1..Len(ExtractCells)
                              /\ ExtractCells[q[n] + k].width = line[k].width
  BY <1>2, CellsAlike
<1> HIDE DEF line
<1>5. \A k \in 1..Len(line) : line[k] \in Broad
  <2>1. SUFFICES ASSUME NEW k \in 1..Len(line) PROVE line[k] \in Broad
    OBVIOUS
  <2>2. line[k] \in Cell
    BY <1>3, ElementOfSeq
  <2>3. ExtractCells[q[n] + k] \in Broad
    BY <1>4, ExtractType, ElementOfSeq
  <2>4. line[k].width > 0
    BY <1>4, <2>3 DEF Broad
  <2>5. QED BY <2>2, <2>4 DEF Broad
<1>6. Len(line) \in Nat /\ line \in [1..Len(line) -> Broad]
  BY <1>3, <1>5, LenProperties
<1>7. QED BY <1>6, FunctionIsSeq DEF line

\* The columns of a line are those of the text from where the line starts.
LEMMA ColumnsOfLine ==
    ASSUME TextSet, TabSet, SameClusters, NEW q, Offsets(q),
           NEW n \in 1..Len(ContentLines(content)), Cols(ExtractCells, q[n]) = LineCol(n)
    PROVE  \A k \in 0..Len(CellsOf(n)) :
             /\ q[n] + k \in 0..Len(ExtractCells)
             /\ Cols(ExtractCells, q[n] + k) = LineCol(n) + Cols(CellsOf(n), k)
<1> DEFINE line == CellsOf(n)
           m == Len(line)
           p == q[n]
           base == LineCol(n)
           all == ExtractCells
           S == {k \in 0..m : p + k \in 0..Len(all) /\ Cols(all, p + k) = base + Cols(line, k)}
<1>1. /\ p \in Nat /\ m \in Nat
      /\ \A k \in 1..m : p + k \in 1..Len(all) /\ all[p + k].width = line[k].width
  BY CellsAlike
<1>2. line \in Seq(Cell) /\ all \in Seq(Cell) /\ Len(all) \in Nat
  BY CellsOfType, ExtractType, BroadAreCells, LenProperties
<1>3. base \in Nat
  BY LineCols
<1>4. p \in 0..Len(all)
  <2>1. CASE n = 1
    BY <1>2, <2>1 DEF Offsets
  <2>2. CASE n # 1
    <3> DEFINE i == n - 1
    <3>1. i \in 1..(Len(ContentLines(content)) - 1) /\ n = i + 1
      BY <2>2, LinesAt
    <3> HIDE DEF i
    <3>2. q[i + 1] \in 1..Len(TextCells)
      BY <3>1 DEF Offsets
    <3>3. Len(all) = Len(TextCells)
      <4>1. Len(content) \in Nat /\ 1 \in Nat
        BY LenProperties DEF TextSet
      <4>2. 1 <= Len(content) + 1
        BY <4>1
      <4>3. TextCells \in Seq(Broad)
        BY <4>1, <4>2, ClustersType DEF TextCells
      <4>4. QED
        <5>1. Widened(content, TextCells, "nl", 1, ExtractCells)
          BY <4>3, WithWidthIs DEF ExtractCells
        <5>2. QED BY <5>1 DEF Widened
    <3>4. QED BY <1>2, <3>1, <3>2, <3>3
  <2>3. QED BY <2>1, <2>2
<1>5. /\ Cols(line, 0) = 0
      /\ \A j \in 0..m : Cols(line, j) \in Nat
      /\ \A j \in 1..m : Cols(line, j) = Cols(line, j - 1) + line[j].width
  BY <1>2, ColsAre
<1>6. /\ \A j \in 0..Len(all) : Cols(all, j) \in Nat
      /\ \A j \in 1..Len(all) : Cols(all, j) = Cols(all, j - 1) + all[j].width
  BY <1>2, ColsAre
<1>7. \A k \in 1..m : line[k].width \in Nat
  <2>1. \A k \in 1..m : line[k] \in Cell
    BY <1>2, ElementOfSeq
  <2> HIDE DEF line, m
  <2>2. QED BY <2>1 DEF Cell
<1>8. Cols(all, p) = base
  OBVIOUS
<1> HIDE DEF line, m, p, base, all
<1>9. 0 \in S
  BY <1>1, <1>3, <1>4, <1>5, <1>8
<1>10. ASSUME NEW k \in 1..m, k - 1 \in S PROVE k \in S
  <2>1. /\ p + (k - 1) \in 0..Len(all) /\ Cols(all, p + (k - 1)) = base + Cols(line, k - 1)
        /\ p + k \in 1..Len(all) /\ all[p + k].width = line[k].width
        /\ (p + k) - 1 = p + (k - 1) /\ k \in 0..m /\ k - 1 \in 0..m /\ p + k \in 0..Len(all)
    BY <1>1, <1>2, <1>10
  <2> DEFINE u == Cols(all, p + k)
             v == Cols(all, p + (k - 1))
             x == Cols(line, k)
             y == Cols(line, k - 1)
             w == line[k].width
  <2>2. u = v + w
    BY <1>6, <2>1
  <2>3. x = y + w /\ v = base + y /\ y \in Nat /\ w \in Nat
    BY <1>5, <1>7, <2>1
  <2> HIDE DEF u, v, x, y, w
  <2>4. u = base + x
    BY <1>3, <2>2, <2>3
  <2>5. QED BY <2>1, <2>4 DEF u, x
<1>11. m \in Nat
  BY <1>1
<1> HIDE DEF S
<1>12. \A k \in 0..m : k \in S
  BY <1>9, <1>10, <1>11, Induction
<1>13. QED BY <1>12 DEF S, line, m, p, base, all

LEMMA LinesOfColumns ==
    ASSUME TextSet, TabSet, SameClusters, NEW q, Offsets(q)
    PROVE  \A n \in 1..Len(ContentLines(content)) : Cols(ExtractCells, q[n]) = LineCol(n)
<1> DEFINE N == Len(ContentLines(content))
           all == ExtractCells
           S == {j \in 0..(N - 1) : Cols(all, q[j + 1]) = LineCol(j + 1)}
<1>1. N \in Nat \ {0}
  BY LinesOfText DEF TextSet, Cuts
<1>2. all \in Seq(Cell)
  BY ExtractType, BroadAreCells
<1> HIDE DEF N
<1>3. 0 \in S
  <2>1. q[1] = 0 /\ Cols(all, 0) = 0 /\ LineCol(1) = 0
    BY <1>2, ColsAre, LineCols DEF Offsets
  <2>2. 0 \in 0..(N - 1) /\ 0 + 1 = 1
    BY <1>1
  <2> HIDE DEF all
  <2>3. QED BY <2>1, <2>2
<1>4. ASSUME NEW n \in 1..(N - 1), n - 1 \in S PROVE n \in S
  <2> DEFINE line == CellsOf(n)
             m == Len(line)
             p == q[n]
  <2>1. n \in 1..N /\ n + 1 \in 1..N /\ (n - 1) + 1 = n /\ n \in 0..(N - 1)
    BY <1>1
  <2>2. Cols(all, p) = LineCol(n)
    <3>1. Cols(all, q[(n - 1) + 1]) = LineCol((n - 1) + 1)
      BY <1>4
    <3> HIDE DEF all
    <3>2. QED BY <2>1, <3>1
  <2>3. p \in Nat /\ m \in Nat /\ m = Len(OwnCells(n))
    BY <2>1, CellsAlike DEF N
  <2>4. \A k \in 0..m : p + k \in 0..Len(all) /\ Cols(all, p + k) = LineCol(n) + Cols(line, k)
    BY <2>1, <2>2, ColumnsOfLine DEF N
  <2>5. /\ q[n + 1] = p + m + 1 /\ q[n + 1] \in 1..Len(TextCells)
        /\ content[TextCells[q[n + 1]].at] = "nl"
    BY <2>3 DEF Offsets, N
  <2>6. TextCells \in Seq(Broad)
    BY LenProperties, ClustersType DEF TextSet, TextCells
  <2>7. Len(all) = Len(TextCells) /\ all[q[n + 1]].width = 1
    BY <2>5, <2>6, WithWidthIs DEF ExtractCells, Widened
  <2>8. Cols(all, q[n + 1]) = Cols(all, q[n + 1] - 1) + all[q[n + 1]].width
    BY <1>2, <2>5, <2>7, ColsAre
  <2>9. Width(line) = Cols(line, m) /\ line \in Seq(Cell)
    BY <2>1, CellsOfType, ColsAre DEF N
  <2>10. LineCol(n + 1) = LineCol(n) + Width(line) + 1
    BY <2>1, LineCols DEF N
  <2> HIDE DEF line, m, p, all
  <2>11. q[n + 1] - 1 = p + m /\ m \in 0..m
    BY <2>3, <2>5
  <2>12. Cols(all, q[n + 1]) = LineCol(n + 1)
    BY <2>4, <2>7, <2>8, <2>9, <2>10, <2>11
  <2>13. QED BY <2>1, <2>12
<1>5. N - 1 \in Nat
  BY <1>1
<1> HIDE DEF S
<1>6. \A j \in 0..(N - 1) : j \in S
  BY <1>3, <1>4, <1>5, Induction
<1>7. ASSUME NEW n \in 1..N PROVE Cols(all, q[n]) = LineCol(n)
  <2>1. n - 1 \in 0..(N - 1) /\ (n - 1) + 1 = n
    BY <1>1
  <2>2. Cols(all, q[(n - 1) + 1]) = LineCol((n - 1) + 1)
    BY <1>6, <2>1 DEF S
  <2> HIDE DEF all
  <2>3. QED BY <2>1, <2>2
<1>8. QED BY <1>7 DEF N

\* The column of a cell of a line selects that cell, and no other of the text.
LEMMA KeyIsRight ==
    ASSUME TextSet, TabSet, SameClusters, NEW n \in 1..Len(ContentLines(content)),
           NEW k \in 1..Len(CellsOf(n)), NEW key, key = LineCol(n) + Cols(CellsOf(n), k - 1)
    PROVE  GetTextRangeByCols(content, key, key + 1) = {CellsOf(n)[k].at}
<1> DEFINE all == ExtractCells
           line == CellsOf(n)
           M == Len(all)
<1>1. PICK q : Offsets(q)
  BY TextIsLines
<1> DEFINE j == q[n] + k
<1>2. j \in 1..M /\ all[j].at = line[k].at /\ q[n] \in Nat /\ Len(line) \in Nat
  BY <1>1, CellsAlike
<1>3. Cols(all, q[n]) = LineCol(n)
  BY <1>1, LinesOfColumns
<1>4. Cols(all, q[n] + (k - 1)) = key
  BY <1>1, <1>2, <1>3, ColumnsOfLine
<1>5. all \in Seq(Broad) /\ all \in Seq(Cell) /\ M \in Nat /\ DOMAIN all = 1..M
  BY ExtractType, BroadAreCells, LenProperties
<1>6. /\ \A i \in 1..M : Starts(all)[i] = Cols(all, i - 1)
      /\ \A i \in 0..M : Cols(all, i) \in Nat
  BY <1>5, ColsAre
<1>7. j - 1 = q[n] + (k - 1) /\ j - 1 \in 0..M
  <2> DEFINE p == q[n]
  <2>1. p \in Nat /\ k \in Nat /\ p + k \in 1..M
    BY <1>2
  <2> HIDE DEF p, M
  <2>2. p + k - 1 = p + (k - 1) /\ p + k - 1 \in 0..M
    BY <1>5, <2>1
  <2>3. j = p + k
    BY DEF p
  <2> HIDE DEF j
  <2>4. j - 1 = p + (k - 1) /\ j - 1 \in 0..M
    BY <2>1, <2>2, <2>3
  <2>5. QED BY <2>4 DEF p
<1> HIDE DEF all, line, M, j
<1>8. Starts(all)[j] = key /\ key \in Nat
  BY <1>2, <1>4, <1>6, <1>7
<1>9. ASSUME NEW i \in 1..M, key <= Starts(all)[i], Starts(all)[i] < key + 1 PROVE i = j
  <2>1. i - 1 \in 0..M /\ Starts(all)[i] = Cols(all, i - 1) /\ Cols(all, i - 1) \in Nat
    BY <1>5, <1>6
  <2>2. Cols(all, i - 1) = Cols(all, j - 1)
    <3> DEFINE u == Starts(all)[i]
    <3>1. u \in Nat /\ key <= u /\ u < key + 1
      BY <1>9, <2>1
    <3> HIDE DEF u
    <3>2. u = key
      BY <1>8, <3>1
    <3>3. QED BY <1>2, <1>6, <1>8, <2>1, <3>2 DEF u
  <2>3. i - 1 < j - 1 => Cols(all, i - 1) < Cols(all, j - 1)
    BY <1>5, <1>7, <2>1, ColsRise DEF M
  <2>4. j - 1 < i - 1 => Cols(all, j - 1) < Cols(all, i - 1)
    BY <1>5, <1>7, <2>1, ColsRise DEF M
  <2>5. ~(i - 1 < j - 1) /\ ~(j - 1 < i - 1)
    BY <2>1, <2>2, <2>3, <2>4
  <2>6. j \in Nat /\ i \in Nat
    BY <1>2, <1>5
  <2>7. QED BY <2>5, <2>6
<1>10. StartingIn(all, key, key + 1) = {j}
  <2>1. StartingIn(all, key, key + 1)
          = {i \in 1..M : key <= Starts(all)[i] /\ Starts(all)[i] < key + 1}
    BY <1>5 DEF StartingIn
  <2>2. key <= key /\ key < key + 1
    BY <1>8
  <2>3. QED BY <1>2, <1>8, <1>9, <2>1, <2>2
<1>11. GetTextRangeByCols(content, key, key + 1) = {all[i].at : i \in StartingIn(all, key, key + 1)}
  BY DEF GetTextRangeByCols, all, ExtractCells, TextCells
<1>12. QED BY <1>2, <1>10, <1>11 DEF line

(***************************************************************************)
(* What is drawn: parts of lines, each cell with the key its cluster has.  *)
(***************************************************************************)
\* No cell starts before a column and ends after it.
Uncut(cells, s) == \A k \in 1..Len(cells) : ~(Cols(cells, k - 1) < s /\ s < Cols(cells, k))

LEMMA UncutAtCell ==
    ASSUME NEW cells \in Seq(Cell), NEW a \in 0..Len(cells) PROVE Uncut(cells, Cols(cells, a))
<1>1. Len(cells) \in Nat
  BY LenProperties
<1>2. \A j \in 0..Len(cells) : Cols(cells, j) \in Nat
  BY ColsAre
<1>3. SUFFICES ASSUME NEW k \in 1..Len(cells), Cols(cells, k - 1) < Cols(cells, a),
                      Cols(cells, a) < Cols(cells, k)
               PROVE  FALSE
  BY DEF Uncut
<1>4. k \in 0..Len(cells) /\ k - 1 \in 0..Len(cells)
  BY <1>1
<1>5. a <= k - 1 => Cols(cells, a) <= Cols(cells, k - 1)
  BY <1>4, ColsGrow
<1>6. k <= a => Cols(cells, k) <= Cols(cells, a)
  BY <1>4, ColsGrow
<1> DEFINE x == Cols(cells, a)
           y == Cols(cells, k - 1)
           z == Cols(cells, k)
<1>7. x \in Nat /\ y \in Nat /\ z \in Nat /\ y < x /\ x < z
  BY <1>2, <1>3, <1>4
<1>8. (a <= k - 1 => x <= y) /\ (k <= a => z <= x)
  BY <1>5, <1>6
<1>9. a <= k - 1 \/ k <= a
  BY <1>1
<1> HIDE DEF x, y, z
<1>10. QED BY <1>7, <1>8, <1>9

\* The cells that start before a column come first.
LEMMA StartBefore ==
    ASSUME NEW cells \in Seq(Cell), NEW s \in Nat
    PROVE  \E a \in 0..Len(cells) : \A k \in 1..Len(cells) : Cols(cells, k - 1) < s <=> k <= a
<1> DEFINE N == Len(cells)
           S == {k \in 1..N : Cols(cells, k - 1) < s}
<1>1. N \in Nat
  BY LenProperties
<1>2. \A j \in 0..N : Cols(cells, j) \in Nat
  BY ColsAre
<1>3. CASE S = {}
  <2>1. 0 \in 0..N /\ \A k \in 1..N : ~(k <= 0)
    BY <1>1
  <2>2. QED BY <1>3, <2>1
<1>4. CASE S # {}
  <2> DEFINE a == Max(S)
  <2>1. a \in S /\ \A y \in S : a >= y
    BY <1>1, <1>4, MaxIn
  <2>2. a \in 1..N /\ Cols(cells, a - 1) < s
    BY <2>1
  <2> HIDE DEF a
  <2>3. ASSUME NEW k \in 1..N PROVE Cols(cells, k - 1) < s <=> k <= a
    <3>1. ASSUME Cols(cells, k - 1) < s PROVE k <= a
      BY <2>1, <2>2, <3>1
    <3>2. ASSUME k <= a PROVE Cols(cells, k - 1) < s
      <4> DEFINE x == Cols(cells, k - 1)
                 y == Cols(cells, a - 1)
      <4>1. k - 1 \in 0..N /\ a - 1 \in 0..N /\ k - 1 <= a - 1
        BY <1>1, <2>2, <3>2
      <4>2. x <= y
        BY <4>1, ColsGrow
      <4>3. x \in Nat /\ y \in Nat /\ y < s
        BY <1>2, <2>2, <4>1
      <4> HIDE DEF x, y
      <4>4. x < s
        BY <4>2, <4>3
      <4>5. QED BY <4>4 DEF x
    <3>3. QED BY <3>1, <3>2
  <2>4. a \in 0..N
    BY <1>1, <2>2
  <2>5. QED BY <2>3, <2>4
<1>5. QED BY <1>3, <1>4

\* A row of a view shows consecutive cells of its line, those that start in its
\* columns, from the first one where no cell is cut by it.
Shows(cells, s, w, part, a, b) ==
    /\ a <= b /\ part = SubSeq(cells, a + 1, b)
    /\ a < b => /\ s <= Cols(cells, a)
                /\ Uncut(cells, s) => Cols(cells, a) = s
    /\ \A k \in 1..b : Cols(cells, k - 1) < s + w

LEMMA SliceShows ==
    ASSUME NEW cells \in Seq(Cell), NEW s \in Nat, NEW w \in Nat
    PROVE  \E a, b \in 0..Len(cells) : Shows(cells, s, w, SliceLineCols(cells, s, w), a, b)
<1> DEFINE N == Len(cells)
<1>1. N \in Nat /\ DOMAIN cells = 1..N
  BY LenProperties
<1>2. /\ \A j \in 0..N : Cols(cells, j) \in Nat
      /\ \A j \in 1..N : Starts(cells)[j] = Cols(cells, j - 1)
      /\ Cols(cells, 0) = 0
  BY ColsAre
<1>3. PICK a \in 0..N : \A k \in 1..N : Cols(cells, k - 1) < s <=> k <= a
  BY StartBefore
<1>4. PICK b \in 0..N : \A k \in 1..N : Cols(cells, k - 1) < s + w <=> k <= b
  <2>1. s + w \in Nat
    OBVIOUS
  <2>2. QED BY <2>1, StartBefore
<1>5. a <= b
  <2>1. CASE a = 0
    BY <2>1
  <2>2. CASE a # 0
    <3> DEFINE x == Cols(cells, a - 1)
    <3>1. a \in 1..N /\ a - 1 \in 0..N /\ a <= a
      BY <1>1, <2>2
    <3>2. x \in Nat /\ x < s
      BY <1>2, <1>3, <3>1
    <3> HIDE DEF x
    <3>3. x < s + w
      BY <3>2
    <3>4. QED BY <1>4, <3>1, <3>3 DEF x
  <2>3. QED BY <2>1, <2>2
<1>6. ASSUME NEW k \in 1..N
      PROVE  s <= Starts(cells)[k] /\ Starts(cells)[k] < s + w <=> k \in (a + 1)..b
  <2> DEFINE x == Starts(cells)[k]
  <2>1. k - 1 \in 0..N
    BY <1>1
  <2>2. x = Cols(cells, k - 1) /\ x \in Nat
    BY <1>2, <2>1
  <2>3. (x < s <=> k <= a) /\ (x < s + w <=> k <= b)
    BY <1>3, <1>4, <2>2
  <2> HIDE DEF x
  <2>4. s <= x <=> a + 1 <= k
    BY <2>2, <2>3
  <2>5. s <= x /\ x < s + w <=> k \in (a + 1)..b
    BY <2>3, <2>4
  <2>6. QED BY <2>5 DEF x
<1> DEFINE got == Pick(cells, (a + 1)..b)
           part == SubSeq(cells, a + 1, b)
<1>7. SliceLineCols(cells, s, w) = got
  <2>1. (a + 1)..b \in SUBSET (1..N)
    BY <1>1
  <2>2. StartingIn(cells, s, s + w)
          = {k \in 1..N : s <= Starts(cells)[k] /\ Starts(cells)[k] < s + w}
    BY <1>1 DEF StartingIn
  <2> HIDE DEF N
  <2>3. StartingIn(cells, s, s + w) = (a + 1)..b
    BY <1>6, <2>1, <2>2
  <2>4. QED BY <2>3 DEF SliceLineCols
<1>8. got = part
  <2>1. a \in Nat /\ b \in Nat /\ b <= N
    BY <1>1
  <2>2. /\ got \in Seq(Cell) /\ Len(got) = b - a
        /\ \A k \in 1..(b - a) : got[k] = cells[a + k]
    BY <1>5, <2>1, PickInterval, SMTT(30)
  <2>3. /\ part \in Seq(Cell) /\ Len(part) = b - a
        /\ \A k \in 1..(b - a) : part[k] = cells[a + k]
    <3>1. b \in a..Len(cells)
      BY <1>1, <1>5
    <3>2. QED BY <3>1, ColsOfPart
  <2> HIDE DEF got, part
  <2>4. QED BY <2>2, <2>3, SeqEqual
<1>9. ASSUME a < b PROVE s <= Cols(cells, a) /\ (Uncut(cells, s) => Cols(cells, a) = s)
  <2> DEFINE z == Cols(cells, a)
  <2>1. a + 1 \in 1..N /\ a \in 0..N /\ (a + 1) - 1 = a /\ ~(a + 1 <= a)
    BY <1>1, <1>9
  <2>2. z \in Nat /\ ~(z < s)
    BY <1>2, <1>3, <2>1
  <2>3. ASSUME Uncut(cells, s) PROVE ~(s < z)
    <3>1. CASE a = 0
      <4>1. z = 0
        BY <1>2, <3>1
      <4> HIDE DEF z
      <4>2. QED BY <4>1
    <3>2. CASE a # 0
      BY <1>1, <1>3, <2>3, <3>2 DEF Uncut
    <3>3. QED BY <3>1, <3>2
  <2> HIDE DEF z
  <2>4. s <= z
    BY <2>2
  <2>5. Uncut(cells, s) => z = s
    BY <2>2, <2>3
  <2>6. QED BY <2>4, <2>5 DEF z
<1>10. \A k \in 1..b : Cols(cells, k - 1) < s + w
  <2>1. \A k \in 1..b : k \in 1..N /\ k <= b
    BY <1>1
  <2>2. QED BY <1>4, <2>1
<1> HIDE DEF got, part
<1>11. Shows(cells, s, w, SliceLineCols(cells, s, w), a, b)
  BY <1>5, <1>7, <1>8, <1>9, <1>10 DEF Shows, part
<1>12. QED BY <1>11

\* The cells of a part start where they do in the whole, less where it starts.
IsPart(cells, a, b, part) ==
    /\ part \in Seq(Cell) /\ Len(part) = b - a /\ b - a \in Nat
    /\ \A i \in 1..(b - a) :
         /\ part[i] = cells[a + i]
         /\ Starts(part)[i] = Cols(cells, a + (i - 1)) - Cols(cells, a)

LEMMA PartStarts ==
    ASSUME NEW cells \in Seq(Cell), NEW a \in 0..Len(cells), NEW b \in a..Len(cells),
           NEW part, part = SubSeq(cells, a + 1, b)
    PROVE  IsPart(cells, a, b, part)
<1> DEFINE m == b - a
<1>1. Len(cells) \in Nat /\ a \in Nat /\ b \in Nat /\ m \in Nat /\ b <= Len(cells)
  BY LenProperties
<1>2. /\ part \in Seq(Cell) /\ Len(part) = m
      /\ \A i \in 1..m : part[i] = cells[a + i]
  BY ColsOfPart
<1> HIDE DEF m
<1>3. \A i \in 1..m : Starts(part)[i] = Cols(part, i - 1)
  BY <1>2, ColsAre
<1>4. ASSUME NEW i \in 1..m
      PROVE  Cols(part, i - 1) = Cols(cells, a + (i - 1)) - Cols(cells, a)
  <2> DEFINE f == [t \in 1..(i - 1) |-> part[t].width]
             j == a + (i - 1)
             sub == SubSeq(cells, a + 1, j)
  <2>1. j \in a..Len(cells) /\ j - a = i - 1 /\ i - 1 \in Nat
    BY <1>1 DEF m
  <2> HIDE DEF j
  <2>2. /\ sub \in Seq(Cell) /\ Len(sub) = j - a
        /\ \A t \in 1..(j - a) : sub[t] = cells[a + t]
        /\ Width(sub) = Cols(cells, j) - Cols(cells, a)
    BY <2>1, ColsOfPart
  <2>3. DOMAIN sub = 1..(i - 1)
    BY <2>1, <2>2, LenProperties
  <2>4. \A t \in 1..(i - 1) : sub[t] = part[t]
    <3>1. \A t \in 1..(i - 1) : t \in 1..m
      BY <1>1
    <3> HIDE DEF sub
    <3>2. QED BY <1>2, <2>1, <2>2, <3>1
  <2>5. Width(sub) = Sum([t \in 1..(i - 1) |-> sub[t].width])
    BY <2>3 DEF Width
  <2>6. [t \in 1..(i - 1) |-> sub[t].width] = f
    BY <2>4
  <2>7. Cols(part, i - 1) = Sum(f)
    BY DEF Cols
  <2> HIDE DEF f, sub
  <2>8. QED BY <2>2, <2>5, <2>6, <2>7 DEF j
<1>5. QED BY <1>1, <1>2, <1>3, <1>4 DEF m, IsPart

\* The cells drawn: what a key selects is the cell that has it.
KeyRight(d) == d.at > 0 => GetTextRangeByCols(content, d.key, d.key + 1) = {d.at}

Right(keys) == {d \in [at : Nat, width : Nat, key : keys] : KeyRight(d)}

LEMMA KeyedIsRight ==
    ASSUME TextSet, TabSet, SameClusters, NEW n \in 1..Len(ContentLines(content)),
           NEW s \in Nat, NEW w \in Nat, Uncut(CellsOf(n), s),
           NEW keys, Nat \subseteq keys
    PROVE  Keyed(SliceLineCols(CellsOf(n), s, w), LineCol(n) + s) \in Seq(Right(keys))
<1> DEFINE line == CellsOf(n)
           part == SliceLineCols(line, s, w)
           base == LineCol(n)
           got == Keyed(part, base + s)
<1>1. line \in Seq(Cell) /\ Len(line) \in Nat
  BY CellsOfType, LenProperties
<1> Uncut(line, s)
  OBVIOUS
<1>2. PICK a, b \in 0..Len(line) : Shows(line, s, w, part, a, b)
  <2> HIDE DEF line
  <2>1. QED BY <1>1, SliceShows
<1>3. base \in Nat
  BY LineCols
<1>4. \A k \in 1..Len(line), key \in Nat :
        key = base + Cols(line, k - 1) =>
          GetTextRangeByCols(content, key, key + 1) = {line[k].at}
  BY KeyIsRight
<1> HIDE DEF line, part, base
<1>5. a \in Nat /\ b \in Nat /\ a <= b /\ b <= Len(line) /\ b \in a..Len(line)
  BY <1>1, <1>2 DEF Shows
<1> DEFINE m == b - a
<1>6. /\ part \in Seq(Cell) /\ Len(part) = m /\ m \in Nat
      /\ \A i \in 1..m :
           /\ part[i] = line[a + i]
           /\ Starts(part)[i] = Cols(line, a + (i - 1)) - Cols(line, a)
  <2>1. part = SubSeq(line, a + 1, b)
    BY <1>2 DEF Shows
  <2>2. IsPart(line, a, b, part)
    BY <1>1, <1>5, <2>1, PartStarts
  <2>3. QED BY <2>2 DEF IsPart
<1>7. DOMAIN part = 1..m
  BY <1>6, LenProperties
<1>10. ASSUME NEW i \in 1..m
       PROVE  [at |-> part[i].at, width |-> part[i].width, key |-> base + s + Starts(part)[i]]
                \in Right(keys)
  <2> DEFINE k == a + i
             x == Cols(line, k - 1)
             c == line[k]
             key == base + s + Starts(part)[i]
             d == [at |-> part[i].at, width |-> part[i].width, key |-> key]
  <2>1. k \in 1..Len(line) /\ k - 1 \in 0..Len(line) /\ k - 1 = a + (i - 1) /\ a < b
    BY <1>1, <1>5
  <2>2. part[i] = c /\ c \in Cell
    BY <1>1, <1>6, <2>1, ElementOfSeq
  <2>3. Cols(line, a) = s
    BY <1>2, <2>1 DEF Shows
  <2>4. x \in Nat
    BY <1>1, <2>1, ColsAre
  <2>5. Starts(part)[i] = x - s
    BY <1>6, <2>1, <2>3
  <2>6. key = base + x /\ key \in Nat
    <3> DEFINE y == Starts(part)[i]
    <3>1. y = x - s
      BY <2>5
    <3> HIDE DEF y, x
    <3>2. base + s + y = base + x /\ base + s + y \in Nat
      BY <1>3, <2>4, <3>1
    <3>3. QED BY <3>2 DEF y
  <2>7. GetTextRangeByCols(content, key, key + 1) = {c.at}
    <3> HIDE DEF key, k, c
    <3>1. key = base + Cols(line, k - 1)
      BY <2>6
    <3>2. GetTextRangeByCols(content, key, key + 1) = {line[k].at}
      BY <1>4, <2>1, <2>6, <3>1
    <3>3. QED BY <3>2 DEF c
  <2> HIDE DEF key, c
  <2>8. d \in [at : Nat, width : Nat, key : keys]
    BY <2>2, <2>6 DEF Cell
  <2>9. d.at = c.at /\ d.key = key
    BY <2>2
  <2> HIDE DEF d
  <2>10. KeyRight(d)
    BY <2>7, <2>9 DEF KeyRight
  <2>11. d \in Right(keys)
    BY <2>8, <2>10 DEF Right
  <2>12. QED BY <2>11 DEF d, key
<1>11. got = [i \in 1..m |-> [at |-> part[i].at, width |-> part[i].width,
                              key |-> base + s + Starts(part)[i]]]
  BY <1>7 DEF Keyed
<1> HIDE DEF got, m
<1>12. got \in [1..m -> Right(keys)]
  BY <1>10, <1>11
<1>13. got \in Seq(Right(keys))
  BY <1>6, <1>12, FunctionIsSeq
<1>14. QED BY <1>13 DEF got, part, line, base

\* A virtual line is where its line has it, and starts at a cell of it.
Fixed(v) ==
    /\ v \in VLine
    /\ v.line \in 1..Len(ContentLines(content))
    /\ v.col = LineCol(v.line) + v.src
    /\ Uncut(CellsOf(v.line), v.src)
    /\ wrapMode = "none" => v.src = 0

LEMMA VLinesAreFixed ==
    ASSUME WrapSet, TextSet, TabSet, AllBroad
    PROVE  /\ DOMAIN CalculateVirtualLines = 1..Len(CalculateVirtualLines)
           /\ \A k \in 1..Len(CalculateVirtualLines) : Fixed(CalculateVirtualLines[k])
<1> DEFINE vlines == CalculateVirtualLines
           N == Len(ContentLines(content))
<1>1. PICK acc : LinesPlaced(acc, N) /\ acc.vlines = vlines
  BY LinesArePlaced
<1>2. /\ acc \in Lined
      /\ \A k \in 1..Len(vlines) :
           /\ vlines[k].line \in 1..N
           /\ wrapMode = "none" => vlines[k].src = 0
           /\ vlines[k].col = LineCol(vlines[k].line) + vlines[k].src
  BY <1>1 DEF LinesPlaced
<1>3. vlines \in Seq(VLine)
  BY <1>1, <1>2 DEF Lined
<1>4. ASSUME NEW n \in 1..N PROVE LineCut(vlines, n)
  BY <1>4, LinesAreCut
<1>5. ASSUME NEW n \in 1..N PROVE CellsOf(n) \in Seq(Cell)
  BY <1>5, CellsOfType
<1> HIDE DEF vlines, N
<1>6. ASSUME NEW k \in 1..Len(vlines) PROVE Fixed(vlines[k])
  <2> DEFINE v == vlines[k]
             n == v.line
             cells == CellsOf(n)
  <2>1. v \in VLine
    BY <1>3, ElementOfSeq
  <2>2. n \in 1..N
    BY <1>2
  <2>3. cells \in Seq(Cell)
    BY <1>5, <2>2
  <2>4. PICK lo, m, b :
          /\ lo \in Nat /\ m \in Nat \ {0}
          /\ \A i \in 1..Len(vlines) : vlines[i].line = n <=> i \in (lo + 1)..(lo + m)
          /\ Cutting(cells, vlines, lo, m, n, b)
    BY <1>4, <2>2 DEF LineCut
  <2> DEFINE i == k - lo
  <2>5. i \in 1..m /\ lo + i = k /\ i - 1 \in 0..m
    BY <2>4
  <2> HIDE DEF i, v, cells
  <2>6. v.src = Cols(cells, b[i - 1]) /\ b[i - 1] \in 0..Len(cells)
    BY <2>4, <2>5 DEF Cutting, CutIs, v
  <2>7. Uncut(cells, v.src)
    <3> DEFINE a == b[i - 1]
    <3>1. a \in 0..Len(cells) /\ v.src = Cols(cells, a)
      BY <2>6
    <3> HIDE DEF a
    <3>2. QED BY <2>3, <3>1, UncutAtCell
  <2>8. v.col = LineCol(n) + v.src /\ (wrapMode = "none" => v.src = 0)
    BY <1>2 DEF v
  <2>9. QED BY <2>1, <2>2, <2>7, <2>8 DEF Fixed, v, cells, N
<1>7. QED BY <1>3, <1>6, LenProperties DEF vlines

\* A virtual line that is to be drawn, whole or with its middle cut out.
Fitting(v, got) ==
    /\ got.col = v.col /\ got.line = v.line /\ got.src = v.src
    /\ got.truncated \in BOOLEAN
    /\ got.width \in Nat /\ got.ellipsis \in Nat
    /\ ~got.truncated => got.width = v.width

LEMMA WholeIs == ASSUME NEW v \in VLine PROVE Fitting(v, Whole(v))
<1>1. v.width \in Nat
  BY DEF VLine
<1>2. QED BY <1>1 DEF Fitting, Whole, Fitted

LEMMA TruncatedIs ==
    ASSUME NEW v \in VLine, NEW width \in Nat PROVE Fitting(v, Truncated(v, width))
<1>1. CASE v.width <= width
  BY <1>1, WholeIs DEF Truncated
<1>2. CASE ~(v.width <= width) /\ width <= 3
  BY <1>2 DEF Truncated, Fitting, Fitted
<1>3. CASE ~(v.width <= width) /\ ~(width <= 3)
  <2> DEFINE prefix == (width - 3) \div 2
             suffix == v.width - (width - 3 - prefix)
  <2>1. Truncated(v, width) = Fitted(v, width, TRUE, prefix, suffix)
    BY <1>3 DEF Truncated
  <2>2. prefix \in Nat
    BY <1>3
  <2> HIDE DEF prefix, suffix
  <2>3. QED BY <2>1, <2>2 DEF Fitting, Fitted
<1>4. QED BY <1>1, <1>2, <1>3

\* The cells of a virtual line that are drawn have the keys of their clusters.
LEMMA CutOutIsRight ==
    ASSUME NEW v, v.col \in Nat, v.ellipsis \in Nat, NEW cells \in Seq(Right(Nat))
    PROVE  CutOut(v, cells) \in Seq(Right(Nat))
<1> DEFINE dot == Ellipsis(v)
           head == Pick(cells, {k \in DOMAIN cells : cells[k].key - v.col < v.ellipsis})
           tail == Pick(cells, {k \in DOMAIN cells : cells[k].key - v.col >= v.suffix})
           dots == <<dot, dot, dot>>
<1>1. DOMAIN cells = 1..Len(cells)
  BY LenProperties
<1>2. head \in Seq(Right(Nat)) /\ tail \in Seq(Right(Nat))
  <2> DEFINE H == {k \in DOMAIN cells : cells[k].key - v.col < v.ellipsis}
             T == {k \in DOMAIN cells : cells[k].key - v.col >= v.suffix}
  <2>1. H \in SUBSET (1..Len(cells)) /\ T \in SUBSET (1..Len(cells))
    BY <1>1
  <2> HIDE DEF H, T
  <2>2. Pick(cells, H) \in Seq(Right(Nat)) /\ Pick(cells, T) \in Seq(Right(Nat))
    BY <2>1, PickIsSeq
  <2>3. QED BY <2>2 DEF H, T
<1>3. dot \in Right(Nat)
  <2> DEFINE key == v.col + v.ellipsis
  <2>1. key \in Nat
    OBVIOUS
  <2>2. dot = [at |-> 0, width |-> 1, key |-> key]
    BY DEF Ellipsis
  <2> HIDE DEF key, dot
  <2>3. dot \in [at : Nat, width : Nat, key : Nat] /\ dot.at = 0
    BY <2>1, <2>2
  <2>4. KeyRight(dot)
    BY <2>3 DEF KeyRight
  <2>5. QED BY <2>3, <2>4 DEF Right
<1> HIDE DEF dot
<1>4. dots \in Seq(Right(Nat))
  BY <1>3
<1> HIDE DEF dots, head, tail
<1>5. head \o dots \o tail \in Seq(Right(Nat))
  BY <1>2, <1>4, ConcatProperties
<1>6. CutOut(v, cells) = head \o dots \o tail
  BY DEF CutOut, head, dots, tail, dot
<1>7. QED BY <1>5, <1>6

LEMMA DrawsRight ==
    ASSUME TextSet, TabSet, SameClusters, NEW v, Fixed(v), NEW got, Fitting(v, got),
           ScrollX \in Nat, wrapMode # "none" => ScrollX = 0,
           Uncut(CellsOf(v.line), ScrollX)
    PROVE  DrawCells(got, CellsOf(got.line)) \in Seq(Right(Nat))
<1> DEFINE n == v.line
           line == CellsOf(n)
           x == ScrollX
<1>1. /\ n \in 1..Len(ContentLines(content)) /\ v.col = LineCol(n) + v.src
      /\ Uncut(line, v.src) /\ (wrapMode = "none" => v.src = 0)
  BY DEF Fixed
<1>2. v.src \in Nat /\ v.col \in Nat
  BY DEF Fixed, VLine
<1>3. /\ got.col = v.col /\ got.line = n /\ got.src = v.src
      /\ got.truncated \in BOOLEAN /\ got.width \in Nat /\ got.ellipsis \in Nat
  BY DEF Fitting
<1>4. LineCol(n) \in Nat
  BY <1>1, LineCols
<1>5. x \in Nat /\ (wrapMode # "none" => x = 0) /\ Uncut(line, x)
  OBVIOUS
<1>6. ASSUME NEW s \in Nat, NEW w \in Nat, Uncut(line, s)
      PROVE  Keyed(SliceLineCols(line, s, w), LineCol(n) + s) \in Seq(Right(Nat))
  BY <1>1, <1>6, KeyedIsRight
<1>7. line \in Seq(Cell)
  BY <1>1, CellsOfType
<1> HIDE DEF x, line, n
<1>8. CASE got.truncated
  <2> DEFINE w == Width(line) + 1
             cells == Keyed(SliceLineCols(line, v.src, w), v.col)
  <2>1. w \in Nat
    BY <1>7, WidthIsNat
  <2> HIDE DEF w
  <2>2. cells \in Seq(Right(Nat))
    BY <1>1, <1>2, <1>6, <2>1
  <2>3. DrawCells(got, line) = CutOut(got, cells)
    BY <1>3, <1>8 DEF DrawCells, TruncatedCells, w
  <2> HIDE DEF cells
  <2>4. got.col \in Nat /\ got.ellipsis \in Nat
    BY <1>2, <1>3
  <2>5. CutOut(got, cells) \in Seq(Right(Nat))
    BY <2>2, <2>4, CutOutIsRight
  <2>6. QED BY <1>3, <2>3, <2>5 DEF line
<1>9. CASE ~got.truncated
  <2> DEFINE s == v.src + x
             cells == Keyed(SliceLineCols(line, s, got.width), v.col + x)
  <2>1. s \in Nat /\ Uncut(line, s) /\ v.col + x = LineCol(n) + s
    <3>1. v.src = 0 \/ x = 0
      BY <1>1, <1>5
    <3>2. s \in Nat /\ v.col + x = LineCol(n) + s
      BY <1>1, <1>2, <1>4, <1>5
    <3>3. s = v.src \/ s = x
      BY <1>2, <1>5, <3>1
    <3> HIDE DEF s
    <3>4. Uncut(line, s)
      BY <1>1, <1>5, <3>3
    <3>5. QED BY <3>2, <3>4
  <2>2. DrawCells(got, line) = cells
    BY <1>3, <1>9 DEF DrawCells, x
  <2> HIDE DEF s
  <2>3. cells \in Seq(Right(Nat))
    BY <1>3, <1>6, <2>1
  <2>4. QED BY <1>3, <2>2, <2>3 DEF line
<1>10. QED BY <1>3, <1>8, <1>9

(***************************************************************************)
(* The view as a machine.                                                  *)
(***************************************************************************)
ViewTypeOK ==
    /\ wrapMode \in WrapModes
    /\ wrapWidth \in Nat
    /\ firstLineOffset \in Nat
    /\ viewport = None \/ viewport \in ViewportSet
    /\ truncate \in BOOLEAN

\* A view leaves its buffer to the buffer's own calls.
LEMMA ViewIsOfBuffer == Spec => BufferSpec
<1>1. Init => BufferInit
  BY DEF Init
<1>2. [Next]_vars => [BufferNext]_bufferVars
  BY DEF Next, vars
<1>3. QED BY <1>1, <1>2, PTL DEF Spec, BufferSpec

LEMMA ViewTypes == Spec => []ViewTypeOK
<1>1. ASSUME Init PROVE ViewTypeOK
  <2>1. wrapMode \in WrapModes
    BY <1>1 DEF Init, WrapModes
  <2>2. wrapWidth \in Nat /\ firstLineOffset \in Nat
    BY <1>1 DEF Init
  <2>3. truncate \in BOOLEAN /\ viewport = None
    BY <1>1, Zenon DEF Init
  <2>4. QED BY <2>1, <2>2, <2>3 DEF ViewTypeOK
<1>2. ASSUME ViewTypeOK, [Next]_vars PROVE ViewTypeOK'
  <2> USE DEF ViewTypeOK
  <2>1. ASSUME UNCHANGED layoutVars PROVE ViewTypeOK'
    BY <1>2, <2>1 DEF layoutVars
  <2>2. ASSUME Set PROVE ViewTypeOK'
    <3>1. ASSUME NEW mode \in WrapModes, SetWrapMode(mode) PROVE ViewTypeOK'
      BY <1>2, <3>1 DEF SetWrapMode
    <3>2. ASSUME NEW width \in WrapWidths, SetWrapWidth(width) PROVE ViewTypeOK'
      BY <1>2, <3>2, ViewAssumption DEF SetWrapWidth
    <3>3. ASSUME NEW offset \in FirstLineOffsets, SetFirstLineOffset(offset) PROVE ViewTypeOK'
      BY <1>2, <3>3, ViewAssumption DEF SetFirstLineOffset
    <3>4. ASSUME NEW view \in Viewports, SetViewport(view) PROVE ViewTypeOK'
      BY <1>2, <3>4, ViewAssumption DEF ViewportSet, SetViewport
    <3>5. ASSUME NEW view \in Viewports, SetViewportSize(view.width, view.height)
          PROVE  ViewTypeOK'
      <4> DEFINE x == IF viewport = None THEN 0 ELSE viewport.x
                 w == view.width
                 h == view.height
      <4>1. w \in Nat /\ h \in Nat
        BY ViewAssumption DEF ViewportSet
      <4>2. x \in Nat /\ ScrollY \in Nat
        BY <1>2 DEF ScrollY, ViewportSet
      <4>3. /\ viewport' = [x |-> x, y |-> ScrollY, width |-> w, height |-> h]
            /\ wrapWidth' = w
            /\ UNCHANGED <<wrapMode, firstLineOffset, truncate>>
        BY <3>5 DEF SetViewportSize
      <4> HIDE DEF x, w, h
      <4>4. viewport' \in ViewportSet
        BY <4>1, <4>2, <4>3 DEF ViewportSet
      <4>5. QED BY <1>2, <4>1, <4>3, <4>4
    <3>6. ASSUME NEW value \in BOOLEAN, SetTruncate(value) PROVE ViewTypeOK'
      BY <1>2, <3>6 DEF SetTruncate
    <3> HIDE DEF ViewTypeOK
    <3>7. QED BY <2>2, <3>1, <3>2, <3>3, <3>4, <3>5, <3>6 DEF Set
  <2>3. Select => UNCHANGED layoutVars
    BY DEF Select, SetSelection, UpdateSelection, ResetSelection, ResetLocalSelection,
           SetLocalSelection, UpdateLocalSelectionFocusOnly
  <2> HIDE DEF ViewTypeOK
  <2>4. UNCHANGED vars => UNCHANGED layoutVars
    BY DEF vars, viewVars
  <2>5. QED BY <1>2, <2>1, <2>2, <2>3, <2>4 DEF Next
<1>3. QED BY <1>1, <1>2, PTL DEF Spec

\* However a text is wrapped, by characters or by words, at whatever width and
\* offset, the virtual lines of each of its lines are its cells cut into
\* consecutive runs, none lost or doubled, each no wider than there is room for
\* unless it is a single cell (CalculateVirtualLines).
THEOREM LayoutCuts == Spec => []LayoutCutsLines
<1>1. BufferTypeOK /\ ViewTypeOK => LayoutCutsLines
  BY LayoutIsRight DEF BufferTypeOK, ViewTypeOK, WrapSet, TextSet
<1>2. QED BY <1>1, ViewIsOfBuffer, BufferTypes, ViewTypes, PTL

\* Nothing is scrolled sideways but in a view that does not wrap.
LEMMA ScrollIs ==
    ASSUME ViewTypeOK, TextSet, TabSet, ScrollCutsNoCell,
           NEW n \in 1..Len(ContentLines(content))
    PROVE  /\ ScrollX \in Nat /\ (wrapMode # "none" => ScrollX = 0)
           /\ Uncut(CellsOf(n), ScrollX)
<1> DEFINE cells == CellsOf(n)
           x == ScrollX
<1>1. x \in Nat /\ (wrapMode # "none" => x = 0)
  BY DEF ViewTypeOK, ViewportSet, ScrollX
<1>2. cells \in Seq(Cell)
  BY CellsOfType
<1>3. \A k \in DOMAIN cells : ~(Starts(cells)[k] < x /\ x < Starts(cells)[k] + cells[k].width)
  BY LinesOfText DEF TextSet, Cuts, ScrollCutsNoCell
<1> HIDE DEF x, cells
<1>4. /\ DOMAIN cells = 1..Len(cells)
      /\ \A k \in 1..Len(cells) : Starts(cells)[k] = Cols(cells, k - 1)
      /\ \A k \in 1..Len(cells) : Cols(cells, k) = Cols(cells, k - 1) + cells[k].width
  BY <1>2, ColsAre, LenProperties
<1>5. Uncut(cells, x)
  BY <1>3, <1>4 DEF Uncut
<1>6. QED BY <1>1, <1>5 DEF x, cells

\* What is drawn of each virtual line has the keys of its clusters.
LEMMA DrawnIsRight == BufferTypeOK /\ ViewTypeOK => DrawnAsExtracted
<1>1. SUFFICES ASSUME BufferTypeOK, ViewTypeOK, SameClusters, ScrollCutsNoCell,
                      NEW cell \in DrawnCells, cell.at > 0
               PROVE  GetTextRangeByCols(content, cell.key, cell.key + 1) = {cell.at}
  BY DEF DrawnAsExtracted
<1> DEFINE laid == CalculateVirtualLines
           vlines == VirtualLines
<1>2. WrapSet /\ TextSet /\ TabSet
  BY <1>1 DEF BufferTypeOK, ViewTypeOK, WrapSet, TextSet, TabSet
<1>3. /\ DOMAIN laid = 1..Len(laid)
      /\ \A k \in 1..Len(laid) : Fixed(laid[k])
  BY <1>1, <1>2, SameAreBroad, VLinesAreFixed
<1>4. /\ DOMAIN vlines = DOMAIN laid
      /\ \A k \in DOMAIN laid :
           vlines[k] = IF truncate /\ viewport # None /\ viewport.width > 0
                       THEN Truncated(laid[k], viewport.width) ELSE Whole(laid[k])
  BY DEF VirtualLines, AllTruncated
<1>5. viewport # None => viewport.width \in Nat
  BY <1>1 DEF ViewTypeOK, ViewportSet
<1>6. PICK row \in Rows(vlines) :
        cell \in RowCells(row - ScrollY - 1, DrawCells(vlines[row], CellsOf(vlines[row].line)))
  BY <1>1 DEF DrawnCells, Drawn
<1>7. row \in 1..Len(laid)
  BY <1>3, <1>4, <1>6 DEF Rows
<1> HIDE DEF laid, vlines
<1> DEFINE v == laid[row]
           got == vlines[row]
           drawn == DrawCells(got, CellsOf(got.line))
<1>8. Fixed(v) /\ v \in VLine /\ v.line \in 1..Len(ContentLines(content))
  BY <1>3, <1>7 DEF Fixed
<1>9. Fitting(v, got)
  <2>1. got = Whole(v) \/ (viewport # None /\ got = Truncated(v, viewport.width))
    BY <1>3, <1>4, <1>7
  <2> HIDE DEF v, got
  <2>2. QED BY <1>5, <1>8, <2>1, WholeIs, TruncatedIs
<1> HIDE DEF v, got
<1>10. drawn \in Seq(Right(Nat))
  BY <1>1, <1>2, <1>8, <1>9, ScrollIs, DrawsRight
<1>11. PICK k \in DOMAIN drawn : cell.at = drawn[k].at /\ cell.key = drawn[k].key
  <2>1. cell \in RowCells(row - ScrollY - 1, drawn)
    BY <1>6 DEF got
  <2> HIDE DEF drawn
  <2>2. QED BY <2>1 DEF RowCells
<1> HIDE DEF drawn
<1>12. drawn[k] \in Right(Nat)
  BY <1>10, ElementOfSeq, LenProperties
<1>13. QED BY <1>1, <1>11, <1>12 DEF Right, KeyRight

\* What is drawn as selected is what is extracted: wrapped, truncated or
\* scrolled, a drawn cell has the key its cluster has in the text, where the
\* view and the buffer measure the clusters alike (DrawModelInto,
\* GetTextRangeByCols).
THEOREM DrawnIsExtracted == Spec => []DrawnAsExtracted
<1>1. QED BY DrawnIsRight, ViewIsOfBuffer, BufferTypes, ViewTypes, PTL

\* A step that leaves the text and the layout alone leaves what is drawn alone.
Still == UNCHANGED <<content, tabWidth, layoutVars>>

LEMMA SamePushes ==
    ASSUME Still
    PROVE  /\ \A cur, w : FlushIfOver(cur, w)' = FlushIfOver(cur, w)
           /\ \A cur, seg : PushSegmentCharMode(cur, seg)' = PushSegmentCharMode(cur, seg)
           /\ \A acc, seg : PushWord(acc, seg)' = PushWord(acc, seg)
<1> USE DEF Still, layoutVars
<1>1. ASSUME NEW CONSTANT cur PROVE LineWrapW(cur)' = LineWrapW(cur)
  BY DEF LineWrapW
<1>2. ASSUME NEW CONSTANT cur, NEW CONSTANT w PROVE FlushIfOver(cur, w)' = FlushIfOver(cur, w)
  BY <1>1 DEF FlushIfOver, Flush, VLineOf
<1>3. ASSUME NEW CONSTANT cur, NEW CONSTANT cell PROVE PushChar(cur, cell)' = PushChar(cur, cell)
  BY <1>2 DEF PushChar, Advance
<1>4. ASSUME NEW CONSTANT cur, NEW CONSTANT seg PROVE PushChars(cur, seg)' = PushChars(cur, seg)
  BY <1>3 DEF PushChars, FoldLeft, MapThenFoldSet
<1>5. ASSUME NEW CONSTANT cur, NEW CONSTANT seg
      PROVE  PushSegmentCharMode(cur, seg)' = PushSegmentCharMode(cur, seg)
  BY <1>1, <1>2, <1>4 DEF PushSegmentCharMode, PushCols, Advance
<1>6. ASSUME NEW CONSTANT acc, NEW CONSTANT seg PROVE PushWord(acc, seg)' = PushWord(acc, seg)
  BY <1>1, <1>2, <1>4 DEF PushWord, PushCols, Advance
<1>7. QED BY <1>2, <1>5, <1>6

LEMMA SameCells ==
    ASSUME Still
    PROVE  /\ ContentLines(content)' = ContentLines(content)
           /\ \A n : CellsOf(n)' = CellsOf(n)
           /\ \A cells : WordSegments(cells)' = WordSegments(cells)
<1> USE DEF Still
<1>1. ContentLines(content)' = ContentLines(content)
  OBVIOUS
<1>2. ASSUME NEW CONSTANT n PROVE CellsOf(n)' = CellsOf(n)
  BY <1>1 DEF CellsOf
<1>3. ASSUME NEW CONSTANT cells PROVE WordSegments(cells)' = WordSegments(cells)
  BY DEF WordSegments
<1>4. QED BY <1>1, <1>2, <1>3

LineLaid(acc, n) == AddLine(acc, n, CellsOf(n))

LEMMA SameLayout ==
    ASSUME Still
    PROVE  VirtualLines' = VirtualLines /\ ScrollX' = ScrollX /\ ScrollY' = ScrollY
<1>1. UNCHANGED <<content, wrapMode, wrapWidth, firstLineOffset, viewport, truncate>>
  BY DEF Still, layoutVars
<1>2. /\ \A cur, seg : PushSegmentCharMode(cur, seg)' = PushSegmentCharMode(cur, seg)
      /\ \A acc, seg : PushWord(acc, seg)' = PushWord(acc, seg)
  BY SamePushes
<1>3. ContentLines(content)' = ContentLines(content)
  BY SameCells
<1>4. \A n : CellsOf(n)' = CellsOf(n)
  BY SameCells
<1>5. \A cells : WordSegments(cells)' = WordSegments(cells)
  BY SameCells
<1>6. ASSUME NEW CONSTANT cur, NEW CONSTANT cells PROVE Push(cur, cells)' = Push(cur, cells)
  <2>1. FoldLeft(LAMBDA c, cell : PushSegmentCharMode(c, <<cell>>)', cur, cells)
          = FoldLeft(LAMBDA c, cell : PushSegmentCharMode(c, <<cell>>), cur, cells)
    BY <1>2 DEF FoldLeft, MapThenFoldSet
  <2>2. ASSUME NEW CONSTANT acc, NEW CONSTANT segs
        PROVE  FoldLeft(LAMBDA a, seg : PushWord(a, seg)', acc, segs)
                 = FoldLeft(LAMBDA a, seg : PushWord(a, seg), acc, segs)
    BY <1>2 DEF FoldLeft, MapThenFoldSet
  <2>3. QED BY <1>1, <1>5, <2>1, <2>2 DEF Push
<1>7. ASSUME NEW CONSTANT acc, NEW CONSTANT n, NEW CONSTANT cells
      PROVE  AddLine(acc, n, cells)' = AddLine(acc, n, cells)
  BY <1>1, <1>6 DEF Cursor, WrapLine, LineDone, Finish, VLineOf, AddLine, WholeLine
<1>8. CalculateVirtualLines' = CalculateVirtualLines
  <2> DEFINE zero == [vlines |-> <<>>, global |-> 0, pending |-> firstLineOffset > 0]
             ns == [n \in DOMAIN ContentLines(content) |-> n]
             all(z, s) == FoldLeft(LAMBDA acc, n : LineLaid(acc, n), z, s)
  <2>1. ASSUME NEW CONSTANT acc, NEW CONSTANT n
        PROVE  LineLaid(acc, n)' = LineLaid(acc, n)
    BY <1>4, <1>7 DEF LineLaid
  <2>2. ASSUME NEW CONSTANT z, NEW CONSTANT s PROVE all(z, s)' = all(z, s)
    BY <2>1 DEF FoldLeft, MapThenFoldSet
  <2>3. zero' = zero /\ ns' = ns
    BY <1>1, <1>3
  <2>4. CalculateVirtualLines = all(zero, ns).vlines
    BY DEF CalculateVirtualLines, LineLaid
  <2>5. CalculateVirtualLines' = all(zero, ns)'.vlines
    BY DEF CalculateVirtualLines, LineLaid
  <2> HIDE DEF zero, ns, all
  <2>6. all(zero, ns)' = all(zero, ns)
    BY <2>2, <2>3
  <2>7. QED BY <2>4, <2>5, <2>6
<1>9. VirtualLines' = VirtualLines
  BY <1>1, <1>8 DEF VirtualLines, AllTruncated, Truncated, Whole, Fitted
<1>10. ScrollX' = ScrollX /\ ScrollY' = ScrollY
  BY <1>1 DEF ScrollX, ScrollY
<1>11. QED BY <1>9, <1>10

LEMMA SameOffset ==
    ASSUME Still, NEW CONSTANT p PROVE Offset(VirtualLines, p)' = Offset(VirtualLines, p)
<1>1. VirtualLines' = VirtualLines /\ ScrollX' = ScrollX /\ ScrollY' = ScrollY
  BY SameLayout
<1>2. QED
  BY <1>1 DEF Offset, Above, Below, TextEndOffset, CoordsToCharOffset, Clamp

(***************************************************************************)
(* Dragging: where on the screen the cells are drawn.                      *)
(***************************************************************************)
LEMMA EndsOfTwo ==
    ASSUME NEW a \in Int, NEW b \in Int
    PROVE  /\ Min({a, b}) = IF a <= b THEN a ELSE b
           /\ Max({a, b}) = IF a >= b THEN a ELSE b
<1>1. {a, b} \in SUBSET Int
  OBVIOUS
<1>2. CASE a <= b
  BY <1>1, <1>2, MinIs, MaxIs
<1>3. CASE ~(a <= b)
  BY <1>1, <1>3, MinIs, MaxIs
<1>4. QED BY <1>2, <1>3

LEMMA ClampIs ==
    ASSUME NEW n \in Int, NEW hi \in Nat
    PROVE  Clamp(n, 0, hi) = IF n < 0 THEN 0 ELSE IF n > hi THEN hi ELSE n
<1> DEFINE m == Min({n, hi})
<1>1. m = (IF n <= hi THEN n ELSE hi) /\ m \in Int
  BY EndsOfTwo
<1>2. Clamp(n, 0, hi) = Max({0, m})
  BY DEF Clamp
<1> HIDE DEF m
<1>3. Max({0, m}) = IF 0 >= m THEN 0 ELSE m
  <2> DEFINE z == 0
  <2>1. z \in Int
    OBVIOUS
  <2> HIDE DEF z
  <2>2. Max({z, m}) = IF z >= m THEN z ELSE m
    BY <1>1, <2>1, EndsOfTwo
  <2>3. QED BY <2>2 DEF z
<1>4. QED BY <1>1, <1>2, <1>3

\* The virtual lines, none truncated, follow one another in columns.
Stacked(vlines) ==
    /\ Len(vlines) \in Nat /\ DOMAIN vlines = 1..Len(vlines)
    /\ Len(vlines) = 0 <=> vlines = <<>>
    /\ \A k \in 1..Len(vlines) :
         vlines[k].col \in Nat /\ vlines[k].width \in Nat /\ ~vlines[k].truncated
    /\ \A k \in 1..Len(vlines) : \A j \in 1..(k - 1) :
         vlines[j].col + vlines[j].width <= vlines[k].col

\* A cell is drawn in the row of its virtual line, where its key says.
DrawnIn(vlines, cell, n) ==
    /\ n \in 1..Len(vlines) /\ n > ScrollY /\ cell.y = n - ScrollY - 1
    /\ cell.x \in Nat /\ cell.key = vlines[n].col + ScrollX + cell.x
    /\ ScrollX + cell.x < vlines[n].width

\* A point is after the cells whose keys its offset is behind.
LEMMA OffsetSplits ==
    ASSUME NEW vlines, Stacked(vlines), ScrollX \in Nat, ScrollY \in Nat,
           NEW p \in Int \X Int, OverText(vlines, Place(p))
    PROVE  /\ Offset(vlines, p) \in Nat
           /\ \A cell, n : DrawnIn(vlines, cell, n) =>
                (cell.key < Offset(vlines, p) <=> Before(<<cell.x, cell.y>>, Place(p)))
<1> DEFINE N == Len(vlines)
           offset == Offset(vlines, p)
           x == ScrollX
           top == ScrollY
           px == p[1]
           py == p[2]
<1>1. px \in Int /\ py \in Int
  OBVIOUS
<1>2. /\ N \in Nat /\ (N = 0 <=> vlines = <<>>)
      /\ \A k \in 1..N : vlines[k].col \in Nat /\ vlines[k].width \in Nat /\ ~vlines[k].truncated
      /\ \A k \in 1..N : \A j \in 1..(k - 1) : vlines[j].col + vlines[j].width <= vlines[k].col
  BY DEF Stacked
<1>3. x \in Nat /\ top \in Nat
  OBVIOUS
<1> DEFINE In(cell, n) == /\ n \in 1..N /\ n > top /\ cell.y = n - top - 1
                          /\ cell.x \in Nat /\ cell.key = vlines[n].col + x + cell.x
                          /\ x + cell.x < vlines[n].width
           Ahead(cell, a, b) == cell.y < b \/ (cell.y = b /\ cell.x < a)
<1>4. ASSUME NEW cell, NEW n, DrawnIn(vlines, cell, n) PROVE In(cell, n)
  BY <1>4 DEF DrawnIn
<1>5. /\ Place(p) = IF px < 0 THEN <<0, -1>> ELSE p
      /\ OverText(vlines, Place(p)) => px < 0 \/ py < 0 \/ py + top < N \/ py > N - 1
      /\ \A cell : Before(<<cell.x, cell.y>>, Place(p))
                     <=> IF px < 0 THEN Ahead(cell, 0, -1) ELSE Ahead(cell, px, py)
  <2>1. Place(p) = IF px < 0 THEN <<0, -1>> ELSE p
    BY DEF Place
  <2>2. CASE px < 0
    BY <2>1, <2>2 DEF Before
  <2>3. CASE ~(px < 0)
    BY <2>1, <2>3 DEF Before, OverText, Above, Below
  <2>4. QED BY <2>1, <2>2, <2>3
<1>6. offset = IF py < 0 \/ px < 0 THEN 0
               ELSE IF py > N - 1 THEN TextEndOffset(vlines) ELSE CoordsToCharOffset(vlines, p)
  BY DEF Offset, Above, Below
<1>7. px < 0 \/ py < 0 \/ py + top < N \/ py > N - 1
  BY <1>5
<1> DEFINE Splits == /\ offset \in Nat
                     /\ \A cell, n : In(cell, n) =>
                          (cell.key < offset
                             <=> IF px < 0 THEN Ahead(cell, 0, -1) ELSE Ahead(cell, px, py))
<1> HIDE DEF offset, x, top, px, py, N
<1>8. ASSUME py < 0 \/ px < 0 PROVE Splits
  <2>1. offset = 0
    BY <1>6, <1>8
  <2>2. ASSUME NEW cell, NEW n, In(cell, n)
        PROVE  ~(cell.key < 0) /\ ~(cell.y < 0)
    <3>1. vlines[n].col \in Nat
      BY <1>2, <2>2
    <3>2. n \in Nat
      BY <1>2, <2>2
    <3>3. QED BY <1>3, <2>2, <3>1, <3>2
  <2>3. ASSUME NEW cell, NEW n, In(cell, n)
        PROVE  ~Ahead(cell, 0, -1) /\ (py < 0 => ~Ahead(cell, px, py))
    BY <1>1, <1>2, <1>3, <2>3
  <2>4. QED BY <1>8, <2>1, <2>2, <2>3
<1>9. ASSUME py >= 0, px >= 0, py > N - 1 PROVE Splits
  <2>1. offset = TextEndOffset(vlines)
    BY <1>1, <1>6, <1>9
  <2>2. N # 0 => offset = vlines[N].col + vlines[N].width
    <3>1. ASSUME N # 0 PROVE ~vlines[N].truncated /\ vlines # <<>>
      BY <1>2, <3>1
    <3>2. QED BY <2>1, <3>1, Zenon DEF TextEndOffset, N
  <2>3. N = 0 => offset = 0
    BY <1>2, <2>1 DEF TextEndOffset
  <2>4. offset \in Nat
    BY <1>2, <2>2, <2>3
  <2>5. ASSUME NEW cell, NEW n, In(cell, n) PROVE cell.key < offset
    <3>1. n \in 1..N /\ N # 0 /\ N \in 1..N
      BY <1>2, <2>5
    <3>2. n < N => vlines[n].col + vlines[n].width <= vlines[N].col
      <4>1. n < N => n \in 1..(N - 1)
        BY <1>2, <3>1
      <4>2. QED BY <1>2, <3>1, <4>1
    <3>3. n < N \/ n = N
      BY <1>2, <3>1
    <3> DEFINE a == vlines[n].col
               b == vlines[n].width
               c == vlines[N].col
               d == vlines[N].width
    <3>4. a \in Nat /\ b \in Nat /\ c \in Nat /\ d \in Nat
      BY <1>2, <3>1
    <3>5. cell.key = a + x + cell.x /\ cell.x \in Nat /\ x + cell.x < b
      BY <2>5
    <3>6. offset = c + d /\ (n < N => a + b <= c) /\ (n = N => a = c /\ b = d)
      BY <2>2, <3>1, <3>2
    <3> HIDE DEF a, b, c, d
    <3>7. QED BY <1>3, <3>3, <3>4, <3>5, <3>6
  <2>6. ASSUME NEW cell, NEW n, In(cell, n) PROVE Ahead(cell, px, py)
    BY <1>1, <1>2, <1>3, <1>9, <2>6
  <2>7. QED BY <1>1, <1>9, <2>4, <2>5, <2>6
<1>10. ASSUME py >= 0, px >= 0, ~(py > N - 1) PROVE Splits
  <2> DEFINE r == py + top + 1
  <2>1. r \in 1..N /\ N # 0
    BY <1>1, <1>2, <1>3, <1>7, <1>10
  <2>2. r \in 1..N /\ ~vlines[r].truncated /\ vlines[r].col \in Nat /\ vlines[r].width \in Nat
    BY <1>2, <2>1
  <2> DEFINE col == vlines[r].col
             width == vlines[r].width
             at == IF px + x > width THEN width ELSE px + x
  <2>3. offset = col + at
    <3>1. offset = CoordsToCharOffset(vlines, p)
      BY <1>1, <1>6, <1>10
    <3>2. Clamp(py + top, 0, N - 1) + 1 = r
      <4> DEFINE n == py + top
                 hi == N - 1
      <4>1. n \in Int /\ hi \in Nat /\ ~(n < 0) /\ ~(n > hi) /\ n + 1 = r
        BY <1>1, <1>2, <1>3, <1>10, <2>1
      <4> HIDE DEF n, hi, r
      <4>2. Clamp(n, 0, hi) = n
        BY <4>1, ClampIs
      <4>3. QED BY <4>1, <4>2 DEF n, hi
    <3> HIDE DEF r
    <3>3. Clamp(px + x, 0, width) = at
      <4> DEFINE n == px + x
      <4>1. n \in Int /\ ~(n < 0) /\ width \in Nat
        BY <1>1, <1>3, <1>10, <2>2
      <4> HIDE DEF n, width
      <4>2. Clamp(n, 0, width) = IF n < 0 THEN 0 ELSE IF n > width THEN width ELSE n
        BY <4>1, ClampIs
      <4>3. QED BY <4>1, <4>2 DEF n
    <3>4. CoordsToCharOffset(vlines, p) = vlines[r].col + Clamp(px + x, 0, vlines[r].width)
      BY <2>2, <3>2, Zenon DEF CoordsToCharOffset, px, py, x, top, N
    <3>5. QED BY <3>1, <3>3, <3>4
  <2>4. at \in Nat /\ at <= width
    <3> HIDE DEF r, width
    <3>1. width \in Nat
      BY <2>2 DEF width
    <3>2. QED BY <1>1, <1>3, <1>10, <3>1
  <2>5. offset \in Nat
    BY <2>2, <2>3, <2>4
  <2>6. ASSUME NEW cell, NEW n, In(cell, n)
        PROVE  cell.key < offset <=> Ahead(cell, px, py)
    <3>1. n \in 1..N /\ n \in Nat /\ r \in Nat
      BY <1>2, <2>1, <2>6
    <3>2. /\ n < r => vlines[n].col + vlines[n].width <= vlines[r].col
          /\ r < n => vlines[r].col + vlines[r].width <= vlines[n].col
      <4>1. (n < r => n \in 1..(r - 1)) /\ (r < n => r \in 1..(n - 1))
        BY <2>1, <3>1
      <4> HIDE DEF r
      <4>2. QED BY <1>2, <2>1, <3>1, <4>1
    <3> DEFINE a == vlines[n].col
               b == vlines[n].width
    <3>3. a \in Nat /\ b \in Nat
      BY <1>2, <3>1
    <3>4. cell.key = a + x + cell.x /\ cell.x \in Nat /\ x + cell.x < b /\ cell.y = n - top - 1
      BY <2>6
    <3>5. (n < r => a + b <= col) /\ (r < n => col + width <= a) /\ (n = r => a = col /\ b = width)
      BY <3>2
    <3>6. (cell.y < py <=> n < r) /\ (cell.y = py <=> n = r)
      BY <1>1, <1>3, <3>1, <3>4
    <3> HIDE DEF a, b, r, col, width
    <3>7. col \in Nat /\ width \in Nat /\ offset \in Nat
      BY <2>2, <2>5 DEF col, width
    <3>8. CASE n < r
      BY <1>3, <2>3, <2>4, <3>3, <3>4, <3>5, <3>6, <3>7, <3>8
    <3>9. CASE r < n
      BY <1>3, <2>3, <2>4, <3>1, <3>3, <3>4, <3>5, <3>6, <3>7, <3>9
    <3>10. CASE n = r
      BY <1>1, <1>3, <2>3, <3>1, <3>3, <3>4, <3>5, <3>6, <3>7, <3>10
    <3>11. QED BY <3>1, <3>8, <3>9, <3>10
  <2>7. QED BY <1>1, <1>10, <2>5, <2>6
<1>11. Splits
  BY <1>1, <1>2, <1>8, <1>9, <1>10
<1>12. QED BY <1>4, <1>5, <1>11 DEF offset, N, x, top

\* The cells of a row that are drawn start before it ends.
StartsWithin(cells, s, w, part) ==
    /\ part \in Seq(Cell)
    /\ \A i \in 1..Len(part) : \E j \in 1..Len(cells) :
         /\ part[i] = cells[j] /\ Starts(part)[i] \in Nat
         /\ Starts(part)[i] + s <= Cols(cells, j - 1)
         /\ Cols(cells, j - 1) < s + w

LEMMA SliceStarts ==
    ASSUME NEW cells \in Seq(Cell), NEW s \in Nat, NEW w \in Nat,
           NEW part, part = SliceLineCols(cells, s, w)
    PROVE  StartsWithin(cells, s, w, part)
<1>1. Len(cells) \in Nat /\ \A j \in 0..Len(cells) : Cols(cells, j) \in Nat
  BY LenProperties, ColsAre
<1>2. PICK a, b \in 0..Len(cells) : Shows(cells, s, w, part, a, b)
  BY SliceShows
<1>3. a \in Nat /\ b \in Nat /\ b \in a..Len(cells) /\ part = SubSeq(cells, a + 1, b)
  BY <1>1, <1>2 DEF Shows
<1>4. IsPart(cells, a, b, part)
  BY <1>1, <1>3, PartStarts
<1>5. ASSUME NEW i \in 1..Len(part)
      PROVE  \E j \in 1..Len(cells) :
                /\ part[i] = cells[j] /\ Starts(part)[i] \in Nat
                /\ Starts(part)[i] + s <= Cols(cells, j - 1)
                /\ Cols(cells, j - 1) < s + w
  <2> DEFINE j == a + i
             x == Cols(cells, a)
             y == Cols(cells, j - 1)
             z == Starts(part)[i]
  <2>1. i \in 1..(b - a) /\ j \in 1..Len(cells) /\ j \in 1..b /\ a < b
        /\ j - 1 \in 0..Len(cells) /\ a <= j - 1 /\ j - 1 = a + (i - 1)
    <3>1. i \in 1..(b - a)
      BY <1>4 DEF IsPart
    <3>2. b <= Len(cells)
      BY <1>1
    <3>3. QED BY <1>1, <1>3, <3>1, <3>2
  <2>2. part[i] = cells[j] /\ z = y - x
    BY <1>4, <2>1 DEF IsPart
  <2>3. s <= x /\ y < s + w
    BY <1>2, <2>1 DEF Shows
  <2> HIDE DEF j
  <2>4. x <= y
    BY <2>1, ColsGrow
  <2>5. x \in Nat /\ y \in Nat
    BY <1>1, <2>1
  <2> HIDE DEF x, y, z
  <2>6. z \in Nat /\ z + s <= y
    BY <2>2, <2>3, <2>4, <2>5
  <2>7. QED BY <2>1, <2>2, <2>3, <2>6 DEF y, z
<1>6. QED BY <1>4, <1>5 DEF IsPart, StartsWithin

LEMMA KeyedStarts ==
    ASSUME NEW cells \in Seq(Cell), NEW key
    PROVE  /\ DOMAIN Keyed(cells, key) = 1..Len(cells)
           /\ \A k \in 1..Len(cells) :
                /\ Starts(Keyed(cells, key))[k] = Starts(cells)[k]
                /\ Keyed(cells, key)[k].key = key + Starts(cells)[k]
                /\ Keyed(cells, key)[k].width = cells[k].width
<1> DEFINE got == Keyed(cells, key)
           n == Len(cells)
<1>1. n \in Nat /\ DOMAIN cells = 1..n
  BY LenProperties
<1>2. got = [k \in 1..n |-> [at |-> cells[k].at, width |-> cells[k].width,
                             key |-> key + Starts(cells)[k]]]
  BY <1>1 DEF Keyed
<1> HIDE DEF got
<1>3. /\ DOMAIN got = 1..n
      /\ \A k \in 1..n : got[k].key = key + Starts(cells)[k] /\ got[k].width = cells[k].width
  BY <1>2
<1>4. ASSUME NEW k \in 1..n PROVE Starts(got)[k] = Starts(cells)[k]
  <2>1. \A j \in 1..(k - 1) : j \in 1..n
    BY <1>1
  <2> DEFINE f == [j \in 1..(k - 1) |-> got[j].width]
             g == [j \in 1..(k - 1) |-> cells[j].width]
  <2>2. f = g
    BY <1>3, <2>1
  <2>3. Starts(got)[k] = Sum(f) /\ Starts(cells)[k] = Sum(g)
    BY <1>1, <1>3 DEF Starts
  <2> HIDE DEF f, g
  <2>4. QED BY <2>2, <2>3
<1>5. QED BY <1>3, <1>4 DEF got

\* A virtual line of the layout, whatever the columns of its cells.
Rowed(v) ==
    /\ v \in VLine /\ v.line \in 1..Len(ContentLines(content))
    /\ wrapMode = "none" => v.src = 0 /\ v.width = Width(CellsOf(v.line))

LEMMA VLinesAreStacked ==
    ASSUME WrapSet, TextSet, TabSet, NEW laid, laid = CalculateVirtualLines
    PROVE  /\ laid \in Seq(VLine)
           /\ \A k \in 1..Len(laid) : Rowed(laid[k])
           /\ \A k \in 1..Len(laid) : \A j \in 1..(k - 1) :
                laid[j].col + laid[j].width <= laid[k].col
<1> DEFINE N == Len(ContentLines(content))
<1>1. PICK acc : LinesPlaced(acc, N) /\ acc.vlines = laid
  BY LinesArePlaced
<1>2. /\ acc \in Lined /\ Apart(laid, acc.global)
      /\ \A k \in 1..Len(laid) :
           /\ laid[k].line \in 1..N
           /\ wrapMode = "none" => laid[k].src = 0 /\ laid[k].width = Width(CellsOf(laid[k].line))
  BY <1>1 DEF LinesPlaced
<1>3. laid \in Seq(VLine)
  BY <1>1, <1>2 DEF Lined
<1>4. ASSUME NEW k \in 1..Len(laid) PROVE Rowed(laid[k])
  BY <1>2, <1>3, ElementOfSeq DEF Rowed
<1>5. QED BY <1>2, <1>3, <1>4 DEF Apart

\* The virtual lines of a view that truncates none of them.
LEMMA ViewIsStacked ==
    ASSUME ViewTypeOK, WrapSet, TextSet, TabSet,
           \A v \in Range(VirtualLines) : ~v.truncated
    PROVE  /\ Stacked(VirtualLines)
           /\ \A k \in 1..Len(VirtualLines) : Rowed(CalculateVirtualLines[k])
                /\ Fitting(CalculateVirtualLines[k], VirtualLines[k])
<1> DEFINE laid == CalculateVirtualLines
           vlines == VirtualLines
           N == Len(laid)
<1>1. /\ laid \in Seq(VLine)
      /\ \A k \in 1..N : Rowed(laid[k])
      /\ \A k \in 1..N : \A j \in 1..(k - 1) : laid[j].col + laid[j].width <= laid[k].col
  BY VLinesAreStacked
<1>2. N \in Nat /\ DOMAIN laid = 1..N
  BY <1>1, LenProperties
<1> DEFINE e(k) == IF truncate /\ viewport # None /\ viewport.width > 0
                   THEN Truncated(laid[k], viewport.width) ELSE Whole(laid[k])
<1>3. vlines = [k \in 1..N |-> e(k)]
  BY <1>2 DEF VirtualLines, AllTruncated
<1>4. viewport # None => viewport.width \in Nat
  BY DEF ViewTypeOK, ViewportSet
<1> HIDE DEF laid
<1>5. ASSUME NEW k \in 1..N PROVE Fitting(laid[k], e(k))
  BY <1>1, <1>4, WholeIs, TruncatedIs DEF Rowed
<1>6. vlines \in Seq({e(k) : k \in 1..N}) /\ Len(vlines) = N /\ DOMAIN vlines = 1..N
      /\ \A k \in 1..N : vlines[k] = e(k)
  <2> HIDE DEF vlines, e, N
  <2> DEFINE S == {e(k) : k \in 1..N}
  <2>1. vlines \in [1..N -> S] /\ \A k \in 1..N : vlines[k] = e(k)
    BY <1>3
  <2> HIDE DEF S
  <2>2. vlines \in Seq(S) /\ Len(vlines) = N /\ DOMAIN vlines = 1..N
    BY <1>2, <2>1, FunctionIsSeq
  <2>3. QED BY <2>1, <2>2 DEF S
<1> HIDE DEF e
<1>7. \A k \in 1..N : ~vlines[k].truncated
  BY <1>6 DEF Range
<1>8. N = 0 <=> vlines = <<>>
  <2> HIDE DEF vlines, N
  <2>1. QED BY <1>6, EmptySeq
<1> HIDE DEF vlines, N
<1>9. \A k \in 1..N : Fitting(laid[k], vlines[k])
  BY <1>5, <1>6
<1>10. \A k \in 1..N :
         /\ vlines[k].col = laid[k].col /\ vlines[k].width = laid[k].width
         /\ vlines[k].col \in Nat /\ vlines[k].width \in Nat
  BY <1>1, <1>7, <1>9 DEF Rowed, VLine, Fitting
<1>11. \A k \in 1..N : \A j \in 1..(k - 1) : vlines[j].col + vlines[j].width <= vlines[k].col
  BY <1>1, <1>2, <1>10
<1>12. Stacked(vlines)
  BY <1>2, <1>6, <1>7, <1>8, <1>10, <1>11 DEF Stacked
<1>13. QED BY <1>1, <1>6, <1>9, <1>12 DEF vlines, laid

LEMMA CellsAreDrawnIn ==
    ASSUME ViewTypeOK, WrapSet, TextSet, TabSet,
           \A v \in Range(VirtualLines) : ~v.truncated,
           NEW cell \in Drawn(VirtualLines), cell.width > 0
    PROVE  \E n : DrawnIn(VirtualLines, cell, n)
<1> DEFINE vlines == VirtualLines
<1>1. /\ Stacked(vlines)
      /\ \A k \in 1..Len(vlines) :
           Rowed(CalculateVirtualLines[k]) /\ Fitting(CalculateVirtualLines[k], vlines[k])
  BY ViewIsStacked
<1>2. ScrollX \in Nat /\ (wrapMode # "none" => ScrollX = 0) /\ ScrollY \in Nat
  BY DEF ViewTypeOK, ViewportSet, ScrollX, ScrollY
<1>3. PICK n \in Rows(vlines) :
        cell \in RowCells(n - ScrollY - 1, DrawCells(vlines[n], CellsOf(vlines[n].line)))
  BY DEF Drawn
<1> HIDE DEF vlines
<1>4. n \in 1..Len(vlines) /\ n > ScrollY
  BY <1>1, <1>3 DEF Rows, Stacked
<1> DEFINE v == CalculateVirtualLines[n]
           got == vlines[n]
           line == CellsOf(v.line)
           x == ScrollX
           s == v.src + x
           part == SliceLineCols(line, s, v.width)
<1>5. /\ v.col \in Nat /\ v.width \in Nat /\ v.src \in Nat
      /\ v.line \in 1..Len(ContentLines(content))
      /\ wrapMode = "none" => v.src = 0 /\ v.width = Width(line)
  BY <1>1, <1>4 DEF Rowed, VLine
<1>6. got.col = v.col /\ got.line = v.line /\ got.src = v.src /\ got.width = v.width
      /\ ~got.truncated
  BY <1>1, <1>4 DEF Fitting, Stacked
<1>7. line \in Seq(Cell)
  BY <1>5, CellsOfType
<1>8. DrawCells(got, CellsOf(got.line)) = Keyed(part, v.col + x)
  BY <1>6 DEF DrawCells
<1>9. x \in Nat /\ s \in Nat /\ (wrapMode # "none" => x = 0)
  BY <1>2, <1>5
<1>10. cell \in RowCells(n - ScrollY - 1, Keyed(part, v.col + x))
  BY <1>3, <1>8
<1> HIDE DEF v, got, line, part, x
<1>11. /\ part \in Seq(Cell)
       /\ \A i \in 1..Len(part) : \E j \in 1..Len(line) :
            /\ part[i] = line[j] /\ Starts(part)[i] \in Nat
            /\ Starts(part)[i] + s <= Cols(line, j - 1)
            /\ Cols(line, j - 1) < s + v.width
  <2> DEFINE w == v.width
  <2>1. w \in Nat /\ part = SliceLineCols(line, s, w)
    BY <1>5 DEF part
  <2> HIDE DEF s, w
  <2>2. StartsWithin(line, s, w, part)
    BY <1>7, <1>9, <2>1, SliceStarts
  <2>3. QED BY <2>2 DEF StartsWithin, w
<1> DEFINE drawn == Keyed(part, v.col + x)
<1>12. /\ DOMAIN drawn = 1..Len(part)
       /\ \A k \in 1..Len(part) :
            /\ Starts(drawn)[k] = Starts(part)[k]
            /\ drawn[k].key = v.col + x + Starts(part)[k]
            /\ drawn[k].width = part[k].width
  BY <1>11, KeyedStarts
<1> HIDE DEF drawn
<1>13. PICK k \in 1..Len(part) :
         /\ cell.x = Starts(drawn)[k] /\ cell.y = n - ScrollY - 1
         /\ cell.width = drawn[k].width /\ cell.key = drawn[k].key
  BY <1>10, <1>12 DEF drawn, RowCells
<1>14. /\ cell.x = Starts(part)[k] /\ cell.y = n - ScrollY - 1
       /\ part[k].width > 0 /\ cell.key = v.col + x + cell.x
  BY <1>12, <1>13
<1>15. PICK j \in 1..Len(line) :
         /\ part[k] = line[j] /\ cell.x \in Nat
         /\ cell.x + s <= Cols(line, j - 1)
         /\ Cols(line, j - 1) < s + v.width
  BY <1>11, <1>14
<1> DEFINE a == Cols(line, j - 1)
           b == Cols(line, j)
           w == line[j].width
<1>16. /\ a \in Nat /\ b = a + w /\ w \in Nat /\ w > 0 /\ b <= Width(line)
  <2>1. Len(line) \in Nat /\ j - 1 \in 0..Len(line) /\ j \in 0..Len(line)
        /\ Len(line) \in 0..Len(line) /\ j <= Len(line)
    BY <1>7, LenProperties
  <2>2. a \in Nat /\ b = a + w /\ Width(line) = Cols(line, Len(line))
    BY <1>7, <2>1, ColsAre
  <2>3. line[j] \in Cell
    BY <1>7, ElementOfSeq
  <2>4. w \in Nat /\ w > 0
    BY <1>14, <1>15, <2>3 DEF Cell
  <2>5. b <= Width(line)
    <3> DEFINE m == Len(line)
    <3>1. m \in 0..m /\ j \in 0..m /\ j <= m
      BY <2>1
    <3>2. Cols(line, j) <= Cols(line, m)
      BY <1>7, <3>1, ColsGrow
    <3>3. QED BY <2>2, <3>2
  <2>6. QED BY <2>2, <2>4, <2>5
<1>17. x + cell.x < v.width
  <2>1. cell.x + s <= a /\ a < s + v.width
    BY <1>15
  <2> HIDE DEF a, b, w
  <2>2. CASE wrapMode = "none"
    <3>1. s = x /\ b <= v.width
      BY <1>5, <1>9, <1>16, <2>2
    <3> DEFINE y == cell.x
               c == v.width
    <3>2. s \in Nat /\ y \in Nat /\ c \in Nat /\ a \in Nat /\ w \in Nat /\ b = a + w /\ w > 0
      BY <1>5, <1>9, <1>15, <1>16
    <3>3. y + s <= a /\ b <= c
      BY <2>1, <3>1
    <3> HIDE DEF s, y, c
    <3>4. s + y < c
      BY <3>2, <3>3
    <3>5. QED BY <3>1, <3>4 DEF y, c
  <2>3. CASE wrapMode # "none"
    <3> DEFINE y == cell.x
               c == v.width
    <3>1. x = 0 /\ s \in Nat /\ y \in Nat /\ c \in Nat /\ a \in Nat
      BY <1>5, <1>9, <1>15, <1>16, <2>3
    <3>2. y + s <= a /\ a < s + c
      BY <2>1
    <3> HIDE DEF s, y, c
    <3>3. y < c
      BY <3>1, <3>2
    <3>4. QED BY <3>1, <3>3 DEF y, c
  <2>4. QED BY <2>2, <2>3
<1>18. DrawnIn(vlines, cell, n)
  BY <1>4, <1>6, <1>14, <1>15, <1>17 DEF DrawnIn, got, x
<1>19. QED BY <1>18 DEF vlines

\* What a view was just dragged over is what it has selected.
DragInv ==
    dragged # None =>
      \E p, q \in Points :
        /\ dragged = <<p, q>>
        /\ selection = Span(Offset(VirtualLines, p), Offset(VirtualLines, q))

LEMMA Dragging == Spec => []DragInv
<1>1. Init => DragInv
  BY DEF Init, DragInv
<1>2. ASSUME DragInv, [Next]_vars PROVE DragInv'
  <2>1. ASSUME dragged' = None PROVE DragInv'
    BY <2>1 DEF DragInv
  <2>2. ASSUME Still, UNCHANGED <<selection, dragged>> PROVE DragInv'
    <3>1. SUFFICES ASSUME dragged' # None PROVE DragInv'
      BY <2>1
    <3>2. PICK p, q \in Points :
            /\ dragged = <<p, q>>
            /\ selection = Span(Offset(VirtualLines, p), Offset(VirtualLines, q))
      BY <1>2, <2>2, <3>1 DEF DragInv
    <3>3. /\ Offset(VirtualLines, p)' = Offset(VirtualLines, p)
          /\ Offset(VirtualLines, q)' = Offset(VirtualLines, q)
      BY <2>2, SameOffset
    <3>4. /\ dragged' = <<p, q>>
          /\ selection' = Span(Offset(VirtualLines, p)', Offset(VirtualLines, q)')
      BY <2>2, <3>2, <3>3
    <3>5. QED BY <3>4 DEF DragInv, Span
  <2>3. ASSUME NEW p \in Points, NEW q \in Points, SetLocalSelection(p, q), UNCHANGED bufferVars
        PROVE  DragInv'
    <3>1. Still
      BY <2>3 DEF SetLocalSelection, Still, bufferVars, layoutVars
    <3>2. /\ Offset(VirtualLines, p)' = Offset(VirtualLines, p)
          /\ Offset(VirtualLines, q)' = Offset(VirtualLines, q)
      BY <3>1, SameOffset
    <3>3. \/ dragged' = None
          \/ /\ selection' = Span(Offset(VirtualLines, p), Offset(VirtualLines, q))
             /\ dragged' = <<p, q>>
      BY <2>3 DEF SetLocalSelection
    <3>4. CASE dragged' = None
      BY <2>1, <3>4
    <3>5. CASE /\ selection' = Span(Offset(VirtualLines, p), Offset(VirtualLines, q))
               /\ dragged' = <<p, q>>
      BY <3>2, <3>5 DEF DragInv, Span
    <3>6. QED BY <3>3, <3>4, <3>5
  <2>4. ASSUME Select, UNCHANGED bufferVars PROVE DragInv'
    BY <2>1, <2>3, <2>4
       DEF Select, SetSelection, UpdateSelection, ResetSelection, ResetLocalSelection,
          UpdateLocalSelectionFocusOnly
  <2>5. ASSUME UNCHANGED vars PROVE DragInv'
    BY <2>2, <2>5 DEF vars, viewVars, selectVars, bufferVars, Still
  <2>6. QED BY <1>2, <2>1, <2>4, <2>5 DEF Next
<1>3. QED BY <1>1, <1>2, PTL DEF Spec

LEMMA DragIsRight == BufferTypeOK /\ ViewTypeOK /\ DragInv => DragSelectsBetween
<1> DEFINE vlines == VirtualLines
<1>1. SUFFICES ASSUME BufferTypeOK, ViewTypeOK, DragInv,
                      NEW p \in Points, NEW q \in Points,
                      dragged \in {<<p, q>>, <<q, p>>},
                      ~Before(Place(q), Place(p)),
                      OverText(vlines, Place(p)), OverText(vlines, Place(q)),
                      \A v \in Range(vlines) : ~v.truncated,
                      NEW cell \in Drawn(vlines), cell.width > 0
               PROVE  Selected(cell) <=> /\ ~Before(<<cell.x, cell.y>>, Place(p))
                                         /\ Before(<<cell.x, cell.y>>, Place(q))
  BY DEF DragSelectsBetween
<1>2. WrapSet /\ TextSet /\ TabSet
  BY <1>1 DEF BufferTypeOK, ViewTypeOK, WrapSet, TextSet, TabSet
<1>3. ScrollX \in Nat /\ ScrollY \in Nat
  BY <1>1 DEF ViewTypeOK, ViewportSet, ScrollX, ScrollY
<1>4. Stacked(vlines) /\ \E n : DrawnIn(vlines, cell, n)
  BY <1>1, <1>2, ViewIsStacked, CellsAreDrawnIn
<1> HIDE DEF vlines
<1> DEFINE a == Offset(vlines, p)
           b == Offset(vlines, q)
           key == cell.key
           Skipped == Before(<<cell.x, cell.y>>, Place(p))
           Reached == Before(<<cell.x, cell.y>>, Place(q))
<1>5. p \in Int \X Int /\ q \in Int \X Int
  BY ViewAssumption
<1>6. /\ a \in Nat /\ b \in Nat
      /\ key < a <=> Skipped
      /\ key < b <=> Reached
  BY <1>1, <1>3, <1>4, <1>5, OffsetSplits
<1>7. key \in Int
  BY <1>3, <1>4 DEF DrawnIn, Stacked
<1>8. Skipped => Reached
  <2> DEFINE f == Place(p)
             l == Place(q)
  <2>1. /\ f[1] \in Int /\ f[2] \in Int /\ l[1] \in Int /\ l[2] \in Int
    BY <1>5 DEF Place
  <2>2. cell.x \in Int /\ cell.y \in Int
    BY <1>3, <1>4 DEF DrawnIn, Stacked
  <2>3. ~(l[2] < f[2] \/ (l[2] = f[2] /\ l[1] < f[1]))
    BY <1>1 DEF Before
  <2>4. /\ Skipped <=> cell.y < f[2] \/ (cell.y = f[2] /\ cell.x < f[1])
        /\ Reached <=> cell.y < l[2] \/ (cell.y = l[2] /\ cell.x < l[1])
    BY DEF Before
  <2> HIDE DEF f, l, Skipped, Reached
  <2>5. QED BY <2>1, <2>2, <2>3, <2>4
<1>9. selection = Span(a, b) \/ selection = Span(b, a)
  <2>1. dragged # None
    BY <1>1, ViewAssumption
  <2>2. PICK r, s \in Points : /\ dragged = <<r, s>>
                               /\ selection = Span(Offset(vlines, r), Offset(vlines, s))
    BY <1>1, <2>1 DEF DragInv, vlines
  <2>3. (r = p /\ s = q) \/ (r = q /\ s = p)
    BY <1>1, <2>2
  <2>4. QED BY <2>2, <2>3
<1> HIDE DEF a, b, key, Skipped, Reached
<1> DEFINE from == IF a <= b THEN a ELSE b
           to == IF a >= b THEN a ELSE b
<1>10. selection = [start |-> from, stop |-> to]
  <2>1. /\ Min({a, b}) = from /\ Max({a, b}) = to
        /\ Min({b, a}) = from /\ Max({b, a}) = to
    BY <1>6, EndsOfTwo
  <2> HIDE DEF from, to
  <2>2. QED BY <1>9, <2>1 DEF Span
<1>11. from \in Nat /\ to \in Nat
  BY <1>6
<1>12. Selected(cell) <=> from <= key /\ key < to
  <2> HIDE DEF from, to
  <2>1. selection # None
    BY <1>10, <1>11, ViewAssumption
  <2>2. selection.start = from /\ selection.stop = to
    BY <1>10
  <2>3. QED BY <2>1, <2>2 DEF Selected, key
<1>13. from <= key /\ key < to <=> ~Skipped /\ Reached
  BY <1>6, <1>7, <1>8
<1>14. QED BY <1>12, <1>13 DEF Skipped, Reached

\* Dragging selects the cells between the two cells of the screen it went
\* between, in reading order, across wrapped lines and newlines, wherever the
\* view is scrolled to (SetLocalSelection, CoordsToCharOffset).
THEOREM DragSelects == Spec => []DragSelectsBetween
<1>1. QED BY DragIsRight, Dragging, ViewIsOfBuffer, BufferTypes, ViewTypes, PTL

(***************************************************************************)
(* setStyledText: where a chunk is highlighted, and where its text is      *)
(* drawn.                                                                  *)
(***************************************************************************)
\* The columns of the scalars from a place of a text up to another.
ColumnAt(c, from, i) == Sum([j \in 1..(i - from) |-> StyledWidth(c[from + j - 1])])

LEMMA ColumnsAt ==
    ASSUME TabSet, NEW c, NEW from \in Nat \ {0}
    PROVE  /\ ColumnAt(c, from, from) = 0
           /\ \A i \in Nat : i >= from =>
                /\ ColumnAt(c, from, i) \in Nat /\ StyledWidth(c[i]) \in Nat
                /\ ColumnAt(c, from, i + 1) = ColumnAt(c, from, i) + StyledWidth(c[i])
<1> DEFINE w(m) == [j \in 1..m |-> StyledWidth(c[from + j - 1])]
<1>1. \A s : StyledWidth(s) \in Nat
  BY WidthType DEF StyledWidth, TabSet
<1>2. \A m \in Nat : w(m) \in [1..m -> Nat]
  BY <1>1
<1>3. \A i \in Nat : i >= from => i - from \in Nat /\ ColumnAt(c, from, i) = Sum(w(i - from))
  BY DEF ColumnAt
<1>4. ColumnAt(c, from, from) = 0
  <2>1. w(0) = [k \in {} |-> w(0)[k]] /\ DOMAIN w(0) = {}
    OBVIOUS
  <2>2. from - from = 0 /\ from >= from
    OBVIOUS
  <2> HIDE DEF w
  <2>3. Sum(w(0)) = 0
    BY <2>1, SumOfNone
  <2>4. QED BY <1>3, <2>2, <2>3
<1>5. ASSUME NEW i \in Nat, i >= from
      PROVE  /\ ColumnAt(c, from, i) \in Nat
             /\ ColumnAt(c, from, i + 1) = ColumnAt(c, from, i) + StyledWidth(c[i])
  <2> DEFINE n == i + 1 - from
             s == w(n)
             t == w(n - 1)
  <2>1. n \in Nat \ {0} /\ n - 1 = i - from /\ n - 1 \in Nat /\ n \in 1..n
    BY <1>5
  <2>2. s \in [1..n -> Nat] /\ t \in [1..(n - 1) -> Nat]
    <3> HIDE DEF w, n
    <3>1. QED BY <1>2, <2>1
  <2>3. \A k \in 1..(n - 1) : t[k] = s[k]
    BY <2>1
  <2>4. s[n] = StyledWidth(c[i])
    BY <2>1
  <2>5. ColumnAt(c, from, i) = Sum(t) /\ ColumnAt(c, from, i + 1) = Sum(s)
    BY <1>3, <1>5, <2>1
  <2> HIDE DEF s, t, n
  <2>6. Sum(s) = Sum(t) + s[n]
    BY <2>1, <2>2, <2>3, SumLast
  <2>7. Sum(t) \in Nat
    BY <2>1, <2>2, SumIsNat
  <2>8. QED BY <2>4, <2>5, <2>6, <2>7
<1>6. QED BY <1>1, <1>4, <1>5

\* The lines of a text, each after the one before it.
InRows(lines, c) ==
    /\ Len(lines) \in Nat \ {0} /\ Len(c) \in Nat
    /\ \A k \in 1..Len(lines) :
         /\ lines[k].from \in Nat \ {0} /\ lines[k].to \in Nat
         /\ lines[k].from <= lines[k].to + 1 /\ lines[k].to <= Len(c)
         /\ lines[k].from = 1 \/ c[lines[k].from - 1] = "nl"
         /\ \A i \in lines[k].from..lines[k].to : c[i] # "nl"
         /\ \A j \in 1..Len(lines) : j < k => lines[j].to + 1 < lines[k].from
    /\ lines[1].from = 1
    /\ lines[Len(lines)].to = Len(c)
    /\ \A k \in 1..(Len(lines) - 1) :
         c[lines[k].to + 1] = "nl" /\ lines[k + 1].from = lines[k].to + 2

LEMMA LinesInRows == ASSUME NEW c \in Seq(Scalars) PROVE InRows(ContentLines(c), c)
<1> DEFINE lines == ContentLines(c)
           N == Len(lines)
           L == Len(c)
           from == [k \in 1..N |-> lines[k].from]
           to == [k \in 1..N |-> lines[k].to]
<1>1. Cuts(lines, c) /\ L \in Nat
  BY LinesOfText, LenProperties
<1> HIDE DEF lines, L
<1>2. N \in Nat \ {0} /\ lines \in [1..N -> [from : Nat, to : Nat]]
  BY <1>1 DEF Cuts
<1>3. from \in [1..N -> Nat] /\ to \in [1..N -> Nat]
  BY <1>2
<1>4. \A k \in 1..N : lines[k].from = from[k] /\ lines[k].to = to[k]
  OBVIOUS
<1> HIDE DEF from, to
<1>5. /\ \A k \in 1..N : 1 <= from[k] /\ from[k] <= to[k] + 1
      /\ \A k \in 1..(N - 1) : from[k + 1] = to[k] + 2 /\ c[to[k] + 1] = "nl"
      /\ from[1] = 1 /\ to[N] = L
      /\ \A k \in 1..N : \A i \in from[k]..to[k] : c[i] # "nl"
  <2>1. \A k \in 1..(N - 1) : k \in 1..N /\ k + 1 \in 1..N
    BY <1>2
  <2>2. 1 \in 1..N /\ N \in 1..N
    BY <1>2
  <2>3. /\ \A k \in 1..N : 1 <= lines[k].from /\ lines[k].from <= lines[k].to + 1
        /\ \A k \in 1..(N - 1) : lines[k + 1].from = lines[k].to + 2 /\ c[lines[k].to + 1] = "nl"
        /\ lines[1].from = 1 /\ lines[N].to = L
        /\ \A k \in 1..N : \A i \in lines[k].from..lines[k].to : c[i] # "nl"
    BY <1>1 DEF Cuts, L
  <2> HIDE DEF N
  <2>4. QED BY <1>4, <2>1, <2>2, <2>3
<1> HIDE DEF N
<1>6. \A k \in 0..N : \A j \in 1..N : j < k => to[j] + 1 < from[k]
  <2> DEFINE S == {k \in 0..N : \A j \in 1..N : j < k => to[j] + 1 < from[k]}
  <2>1. 0 \in S
    BY <1>2
  <2>2. ASSUME NEW k \in 1..N, k - 1 \in S PROVE k \in S
    <3>1. SUFFICES ASSUME NEW j \in 1..N, j < k PROVE to[j] + 1 < from[k]
      BY <2>2
    <3>2. k - 1 \in 1..N /\ k - 1 \in 1..(N - 1) /\ (k - 1) + 1 = k
      BY <1>2, <3>1
    <3>3. from[k] = to[k - 1] + 2 /\ from[k - 1] <= to[k - 1] + 1 /\ to[k - 1] \in Nat
      BY <1>3, <1>5, <3>2
    <3>4. CASE j = k - 1
      BY <3>3, <3>4
    <3>5. CASE j < k - 1
      BY <1>3, <2>2, <3>2, <3>3, <3>5, SMTT(20)
    <3>6. QED BY <1>2, <3>1, <3>4, <3>5
  <2> HIDE DEF S
  <2>3. \A k \in 0..N : k \in S
    BY <1>2, <2>1, <2>2, Induction
  <2>4. QED BY <2>3 DEF S
<1>7. \A k \in 1..N : to[k] <= L
  <2>1. SUFFICES ASSUME NEW k \in 1..N, k < N PROVE to[k] <= L
    BY <1>1, <1>2, <1>5
  <2>2. to[k] + 1 < from[N] /\ from[N] <= to[N] + 1 /\ N \in 1..N
    BY <1>2, <1>5, <1>6, <2>1
  <2>3. to[N] = L /\ to[k] \in Nat /\ from[N] \in Nat
    BY <1>3, <1>5, <2>2
  <2>4. QED BY <1>1, <2>2, <2>3
<1>8. \A k \in 1..N : from[k] = 1 \/ c[from[k] - 1] = "nl"
  <2>1. SUFFICES ASSUME NEW k \in 1..N, k # 1 PROVE c[from[k] - 1] = "nl"
    BY <1>5
  <2>2. k - 1 \in 1..(N - 1) /\ k - 1 \in 1..N /\ (k - 1) + 1 = k
    BY <1>2, <2>1
  <2>3. from[k] = to[k - 1] + 2 /\ c[to[k - 1] + 1] = "nl" /\ to[k - 1] \in Nat
    BY <1>3, <1>5, <2>2
  <2>4. from[k] - 1 = to[k - 1] + 1
    BY <2>3
  <2>5. QED BY <2>3, <2>4
<1>9. \A k \in 1..(N - 1) : k \in 1..N /\ k + 1 \in 1..N
  BY <1>2
<1>10. \A k \in 1..N : from[k] \in Nat \ {0} /\ to[k] \in Nat
  BY <1>3, <1>5
<1>11. 1 \in 1..N /\ N \in 1..N
  BY <1>2
<1>12. \A k \in 1..N :
         /\ lines[k].from \in Nat \ {0} /\ lines[k].to \in Nat
         /\ lines[k].from <= lines[k].to + 1 /\ lines[k].to <= L
         /\ lines[k].from = 1 \/ c[lines[k].from - 1] = "nl"
         /\ \A i \in lines[k].from..lines[k].to : c[i] # "nl"
  BY <1>4, <1>5, <1>7, <1>8, <1>10
<1>13. \A k \in 1..N : \A j \in 1..N : j < k => lines[j].to + 1 < lines[k].from
  <2>1. \A k \in 1..N : k \in 0..N
    BY <1>2
  <2>2. QED BY <1>4, <1>6, <2>1
<1>14. lines[1].from = 1 /\ lines[N].to = L
  BY <1>4, <1>5, <1>11
<1>15. \A k \in 1..(N - 1) : c[lines[k].to + 1] = "nl" /\ lines[k + 1].from = lines[k].to + 2
  BY <1>4, <1>5, <1>9
<1>16. QED BY <1>1, <1>2, <1>12, <1>13, <1>14, <1>15 DEF InRows, N, L, lines

\* A column of a line that some highlights of setStyledText are on.
ShownAt(hls, l, x) ==
    \E k \in 1..Len(hls) :
      hls[k].kind = "styled" /\ hls[k].line = l /\ hls[k].start <= x /\ x < hls[k].stop

\* A scalar's columns, and those of the scalars of a line that are in a set,
\* of the first m scalars of the text.
Paints(c, from, i, x) ==
    ColumnAt(c, from, i) <= x /\ x < ColumnAt(c, from, i) + StyledWidth(c[i])

WantedAt(c, on, l, x, m) ==
    LET line == ContentLines(c)[l + 1]
    IN \E i \in on : i <= m /\ i \in line.from..line.to /\ Paints(c, line.from, i, x)

\* The line and column after the first m scalars of the text.
StandsAt(c, line, col, m) ==
    LET lines == ContentLines(c)
    IN /\ line \in Nat /\ line + 1 \in 1..Len(lines)
       /\ m \in Nat /\ m + 1 \in lines[line + 1].from..(lines[line + 1].to + 1)
       /\ col = ColumnAt(c, lines[line + 1].from, m + 1)

LineNumbers(c) == 0..(Len(ContentLines(c)) - 1)

\* setStyledText within a chunk, and between two: the columns highlighted are
\* those of the coloured scalars among the first m.
Within(c, on, at, colored, m) ==
    /\ at \in At /\ StandsAt(c, at.line, at.col, m) /\ at.seg <= at.col
    /\ \A l \in LineNumbers(c), x \in Int :
         (ShownAt(at.hls, l, x) \/ (colored /\ l = at.line /\ at.seg <= x /\ x < at.col))
           <=> WantedAt(c, on, l, x, m)

Between(c, on, acc, m) ==
    /\ acc \in Styled /\ StandsAt(c, acc.line, acc.col, m)
    /\ \A l \in LineNumbers(c), x \in Int :
         ShownAt(acc.hls, l, x) <=> WantedAt(c, on, l, x, m)

\* A highlight that is added shows on its columns.
LEMMA SegmentShows ==
    ASSUME NEW at \in At, NEW k \in Nat, NEW chunk \in Chunks, NEW l, NEW x \in Int
    PROVE  ShownAt(Segment(at, k, chunk), l, x)
             <=> \/ ShownAt(at.hls, l, x)
                 \/ chunk.colored /\ l = at.line /\ at.seg <= x /\ x < at.col
<1> DEFINE one == StyledHighlight(at, k)
           hls == at.hls
           more == Append(hls, one)
           n == Len(hls)
<1>1. hls \in Seq(Kept) /\ at.col \in Nat /\ at.seg \in Nat
  BY DEF At
<1>2. n \in Nat
  BY <1>1, LenProperties
<1>3. CASE chunk.colored /\ at.col > at.seg
  <2>1. one \in Kept
    BY <1>3 DEF StyledHighlight, Kept, At
  <2>2. one.kind = "styled" /\ one.line = at.line /\ one.start = at.seg /\ one.stop = at.col
    BY DEF StyledHighlight
  <2>3. Segment(at, k, chunk) = more
    BY <1>3 DEF Segment
  <2> HIDE DEF one, hls
  <2>4. /\ Len(more) = n + 1 /\ \A i \in 1..n : more[i] = hls[i]
        /\ more[n + 1] = one
    BY <1>1, <2>1, AppendProperties
  <2>5. \A i : i \in 1..Len(more) <=> (i \in 1..n \/ i = n + 1)
    BY <1>2, <2>4
  <2> HIDE DEF more, n
  <2>6. ShownAt(more, l, x)
          <=> \/ \E i \in 1..n : /\ hls[i].kind = "styled" /\ hls[i].line = l
                                 /\ hls[i].start <= x /\ x < hls[i].stop
              \/ one.kind = "styled" /\ one.line = l /\ one.start <= x /\ x < one.stop
    BY <2>4, <2>5, Zenon DEF ShownAt
  <2>7. QED BY <1>3, <2>2, <2>3, <2>6 DEF ShownAt, n, hls
<1>4. CASE ~(chunk.colored /\ at.col > at.seg)
  BY <1>1, <1>4 DEF Segment
<1>5. QED BY <1>3, <1>4

\* The scalar after the first m: a newline ends the line, another has its
\* columns in it, and in no other line.
LEMMA NextWanted ==
    ASSUME NEW c \in Seq(Scalars), NEW on \in SUBSET (1..Len(c)),
           NEW line, NEW col, NEW m \in 0..(Len(c) - 1), StandsAt(c, line, col, m)
    PROVE  LET lines == ContentLines(c)
               from == lines[line + 1].from
               i == m + 1
           IN /\ i \in Nat /\ from \in Nat \ {0} /\ from <= i
              /\ c[i] = "nl" =>
                   /\ line + 2 \in 1..Len(lines)
                   /\ lines[line + 2].from = i + 1
                   /\ \A l \in LineNumbers(c), x \in Int :
                        WantedAt(c, on, l, x, i) <=> WantedAt(c, on, l, x, m)
              /\ c[i] # "nl" =>
                   /\ i + 1 \in from..(lines[line + 1].to + 1)
                   /\ \A l \in LineNumbers(c), x \in Int :
                        WantedAt(c, on, l, x, i)
                          <=> \/ WantedAt(c, on, l, x, m)
                              \/ i \in on /\ l = line /\ Paints(c, from, i, x)
<1> DEFINE lines == ContentLines(c)
           N == Len(lines)
           L == Len(c)
           from == lines[line + 1].from
           to == lines[line + 1].to
           i == m + 1
<1>1. InRows(lines, c)
  BY LinesInRows
<1>2. line \in Nat /\ line + 1 \in 1..N /\ i \in from..(to + 1)
  BY DEF StandsAt
<1>3. i \in Nat /\ m \in Nat /\ i \in 1..L /\ L \in Nat
  BY LenProperties
<1> HIDE DEF lines, i, L
<1>4. N \in Nat \ {0} /\ from \in Nat \ {0} /\ to \in Nat /\ to <= L
  BY <1>1, <1>2 DEF InRows, L
<1>5. \A l \in LineNumbers(c) : l \in Nat /\ l + 1 \in 1..N
  BY <1>4 DEF LineNumbers, lines
<1>6. \A l \in LineNumbers(c), x \in Int :
        WantedAt(c, on, l, x, i)
          <=> \/ WantedAt(c, on, l, x, m)
              \/ i \in on /\ i \in lines[l + 1].from..lines[l + 1].to
                 /\ Paints(c, lines[l + 1].from, i, x)
  <2>1. \A j \in on : j <= i <=> (j <= m \/ j = i)
    BY <1>3 DEF i
  <2>2. i <= i
    BY <1>3
  <2>3. QED BY <2>1, <2>2, Zenon DEF WantedAt, lines
<1>7. ASSUME c[i] = "nl"
      PROVE  /\ line + 2 \in 1..N /\ lines[line + 2].from = i + 1
             /\ \A l \in LineNumbers(c) : i \notin lines[l + 1].from..lines[l + 1].to
  <2>1. \A l \in LineNumbers(c) : i \notin lines[l + 1].from..lines[l + 1].to
    BY <1>1, <1>5, <1>7 DEF InRows
  <2>2. \A j \in from..to : c[j] # "nl"
    BY <1>1, <1>2 DEF InRows
  <2>3. i = to + 1
    <3> HIDE DEF N, from, to
    <3>1. i \notin from..to
      BY <1>7, <2>2
    <3>2. QED BY <1>2, <1>3, <1>4, <3>1
  <2>4. line + 1 # N
    BY <1>1, <1>3, <1>4, <2>3 DEF InRows, L
  <2>5. line + 1 \in 1..(N - 1) /\ (line + 1) + 1 = line + 2 /\ line + 2 \in 1..N
    BY <1>2, <1>4, <2>4
  <2>6. lines[line + 2].from = to + 2
    BY <1>1, <2>5 DEF InRows
  <2>7. QED BY <1>4, <2>1, <2>3, <2>5, <2>6
<1>8. ASSUME c[i] # "nl"
      PROVE  /\ i + 1 \in from..(to + 1) /\ i \in from..to
             /\ \A l \in LineNumbers(c) : i \in lines[l + 1].from..lines[l + 1].to <=> l = line
  <2>1. i # to + 1
    <3>1. CASE line + 1 = N
      BY <1>1, <1>3, <3>1 DEF InRows, L
    <3>2. CASE line + 1 # N
      <4>1. line + 1 \in 1..(N - 1)
        BY <1>2, <1>4, <3>2
      <4>2. c[to + 1] = "nl"
        BY <1>1, <4>1 DEF InRows
      <4>3. QED BY <1>8, <4>2
    <3>3. QED BY <3>1, <3>2
  <2>2. i \in from..to /\ i + 1 \in from..(to + 1)
    <3> HIDE DEF N, from, to
    <3>1. QED BY <1>2, <1>3, <1>4, <2>1
  <2>3. ASSUME NEW l \in LineNumbers(c), l # line PROVE i \notin lines[l + 1].from..lines[l + 1].to
    <3>1. l \in Nat /\ l + 1 \in 1..N
      BY <1>5
    <3> DEFINE a == lines[l + 1].from
               b == lines[l + 1].to
    <3>2. a \in Nat /\ b \in Nat
      BY <1>1, <3>1 DEF InRows
    <3>3. l + 1 < line + 1 => b + 1 < from
      BY <1>1, <1>2, <3>1 DEF InRows
    <3>4. line + 1 < l + 1 => to + 1 < a
      BY <1>1, <1>2, <3>1 DEF InRows
    <3> HIDE DEF a, b, from, to
    <3>5. i \notin a..b
      BY <1>2, <1>3, <1>4, <2>2, <2>3, <3>1, <3>2, <3>3, <3>4
    <3>6. QED BY <3>5 DEF a, b
  <2>4. QED BY <2>2, <2>3
<1> HIDE DEF from, to
<1>9. c[i] = "nl" => /\ line + 2 \in 1..N
                     /\ lines[line + 2].from = i + 1
                     /\ \A l \in LineNumbers(c), x \in Int :
                          WantedAt(c, on, l, x, i) <=> WantedAt(c, on, l, x, m)
  BY <1>6, <1>7, Zenon
<1>10. c[i] # "nl" => /\ i + 1 \in from..(to + 1)
                      /\ \A l \in LineNumbers(c), x \in Int :
                           WantedAt(c, on, l, x, i)
                             <=> \/ WantedAt(c, on, l, x, m)
                                 \/ i \in on /\ l = line /\ Paints(c, from, i, x)
  <2>1. SUFFICES ASSUME c[i] # "nl", NEW l \in LineNumbers(c), NEW x \in Int
                 PROVE  WantedAt(c, on, l, x, i)
                          <=> \/ WantedAt(c, on, l, x, m)
                              \/ i \in on /\ l = line /\ Paints(c, from, i, x)
    BY <1>8
  <2>2. l = line => lines[l + 1].from = from
    BY DEF from
  <2>3. QED BY <1>6, <1>8, <2>1, <2>2, Zenon
<1>11. from <= i
  BY <1>2, <1>3, <1>4
<1>12. QED BY <1>3, <1>4, <1>9, <1>10, <1>11 DEF i, from, to, lines

\* A scalar of a chunk.
LEMMA ScalarWithin ==
    ASSUME TabSet, NEW c \in Seq(Scalars), NEW on \in SUBSET (1..Len(c)),
           NEW k \in Nat, NEW chunk \in Chunks, NEW at, NEW m \in 0..(Len(c) - 1),
           Within(c, on, at, chunk.colored, m), m + 1 \in on <=> chunk.colored
    PROVE  Within(c, on, StyledScalar(at, k, chunk, c[m + 1]), chunk.colored, m + 1)
<1> DEFINE i == m + 1
           lines == ContentLines(c)
           from == lines[at.line + 1].from
           next == StyledScalar(at, k, chunk, c[i])
<1>1. at \in At /\ StandsAt(c, at.line, at.col, m) /\ at.seg <= at.col
  BY DEF Within
<1>2. /\ i \in Nat /\ from \in Nat \ {0} /\ from <= i
      /\ c[i] = "nl" =>
           /\ at.line + 2 \in 1..Len(lines)
           /\ lines[at.line + 2].from = i + 1
           /\ \A l \in LineNumbers(c), x \in Int :
                WantedAt(c, on, l, x, i) <=> WantedAt(c, on, l, x, m)
      /\ c[i] # "nl" =>
           /\ i + 1 \in from..(lines[at.line + 1].to + 1)
           /\ \A l \in LineNumbers(c), x \in Int :
                WantedAt(c, on, l, x, i)
                  <=> \/ WantedAt(c, on, l, x, m)
                      \/ i \in on /\ l = at.line /\ Paints(c, from, i, x)
  BY <1>1, NextWanted
<1>3. next \in At
  BY <1>1, StyledScalarType DEF TabSet
<1>4. at.line \in Nat /\ at.col \in Nat /\ at.seg \in Nat /\ m \in Nat
  BY <1>1, LenProperties DEF At
<1>5. /\ at.line + 1 \in 1..Len(lines) /\ at.col = ColumnAt(c, from, i)
  BY <1>1 DEF StandsAt
<1>6. \A l \in LineNumbers(c), x \in Int :
        (ShownAt(at.hls, l, x) \/ (chunk.colored /\ l = at.line /\ at.seg <= x /\ x < at.col))
          <=> WantedAt(c, on, l, x, m)
  BY DEF Within
<1>7. CASE c[i] = "nl"
  <2>1. next = [line |-> at.line + 1, col |-> 0, seg |-> 0, hls |-> Segment(at, k, chunk)]
    BY <1>7 DEF StyledScalar
  <2>2. next.line = at.line + 1 /\ next.col = 0 /\ next.seg = 0 /\ next.hls = Segment(at, k, chunk)
    BY <2>1
  <2>3. StandsAt(c, at.line + 1, 0, i)
    <3> DEFINE n == at.line + 2
    <3>1. n \in 1..Len(lines) /\ lines[n].from = i + 1
      BY <1>2, <1>7
    <3>2. lines[n].from \in Nat \ {0} /\ lines[n].to \in Nat /\ lines[n].from <= lines[n].to + 1
      BY <3>1, LinesInRows DEF InRows
    <3>3. ColumnAt(c, i + 1, i + 1) = 0
      BY <1>2, ColumnsAt
    <3>4. (at.line + 1) + 1 = n /\ at.line + 1 \in Nat
      BY <1>4
    <3> HIDE DEF n, lines, i
    <3>5. i + 1 \in lines[n].from..(lines[n].to + 1)
      BY <1>2, <3>1, <3>2
    <3>6. QED BY <1>2, <3>1, <3>3, <3>4, <3>5 DEF StandsAt, lines
  <2> HIDE DEF next, i
  <2>4. ASSUME NEW l \in LineNumbers(c), NEW x \in Int
        PROVE  (ShownAt(next.hls, l, x)
                 \/ (chunk.colored /\ l = next.line /\ next.seg <= x /\ x < next.col))
                 <=> WantedAt(c, on, l, x, i)
    <3>1. ~(next.seg <= x /\ x < next.col)
      BY <2>2
    <3>2. ShownAt(next.hls, l, x)
            <=> \/ ShownAt(at.hls, l, x)
                \/ chunk.colored /\ l = at.line /\ at.seg <= x /\ x < at.col
      BY <1>1, <2>2, SegmentShows
    <3>3. WantedAt(c, on, l, x, i) <=> WantedAt(c, on, l, x, m)
      BY <1>2, <1>7
    <3>4. QED BY <1>6, <3>1, <3>2, <3>3, Zenon
  <2>5. next.seg <= next.col /\ StandsAt(c, next.line, next.col, i)
    BY <2>2, <2>3
  <2>6. Within(c, on, next, chunk.colored, i)
    BY <1>3, <2>4, <2>5 DEF Within
  <2>7. QED BY <2>6 DEF next, i
<1>8. CASE c[i] # "nl"
  <2> DEFINE w == StyledWidth(c[i])
  <2>1. next = [at EXCEPT !.col = at.col + w]
    BY <1>1, <1>8 DEF StyledScalar, At
  <2>2. next.line = at.line /\ next.col = at.col + w /\ next.seg = at.seg /\ next.hls = at.hls
    BY <1>1, <2>1 DEF At
  <2>3. /\ ColumnAt(c, from, i) \in Nat /\ w \in Nat
        /\ ColumnAt(c, from, i + 1) = ColumnAt(c, from, i) + w
    BY <1>2, ColumnsAt
  <2> HIDE DEF next, w, i
  <2>4. StandsAt(c, at.line, next.col, i)
    BY <1>2, <1>4, <1>5, <1>8, <2>2, <2>3 DEF StandsAt
  <2>5. next.seg <= next.col
    BY <1>1, <1>4, <2>2, <2>3
  <2>6. ASSUME NEW l \in LineNumbers(c), NEW x \in Int
        PROVE  (ShownAt(next.hls, l, x)
                 \/ (chunk.colored /\ l = next.line /\ next.seg <= x /\ x < next.col))
                 <=> WantedAt(c, on, l, x, i)
    <3>1. at.seg <= x /\ x < at.col + w
            <=> (at.seg <= x /\ x < at.col) \/ (at.col <= x /\ x < at.col + w)
      BY <1>1, <1>4, <2>3
    <3>2. Paints(c, from, i, x) <=> at.col <= x /\ x < at.col + w
      BY <1>5 DEF Paints, w
    <3>3. WantedAt(c, on, l, x, i)
            <=> \/ WantedAt(c, on, l, x, m)
                \/ i \in on /\ l = at.line /\ Paints(c, from, i, x)
      BY <1>2, <1>8
    <3>4. i \in on <=> chunk.colored
      BY DEF i
    <3>5. ShownAt(at.hls, l, x) \/ (chunk.colored /\ l = at.line /\ at.seg <= x /\ x < at.col)
            <=> WantedAt(c, on, l, x, m)
      BY <1>6
    <3>6. ShownAt(next.hls, l, x) <=> ShownAt(at.hls, l, x)
      BY <2>2
    <3>7. chunk.colored /\ l = next.line /\ next.seg <= x /\ x < next.col
            <=> chunk.colored /\ l = at.line /\ at.seg <= x /\ x < at.col + w
      BY <2>2
    <3>8. QED BY <3>1, <3>2, <3>3, <3>4, <3>5, <3>6, <3>7, Zenon
  <2>7. StandsAt(c, next.line, next.col, i)
    BY <2>2, <2>4
  <2>8. Within(c, on, next, chunk.colored, i)
    BY <1>3, <2>5, <2>6, <2>7 DEF Within
  <2>9. QED BY <2>8 DEF next, i
<1>9. QED BY <1>7, <1>8

\* A chunk of the text, from place b on.
LEMMA ChunkBetween ==
    ASSUME TabSet, NEW c \in Seq(Scalars), NEW on \in SUBSET (1..Len(c)),
           NEW k \in Nat, NEW chunk \in Chunks, NEW acc, NEW b \in Nat,
           Between(c, on, acc, b),
           NEW norm, norm = NormalizeCrlf(chunk.text), b + Len(norm) <= Len(c),
           \A i \in 1..Len(norm) : c[b + i] = norm[i] /\ (b + i \in on <=> chunk.colored)
    PROVE  Between(c, on, StyledChunk(acc, k, chunk), b + Len(norm))
<1> DEFINE base == [line |-> acc.line, col |-> acc.col, seg |-> acc.col, hls |-> acc.hls]
           at == ScalarsFold(base, k, chunk, norm)
           N == Len(norm)
           next == StyledChunk(acc, k, chunk)
<1>1. norm \in Seq(Scalars) /\ N \in Nat /\ Len(c) \in Nat
  BY NormalizeType, LenProperties DEF Chunks
<1>2. acc \in Styled /\ base \in At
  BY DEF Between, Styled, At
<1>3. /\ next.line = at.line /\ next.col = at.col /\ next.hls = Segment(at, k, chunk)
      /\ next \in Styled
  BY <1>2, StyledChunkType DEF StyledChunk, ScalarsFold, TabSet
<1> HIDE DEF N
<1>4. Within(c, on, base, chunk.colored, b)
  <2>1. base.line = acc.line /\ base.col = acc.col /\ base.seg = acc.col /\ base.hls = acc.hls
    OBVIOUS
  <2>2. acc.col \in Nat
    BY <1>2 DEF Styled
  <2> HIDE DEF base
  <2>3. StandsAt(c, base.line, base.col, b) /\ base.seg <= base.col
    BY <2>1, <2>2 DEF Between
  <2>4. ASSUME NEW l \in LineNumbers(c), NEW x \in Int
        PROVE  (ShownAt(base.hls, l, x)
                 \/ (chunk.colored /\ l = base.line /\ base.seg <= x /\ x < base.col))
                 <=> WantedAt(c, on, l, x, b)
    BY <2>1, <2>2 DEF Between
  <2>5. QED BY <1>2, <2>3, <2>4 DEF Within
<1> HIDE DEF base, next
<1>5. PICK g : ScalarsTrace(g, base, k, chunk, norm)
  BY <1>1, <1>2, ScalarsFolds DEF TabSet
<1>6. Within(c, on, at, chunk.colored, b + N)
  <2> DEFINE S == {i \in 0..N : Within(c, on, g[i], chunk.colored, b + i)}
  <2>1. g[0] = base /\ g[N] = at /\ \A i \in 1..N : g[i] = StyledScalar(g[i - 1], k, chunk, norm[i])
    BY <1>5 DEF ScalarsTrace, N
  <2> HIDE DEF at
  <2>2. 0 \in S
    BY <1>1, <1>4, <2>1
  <2>3. ASSUME NEW i \in 1..N, i - 1 \in S PROVE i \in S
    <3> DEFINE m == b + (i - 1)
    <3>1. m \in 0..(Len(c) - 1) /\ m + 1 = b + i
      BY <1>1 DEF N
    <3>2. Within(c, on, g[i - 1], chunk.colored, m)
      BY <2>3
    <3>3. c[m + 1] = norm[i] /\ (m + 1 \in on <=> chunk.colored)
      BY <3>1 DEF N
    <3> HIDE DEF m
    <3>4. Within(c, on, StyledScalar(g[i - 1], k, chunk, c[m + 1]), chunk.colored, m + 1)
      BY <3>1, <3>2, <3>3, ScalarWithin
    <3>5. g[i] = StyledScalar(g[i - 1], k, chunk, norm[i])
      BY <2>1
    <3>6. Within(c, on, g[i], chunk.colored, b + i)
      BY <3>1, <3>3, <3>4, <3>5
    <3>7. i \in 0..N
      BY <1>1
    <3>8. QED BY <3>6, <3>7
  <2> HIDE DEF S
  <2>4. \A i \in 0..N : i \in S
    BY <1>1, <2>2, <2>3, Induction
  <2>5. N \in S
    BY <1>1, <2>4
  <2>6. QED BY <2>1, <2>5 DEF S
<1> HIDE DEF at
<1>7. at \in At /\ StandsAt(c, at.line, at.col, b + N)
  BY <1>6 DEF Within
<1>8. ASSUME NEW l \in LineNumbers(c), NEW x \in Int
      PROVE  ShownAt(next.hls, l, x) <=> WantedAt(c, on, l, x, b + N)
  BY <1>3, <1>6, <1>7, SegmentShows DEF Within
<1>9. StandsAt(c, next.line, next.col, b + N)
  BY <1>3, <1>7
<1>10. Between(c, on, next, b + N)
  BY <1>3, <1>8, <1>9 DEF Between
<1>11. QED BY <1>10 DEF next, N

\* The texts of some chunks, the scalars before one, and those coloured.
Norms(chunks) == [k \in DOMAIN chunks |-> NormalizeCrlf(chunks[k].text)]
ScalarsBefore(chunks, k) == Sum([j \in 1..(k - 1) |-> Len(Norms(chunks)[j])])
ColouredOf(c, chunks) ==
    {i \in DOMAIN c : \E k \in DOMAIN chunks :
                        /\ chunks[k].colored
                        /\ ScalarsBefore(chunks, k) < i
                        /\ i <= ScalarsBefore(chunks, k) + Len(Norms(chunks)[k])}

\* A chunk's scalars are those of the text from its place on, and the chunks
\* do not overlap.
InPlace(c, chunks) ==
    \A k \in 1..Len(chunks) :
      LET norm == Norms(chunks)[k]
          b == ScalarsBefore(chunks, k)
      IN /\ norm \in Seq(Scalars) /\ Len(norm) \in Nat /\ b \in Nat /\ b + Len(norm) <= Len(c)
         /\ \A i \in 1..Len(norm) : c[b + i] = norm[i]
         /\ \A j \in 1..Len(chunks) :
              j < k => ScalarsBefore(chunks, j) + Len(Norms(chunks)[j]) <= b

LEMMA NormsAre ==
    ASSUME NEW chunks \in Seq(Chunks)
    PROVE  /\ Len(chunks) \in Nat /\ DOMAIN chunks = 1..Len(chunks)
           /\ \A k \in 1..Len(chunks) :
                /\ chunks[k] \in Chunks /\ Norms(chunks)[k] = NormalizeCrlf(chunks[k].text)
                /\ Norms(chunks)[k] \in Seq(Scalars) /\ Len(Norms(chunks)[k]) \in Nat
<1>1. Len(chunks) \in Nat /\ DOMAIN chunks = 1..Len(chunks)
  BY LenProperties
<1>2. ASSUME NEW k \in 1..Len(chunks)
      PROVE  /\ chunks[k] \in Chunks /\ Norms(chunks)[k] = NormalizeCrlf(chunks[k].text)
             /\ Norms(chunks)[k] \in Seq(Scalars) /\ Len(Norms(chunks)[k]) \in Nat
  <2>1. chunks[k] \in Chunks
    BY ElementOfSeq
  <2>2. Norms(chunks)[k] = NormalizeCrlf(chunks[k].text)
    BY <1>1 DEF Norms
  <2>3. NormalizeCrlf(chunks[k].text) \in Seq(Scalars)
    BY <2>1, NormalizeType DEF Chunks
  <2>4. QED BY <2>1, <2>2, <2>3, LenProperties
<1>3. QED BY <1>1, <1>2

\* The texts of the chunks so far, of which each starts with the one before.
TextsOf(f, chunks) ==
    /\ f \in [0..Len(chunks) -> Seq(Scalars)] /\ f[0] = <<>>
    /\ \A k \in 1..Len(chunks) : f[k] = f[k - 1] \o Norms(chunks)[k]

LEMMA TextsInPlace ==
    ASSUME NEW chunks \in Seq(Chunks), NEW f, TextsOf(f, chunks)
    PROVE  InPlace(f[Len(chunks)], chunks) /\ ScalarsBefore(chunks, 1) = 0
           /\ \A k \in 1..Len(chunks) :
                ScalarsBefore(chunks, k + 1)
                  = ScalarsBefore(chunks, k) + Len(Norms(chunks)[k])
           /\ ScalarsBefore(chunks, Len(chunks) + 1) = Len(f[Len(chunks)])
<1> DEFINE K == Len(chunks)
           n(k) == Len(Norms(chunks)[k])
           B(k) == ScalarsBefore(chunks, k)
           w(k) == [j \in 1..k |-> n(j)]
<1>1. K \in Nat /\ \A k \in 1..K : Norms(chunks)[k] \in Seq(Scalars) /\ n(k) \in Nat
  BY NormsAre
<1>2. f \in [0..K -> Seq(Scalars)] /\ f[0] = <<>> /\ \A k \in 1..K : f[k] = f[k - 1] \o Norms(chunks)[k]
  BY DEF TextsOf
<1>3. \A k \in 0..K : f[k] \in Seq(Scalars) /\ Len(f[k]) \in Nat
  BY <1>2, LenProperties
<1>4. \A k \in 0..K : B(k + 1) = Sum(w(k))
  BY <1>1 DEF ScalarsBefore
<1> HIDE DEF K
<1>5. ASSUME NEW k \in 1..K
      PROVE  /\ f[k - 1] \in Seq(Scalars) /\ Len(f[k - 1]) \in Nat
             /\ Len(f[k]) = Len(f[k - 1]) + n(k)
             /\ \A i \in 1..(Len(f[k - 1]) + n(k)) :
                  f[k][i] = IF i <= Len(f[k - 1]) THEN f[k - 1][i]
                            ELSE Norms(chunks)[k][i - Len(f[k - 1])]
  <2>1. k - 1 \in 0..K
    BY <1>1
  <2>2. f[k - 1] \in Seq(Scalars) /\ f[k] = f[k - 1] \o Norms(chunks)[k]
    BY <1>2, <2>1
  <2> DEFINE a == f[k - 1]
             b == Norms(chunks)[k]
  <2>3. a \in Seq(Scalars) /\ b \in Seq(Scalars) /\ f[k] = a \o b /\ Len(a) \in Nat
    BY <1>1, <1>3, <2>1, <2>2
  <2> HIDE DEF a, b
  <2>4. /\ Len(a \o b) = Len(a) + Len(b)
        /\ \A i \in 1..(Len(a) + Len(b)) :
              (a \o b)[i] = IF i <= Len(a) THEN a[i] ELSE b[i - Len(a)]
    BY <2>3, ConcatProperties
  <2>5. /\ Len(f[k]) = Len(a) + Len(b)
        /\ \A i \in 1..(Len(a) + Len(b)) :
              f[k][i] = IF i <= Len(a) THEN a[i] ELSE b[i - Len(a)]
    BY <2>3, <2>4, Zenon
  <2>6. QED BY <2>3, <2>5 DEF a, b
<1>6. B(1) = 0
  <2>1. w(0) = [j \in {} |-> w(0)[j]] /\ DOMAIN w(0) = {}
    OBVIOUS
  <2> HIDE DEF w
  <2>2. Sum(w(0)) = 0 /\ 0 \in 0..K
    BY <1>1, <2>1, SumOfNone
  <2>3. B(0 + 1) = Sum(w(0))
    BY <1>4, <2>2
  <2>4. 0 + 1 = 1
    OBVIOUS
  <2> HIDE DEF B
  <2>5. QED BY <2>2, <2>3, <2>4
<1>7. ASSUME NEW k \in 1..K PROVE B(k + 1) = B(k) + n(k)
  <2> DEFINE s == w(k)
             t == w(k - 1)
  <2>1. k \in Nat \ {0} /\ s \in [1..k -> Nat] /\ t \in [1..(k - 1) -> Nat]
    <3>1. k \in Nat \ {0} /\ 1..k \subseteq 1..K /\ 1..(k - 1) \subseteq 1..K
      BY <1>1
    <3> HIDE DEF n
    <3>2. QED BY <1>1, <3>1
  <2>2. (\A j \in 1..(k - 1) : t[j] = s[j]) /\ s[k] = n(k)
    BY <2>1
  <2>3. B(k + 1) = Sum(s) /\ B(k) = Sum(t)
    <3>1. k \in 0..K /\ k - 1 \in 0..K /\ (k - 1) + 1 = k
      BY <1>1
    <3>2. B(k + 1) = Sum(w(k)) /\ B((k - 1) + 1) = Sum(w(k - 1))
      BY <1>4, <3>1
    <3> HIDE DEF B, w
    <3>3. QED BY <3>1, <3>2
  <2> HIDE DEF s, t, B, n
  <2>4. QED BY <2>1, <2>2, <2>3, SumLast
<1> HIDE DEF B, n, w
<1>8. \A k \in 0..K : B(k + 1) = Len(f[k])
  <2> DEFINE S == {k \in 0..K : B(k + 1) = Len(f[k])}
  <2>1. 0 \in S
    BY <1>1, <1>2, <1>6
  <2>2. ASSUME NEW k \in 1..K, k - 1 \in S PROVE k \in S
    BY <1>1, <1>5, <1>7, <2>2
  <2> HIDE DEF S
  <2>3. \A k \in 0..K : k \in S
    BY <1>1, <2>1, <2>2, Induction
  <2>4. QED BY <2>3 DEF S
<1>9. ASSUME NEW j \in 0..K
      PROVE  \A k \in 0..K : k >= j => /\ Len(f[j]) <= Len(f[k])
                                       /\ \A i \in 1..Len(f[j]) : f[k][i] = f[j][i]
  <2> DEFINE P(k) == /\ Len(f[j]) <= Len(f[k])
                     /\ \A i \in 1..Len(f[j]) : f[k][i] = f[j][i]
             S == {k \in 0..K : k >= j => P(k)}
  <2>1. P(j)
    BY <1>3
  <2>2. 0 \in S
    <3>1. 0 >= j => j = 0
      BY <1>1
    <3>2. 0 \in 0..K
      BY <1>1
    <3> HIDE DEF P
    <3>3. QED BY <2>1, <3>1, <3>2
  <2>3. ASSUME NEW k \in 1..K, k - 1 \in S PROVE k \in S
    <3>1. k \in 0..K /\ k - 1 \in 0..K
      BY <1>1
    <3>2. CASE k = j
      <4> HIDE DEF P
      <4>1. QED BY <2>1, <3>1, <3>2
    <3>3. CASE k < j
      <4>1. ~(k >= j)
        BY <3>1, <3>3
      <4> HIDE DEF P
      <4>2. QED BY <3>1, <4>1
    <3>4. CASE k > j
      <4>1. k - 1 >= j
        BY <1>1, <3>4
      <4>2. P(k - 1)
        BY <2>3, <4>1
      <4>3. /\ Len(f[k]) = Len(f[k - 1]) + n(k) /\ n(k) \in Nat
            /\ Len(f[k - 1]) \in Nat /\ Len(f[j]) \in Nat
            /\ \A i \in 1..(Len(f[k - 1]) + n(k)) :
                  i <= Len(f[k - 1]) => f[k][i] = f[k - 1][i]
        BY <1>1, <1>3, <1>5 DEF n
      <4>4. Len(f[j]) <= Len(f[k])
        BY <4>2, <4>3
      <4>5. ASSUME NEW i \in 1..Len(f[j]) PROVE f[k][i] = f[j][i]
        <5>1. i \in 1..(Len(f[k - 1]) + n(k)) /\ i <= Len(f[k - 1])
          BY <4>2, <4>3
        <5>2. QED BY <4>2, <4>3, <5>1
      <4>6. P(k)
        BY <4>4, <4>5
      <4> HIDE DEF P
      <4>7. QED BY <3>1, <4>6
    <3>5. QED BY <1>1, <3>1, <3>2, <3>3, <3>4
  <2> HIDE DEF S
  <2>4. \A k \in 0..K : k \in S
    BY <1>1, <2>2, <2>3, Induction
  <2>5. QED BY <2>4 DEF S
<1>10. K \in 0..K
  BY <1>1
<1>11. ASSUME NEW k \in 1..K
       PROVE  /\ B(k) \in Nat /\ B(k) + n(k) <= Len(f[K]) /\ B(k) = Len(f[k - 1])
              /\ \A i \in 1..n(k) : f[K][B(k) + i] = Norms(chunks)[k][i]
              /\ \A j \in 1..K : j < k => B(j) + n(j) <= B(k)
  <2>1. k \in 0..K /\ k - 1 \in 0..K /\ (k - 1) + 1 = k /\ K >= k
    BY <1>1
  <2>2. B(k) = Len(f[k - 1]) /\ Len(f[k - 1]) \in Nat
    BY <1>3, <1>8, <2>1
  <2>3. Len(f[k]) = B(k) + n(k) /\ n(k) \in Nat
    BY <1>1, <1>5, <2>2 DEF n
  <2>4. Len(f[k]) <= Len(f[K]) /\ \A i \in 1..Len(f[k]) : f[K][i] = f[k][i]
    BY <1>9, <1>10, <2>1
  <2>5. ASSUME NEW i \in 1..n(k) PROVE f[K][B(k) + i] = Norms(chunks)[k][i]
    <3>1. /\ B(k) + i \in 1..(Len(f[k - 1]) + n(k)) /\ ~(B(k) + i <= Len(f[k - 1]))
          /\ (B(k) + i) - Len(f[k - 1]) = i /\ B(k) + i \in 1..Len(f[k])
      BY <2>2, <2>3
    <3>2. f[k][B(k) + i] = Norms(chunks)[k][(B(k) + i) - Len(f[k - 1])]
      BY <1>5, <3>1
    <3>3. QED BY <2>4, <3>1, <3>2
  <2>6. ASSUME NEW j \in 1..K, j < k PROVE B(j) + n(j) <= B(k)
    <3>1. j \in 0..K /\ k - 1 >= j
      BY <1>1, <2>6
    <3>2. Len(f[j]) <= Len(f[k - 1])
      BY <1>9, <2>1, <3>1
    <3>3. B(j + 1) = Len(f[j]) /\ B(j + 1) = B(j) + n(j)
      BY <1>7, <1>8, <3>1
    <3>4. QED BY <2>2, <3>2, <3>3
  <2>7. QED BY <2>2, <2>3, <2>4, <2>5, <2>6
<1>12. InPlace(f[K], chunks)
  BY <1>1, <1>11 DEF InPlace, n, B, K
<1>13. QED BY <1>6, <1>7, <1>8, <1>10, <1>12 DEF B, n, K

\* The buffer's own highlights show none of setStyledText's.
LEMMA UsersShowNone ==
    ASSUME BufferTypeOK, NEW l, NEW x PROVE ~ShownAt(UserHighlights, l, x)
<1> DEFINE idx == {k \in DOMAIN highlights : highlights[k].kind = "user"}
           n == Cardinality(idx)
<1>1. highlights \in Seq(Kept) /\ idx \in SUBSET (1..Len(highlights))
  BY LenProperties DEF BufferTypeOK
<1>2. UserHighlights = Pick(highlights, idx)
  BY DEF UserHighlights, Where
<1>3. \A k \in idx : highlights[k].kind # "styled"
  OBVIOUS
<1> HIDE DEF idx
<1>4. /\ IsFiniteSet(idx) /\ idx \in SUBSET Nat
      /\ Len(UserHighlights) = n
      /\ \A k \in 1..n : UserHighlights[k] = highlights[Sorted(idx)[k]]
  BY <1>1, <1>2, PickIsSeq
<1>5. Sorted(idx) \in [1..n -> idx]
  BY <1>4, SortedSet
<1>6. QED BY <1>3, <1>4, <1>5 DEF ShownAt

\* All the chunks.
LEMMA ChunksBetween ==
    ASSUME BufferTypeOK, NEW chunks \in Seq(Chunks), NEW base, NEW all,
           base = [line |-> 0, col |-> 0, hls |-> UserHighlights, text |-> <<>>],
           all = ChunksFold(base, chunks)
    PROVE  /\ all \in Styled
           /\ Between(all.text, ColouredOf(all.text, chunks), all, Len(all.text))
<1> DEFINE K == Len(chunks)
           c == all.text
           on == ColouredOf(c, chunks)
           B(k) == ScalarsBefore(chunks, k)
           norm(k) == Norms(chunks)[k]
<1>1. /\ K \in Nat /\ DOMAIN chunks = 1..K
      /\ \A k \in 1..K : /\ chunks[k] \in Chunks /\ norm(k) = NormalizeCrlf(chunks[k].text)
                         /\ norm(k) \in Seq(Scalars) /\ Len(norm(k)) \in Nat
  BY NormsAre
<1>2. base \in Styled /\ tabWidth \in Nat
  BY UserHighlightsType DEF Styled, BufferTypeOK
<1>3. PICK f : ChunksTrace(f, base, chunks)
  BY <1>2, ChunksFolds
<1> HIDE DEF K
<1>4. /\ f \in [0..K -> Styled] /\ f[0] = base /\ f[K] = all
      /\ \A k \in 1..K : f[k] = StyledChunk(f[k - 1], k, chunks[k])
  BY <1>1, <1>3 DEF Numbers, ChunksTrace, K
<1>5. 0 \in 0..K /\ K \in 0..K /\ \A k \in 1..K : k \in 0..K /\ k - 1 \in 0..K /\ (k - 1) + 1 = k
  BY <1>1
<1>6. all \in Styled /\ c \in Seq(Scalars) /\ Len(c) \in Nat /\ DOMAIN c = 1..Len(c)
  BY <1>4, <1>5, LenProperties DEF Styled
<1>7. /\ InPlace(c, chunks) /\ B(1) = 0
      /\ \A k \in 1..K : B(k + 1) = B(k) + Len(norm(k))
      /\ B(K + 1) = Len(c)
  <2> DEFINE texts == [k \in 0..K |-> f[k].text]
  <2>1. texts \in [0..K -> Seq(Scalars)]
    BY <1>4 DEF Styled
  <2>2. texts[0] = <<>> /\ texts[K] = c
    BY <1>4, <1>5
  <2>3. \A k \in 1..K : f[k].text = f[k - 1].text \o norm(k)
    <3>1. SUFFICES ASSUME NEW k \in 1..K PROVE f[k].text = f[k - 1].text \o norm(k)
      OBVIOUS
    <3>2. StyledChunk(f[k - 1], k, chunks[k]).text
            = f[k - 1].text \o NormalizeCrlf(chunks[k].text)
      BY DEF StyledChunk
    <3>3. QED BY <1>1, <1>4, <3>2
  <2>4. \A k \in 1..K : texts[k] = texts[k - 1] \o norm(k)
    BY <1>5, <2>3
  <2> HIDE DEF texts
  <2>5. TextsOf(texts, chunks)
    BY <2>1, <2>2, <2>4 DEF TextsOf, K
  <2>6. QED BY <2>2, <2>5, TextsInPlace DEF K
<1> HIDE DEF c
<1>8. on \in SUBSET (1..Len(c))
  BY <1>6 DEF ColouredOf
<1>9. ASSUME NEW k \in 1..K
      PROVE  /\ B(k) \in Nat /\ B(k) + Len(norm(k)) <= Len(c)
             /\ \A i \in 1..Len(norm(k)) :
                  c[B(k) + i] = norm(k)[i] /\ (B(k) + i \in on <=> chunks[k].colored)
  <2>1. /\ B(k) \in Nat /\ B(k) + Len(norm(k)) <= Len(c) /\ Len(norm(k)) \in Nat
        /\ \A i \in 1..Len(norm(k)) : c[B(k) + i] = norm(k)[i]
    BY <1>7 DEF InPlace, K
  <2>2. \A j \in 1..K : /\ j < k => B(j) + Len(norm(j)) <= B(k)
                        /\ k < j => B(k) + Len(norm(k)) <= B(j)
                        /\ B(j) \in Nat /\ Len(norm(j)) \in Nat
    BY <1>7 DEF InPlace, K
  <2>3. ASSUME NEW i \in 1..Len(norm(k)) PROVE B(k) + i \in on <=> chunks[k].colored
    <3>1. \A x : x \in on <=> x \in 1..Len(c) /\ \E j \in 1..K : /\ chunks[j].colored
                                                                 /\ B(j) < x
                                                                 /\ x <= B(j) + Len(norm(j))
      BY <1>1, <1>6 DEF ColouredOf
    <3> HIDE DEF on, B, norm
    <3>2. B(k) + i \in 1..Len(c) /\ B(k) < B(k) + i /\ B(k) + i <= B(k) + Len(norm(k))
      BY <1>6, <2>1
    <3>3. ASSUME NEW j \in 1..K, B(j) < B(k) + i, B(k) + i <= B(j) + Len(norm(j)) PROVE j = k
      <4>1. CASE j < k
        BY <2>1, <2>2, <3>2, <3>3, <4>1
      <4>2. CASE k < j
        BY <2>1, <2>2, <3>2, <3>3, <4>2
      <4>3. QED BY <1>1, <4>1, <4>2
    <3>4. QED BY <3>1, <3>2, <3>3, Zenon
  <2>4. QED BY <2>1, <2>3
<1> HIDE DEF on
<1>10. Between(c, on, base, 0)
  <2> DEFINE lines == ContentLines(c)
  <2>1. /\ Len(lines) \in Nat \ {0} /\ lines[1].from = 1 /\ lines[1].to \in Nat
        /\ lines[1].from <= lines[1].to + 1
    <3>1. InRows(lines, c)
      BY <1>6, LinesInRows
    <3> HIDE DEF lines
    <3>2. Len(lines) \in Nat \ {0} /\ lines[1].from = 1
      BY <3>1 DEF InRows
    <3>3. 1 \in 1..Len(lines)
      BY <3>2
    <3>4. QED BY <3>1, <3>2, <3>3 DEF InRows
  <2>2. ColumnAt(c, 1, 1) = 0
    BY <1>2, ColumnsAt DEF TabSet
  <2>3. base.line = 0 /\ base.col = 0 /\ base.hls = UserHighlights
    OBVIOUS
  <2>4. StandsAt(c, 0, 0, 0)
    <3>1. 0 + 1 = 1 /\ 0 \in Nat /\ 1 \in 1..Len(lines) /\ 1 \in 1..(lines[1].to + 1)
      BY <2>1
    <3> HIDE DEF lines
    <3>2. QED BY <2>1, <2>2, <3>1 DEF StandsAt, lines
  <2>5. ASSUME NEW l \in LineNumbers(c), NEW x \in Int
        PROVE  ShownAt(base.hls, l, x) <=> WantedAt(c, on, l, x, 0)
    <3>1. \A i \in on : ~(i <= 0)
      BY <1>8
    <3>2. ~WantedAt(c, on, l, x, 0)
      BY <3>1, Zenon DEF WantedAt
    <3>3. QED BY <2>3, <3>2, UsersShowNone
  <2>6. QED BY <1>2, <2>3, <2>4, <2>5 DEF Between
<1> DEFINE S == {k \in 0..K : Between(c, on, f[k], B(k + 1))}
<1>11. 0 \in S
  <2>1. 0 + 1 = 1
    OBVIOUS
  <2> HIDE DEF B
  <2>2. B(0 + 1) = 0
    BY <1>7, <2>1
  <2>3. QED BY <1>4, <1>5, <1>10, <2>2
<1>12. ASSUME NEW k \in 1..K, k - 1 \in S PROVE k \in S
  <2> DEFINE b == B(k)
             t == norm(k)
             acc == f[k - 1]
             chunk == chunks[k]
  <2>1. Between(c, on, acc, b)
    BY <1>5, <1>12
  <2>2. /\ b \in Nat /\ t = NormalizeCrlf(chunk.text) /\ b + Len(t) <= Len(c) /\ chunk \in Chunks
        /\ k \in Nat /\ TabSet
        /\ \A i \in 1..Len(t) : c[b + i] = t[i] /\ (b + i \in on <=> chunk.colored)
    BY <1>1, <1>2, <1>9 DEF TabSet
  <2>3. f[k] = StyledChunk(acc, k, chunk) /\ B(k + 1) = b + Len(t) /\ k \in 0..K
    BY <1>4, <1>5, <1>7
  <2> HIDE DEF b, t, acc, chunk, B
  <2>4. Between(c, on, StyledChunk(acc, k, chunk), b + Len(t))
    BY <1>6, <1>8, <2>1, <2>2, ChunkBetween
  <2>5. Between(c, on, f[k], B(k + 1))
    BY <2>3, <2>4
  <2>6. QED BY <2>3, <2>5
<1> HIDE DEF S
<1>13. \A k \in 0..K : k \in S
  BY <1>1, <1>11, <1>12, Induction
<1>14. Between(c, on, f[K], B(K + 1))
  BY <1>5, <1>13 DEF S
<1>15. Between(c, on, all, Len(c))
  <2> HIDE DEF B
  <2>1. QED BY <1>4, <1>7, <1>14
<1>16. QED BY <1>6, <1>15 DEF c, on

\* Cells of the same widths have the same columns.
LEMMA ColsOfAlike ==
    ASSUME NEW a, NEW b, NEW m \in Nat, \A k \in 1..m : a[k].width = b[k].width
    PROVE  \A j \in 0..m : Cols(a, j) = Cols(b, j)
<1>1. SUFFICES ASSUME NEW j \in 0..m PROVE Cols(a, j) = Cols(b, j)
  OBVIOUS
<1>2. [i \in 1..j |-> a[i].width] = [i \in 1..j |-> b[i].width]
  OBVIOUS
<1>3. QED BY <1>2 DEF Cols

\* The scalars from..i of a measured text are gathered: a cell for each that
\* is not a mark, as wide as the scalar, and at its column.
Tabbed(c, cells) == WithWidth(c, cells, "tab", tabWidth)

Gathering(c, cells, from, i) ==
    /\ \A k \in 1..Len(cells) :
         /\ c[cells[k].at] # "mark"
         /\ Tabbed(c, cells)[k].width = StyledWidth(c[cells[k].at])
         /\ Cols(Tabbed(c, cells), k - 1) = ColumnAt(c, from, cells[k].at)
    /\ \A x \in from..i : c[x] # "mark" => \E k \in 1..Len(cells) : cells[k].at = x
    /\ Cols(Tabbed(c, cells), Len(cells)) = ColumnAt(c, from, i + 1)

\* A mark widens nothing.
LEMMA MarkGathered ==
    ASSUME TabSet, NEW c, NEW from \in Nat \ {0}, NEW i \in Nat, from <= i, c[i] = "mark",
           NEW cells \in Seq(Broad), NEW next \in Seq(Broad), NEW widens, ~widens,
           Joined(cells, next, Wider(cells[Len(cells)], widens)),
           Gathering(c, cells, from, i - 1)
    PROVE  Gathering(c, next, from, i)
<1> DEFINE n == Len(cells)
           last == Wider(cells[n], widens)
           old == Tabbed(c, cells)
           new == Tabbed(c, next)
<1>1. /\ n \in Nat \ {0} /\ Len(next) = n
      /\ \A k \in 1..(n - 1) : next[k] = cells[k]
      /\ next[n] = last
  BY DEF Joined
<1>2. last.at = cells[n].at /\ last.width = cells[n].width
  BY <1>1, ElementOfSeq DEF Wider, Broad, Cell
<1> HIDE DEF last, n
<1>3. \A k \in 1..n : next[k].at = cells[k].at /\ next[k].width = cells[k].width
  BY <1>1, <1>2
<1>4. Widened(c, cells, "tab", tabWidth, old) /\ Widened(c, next, "tab", tabWidth, new)
  BY WithWidthIs DEF TabSet, Tabbed
<1>5. \A k \in 1..n : old[k].width = new[k].width
  <2> HIDE DEF old, new
  <2>1. \A k \in 1..n :
          /\ old[k].width = IF c[cells[k].at] = "tab" THEN tabWidth ELSE cells[k].width
          /\ new[k].width = IF c[next[k].at] = "tab" THEN tabWidth ELSE next[k].width
    BY <1>1, <1>4 DEF Widened, n
  <2>2. QED BY <1>3, <2>1
<1>6. \A j \in 0..n : Cols(old, j) = Cols(new, j)
  <2> HIDE DEF old, new
  <2>1. QED BY <1>1, <1>5, ColsOfAlike
<1>7. i - 1 \in Nat /\ (i - 1) + 1 = i /\ StyledWidth("mark") = 0
  BY DEF StyledWidth, CodepointWidth, Wide
<1>8. ColumnAt(c, from, i + 1) = ColumnAt(c, from, i)
  <2>1. /\ ColumnAt(c, from, i) \in Nat
        /\ ColumnAt(c, from, i + 1) = ColumnAt(c, from, i) + StyledWidth(c[i])
    BY ColumnsAt
  <2>2. StyledWidth(c[i]) = 0
    BY <1>7
  <2>3. QED BY <2>1, <2>2
<1>9. \A k \in 1..n : k - 1 \in 0..n
  BY <1>1
<1>10. n \in 0..n
  BY <1>1
<1> HIDE DEF old, new
<1>11. /\ \A k \in 1..n :
            /\ c[cells[k].at] # "mark" /\ old[k].width = StyledWidth(c[cells[k].at])
            /\ Cols(old, k - 1) = ColumnAt(c, from, cells[k].at)
       /\ \A x \in from..(i - 1) : c[x] # "mark" => \E k \in 1..n : cells[k].at = x
       /\ Cols(old, n) = ColumnAt(c, from, i)
  BY <1>7 DEF Gathering, old, n
<1>12. \A k \in 1..n :
         /\ c[next[k].at] # "mark" /\ new[k].width = StyledWidth(c[next[k].at])
         /\ Cols(new, k - 1) = ColumnAt(c, from, next[k].at)
  BY <1>3, <1>5, <1>6, <1>9, <1>11
<1>13. ASSUME NEW x \in from..i, c[x] # "mark" PROVE \E k \in 1..n : next[k].at = x
  <2>1. x \in from..(i - 1)
    BY <1>13
  <2>2. QED BY <1>3, <1>11, <1>13, <2>1
<1>14. Cols(new, n) = ColumnAt(c, from, i + 1)
  BY <1>6, <1>8, <1>10, <1>11
<1>15. QED BY <1>1, <1>12, <1>13, <1>14 DEF Gathering, new

\* Every other scalar is a cell of its own.
LEMMA OtherGathered ==
    ASSUME TabSet, NEW c, NEW from \in Nat \ {0}, NEW i \in Nat, from <= i,
           c[i] \in {"a", "sp", "cjk", "tab"},
           NEW cells \in Seq(Broad), NEW next \in Seq(Broad),
           Added(cells, next, Fresh(c, i), i),
           Gathering(c, cells, from, i - 1)
    PROVE  Gathering(c, next, from, i)
<1> DEFINE n == Len(cells)
           last == Fresh(c, i)
           old == Tabbed(c, cells)
           new == Tabbed(c, next)
<1>1. /\ n \in Nat /\ Len(next) = n + 1
      /\ \A k \in 1..n : next[k] = cells[k]
      /\ next[n + 1] = last
  BY DEF Added
<1>2. last.at = i /\ last.width = IF c[i] \in Wide THEN 2 ELSE 1
  BY DEF Fresh
<1> HIDE DEF last, n
<1>3. Widened(c, cells, "tab", tabWidth, old) /\ Widened(c, next, "tab", tabWidth, new)
  BY WithWidthIs DEF TabSet, Tabbed
<1> HIDE DEF old, new
<1>4. /\ \A k \in 1..n : old[k].width = IF c[cells[k].at] = "tab" THEN tabWidth ELSE cells[k].width
      /\ \A k \in 1..(n + 1) :
           new[k].width = IF c[next[k].at] = "tab" THEN tabWidth ELSE next[k].width
      /\ new \in Seq(Cell) /\ Len(new) = n + 1
  BY <1>1, <1>3 DEF Widened, n
<1>5. n + 1 \in 1..(n + 1) /\ \A k \in 1..n : k \in 1..(n + 1) /\ k - 1 \in 0..n
  BY <1>1
<1>6. \A k \in 1..n : old[k].width = new[k].width
  BY <1>1, <1>4, <1>5
<1>7. \A j \in 0..n : Cols(old, j) = Cols(new, j)
  BY <1>1, <1>6, ColsOfAlike
<1>8. new[n + 1].width = StyledWidth(c[i])
  BY <1>1, <1>2, <1>4, <1>5 DEF StyledWidth, CodepointWidth, Wide
<1>9. i - 1 \in Nat /\ (i - 1) + 1 = i
  OBVIOUS
<1>10. ColumnAt(c, from, i + 1) = ColumnAt(c, from, i) + StyledWidth(c[i])
  BY ColumnsAt
<1>11. /\ \A k \in 1..n :
            /\ c[cells[k].at] # "mark" /\ old[k].width = StyledWidth(c[cells[k].at])
            /\ Cols(old, k - 1) = ColumnAt(c, from, cells[k].at)
       /\ \A x \in from..(i - 1) : c[x] # "mark" => \E k \in 1..n : cells[k].at = x
       /\ Cols(old, n) = ColumnAt(c, from, i)
  BY <1>9 DEF Gathering, old, n
<1>12. Cols(new, n) = ColumnAt(c, from, i)
  BY <1>1, <1>7, <1>11
<1>13. Cols(new, n + 1) = ColumnAt(c, from, i + 1)
  BY <1>1, <1>4, <1>5, <1>8, <1>10, <1>12, ColsAre
<1>14. ASSUME NEW k \in 1..(n + 1)
       PROVE  /\ c[next[k].at] # "mark" /\ new[k].width = StyledWidth(c[next[k].at])
              /\ Cols(new, k - 1) = ColumnAt(c, from, next[k].at)
  <2>1. CASE k = n + 1
    BY <1>1, <1>2, <1>8, <1>12, <2>1
  <2>2. CASE k \in 1..n
    BY <1>1, <1>5, <1>6, <1>7, <1>11, <2>2
  <2>3. QED BY <1>1, <2>1, <2>2
<1>15. ASSUME NEW x \in from..i, c[x] # "mark" PROVE \E k \in 1..(n + 1) : next[k].at = x
  <2>1. CASE x = i
    BY <1>1, <1>2, <1>5, <2>1
  <2>2. CASE x \in from..(i - 1)
    BY <1>1, <1>5, <1>11, <1>15, <2>2
  <2>3. QED BY <2>1, <2>2
<1>16. QED BY <1>1, <1>13, <1>14, <1>15 DEF Gathering, new

\* The cells of a line of a measured text: one for each scalar but the marks,
\* as wide as the scalar, at its column.
DrawnAtColumns(c, line, cells) ==
    /\ cells \in Seq(Cell)
    /\ \A k \in 1..Len(cells) :
         /\ cells[k].at \in line.from..line.to
         /\ cells[k].width = StyledWidth(c[cells[k].at])
         /\ Starts(cells)[k] = ColumnAt(c, line.from, cells[k].at)
    /\ \A x \in line.from..line.to : c[x] # "mark" => \E k \in 1..Len(cells) : cells[k].at = x

LEMMA LineDrawnAtColumns ==
    ASSUME TabSet, NEW c \in Seq(Scalars), Measured(c), NEW n \in 1..Len(ContentLines(c))
    PROVE  DrawnAtColumns(c, ContentLines(c)[n], LineCells(c, ContentLines(c)[n], tabWidth))
<1> DEFINE line == ContentLines(c)[n]
           from == line.from
           to == line.to
           N == to - from + 1
           raw == Clusters(c, from, to)
           cells == Tabbed(c, raw)
<1>1. /\ from \in Nat \ {0} /\ to \in Nat /\ from <= to + 1 /\ to <= Len(c) /\ Len(c) \in Nat
      /\ from = 1 \/ c[from - 1] = "nl"
      /\ \A i \in from..to : c[i] # "nl"
  BY LinesInRows DEF InRows
<1>2. LineCells(c, line, tabWidth) = cells
  BY DEF LineCells, Tabbed
<1> HIDE DEF line, from, to
<1>3. PICK f : ClustersTrace(f, c, from, to)
  BY <1>1, ClustersFolds
<1>4. \A j \in 0..N : Tiled(f[j], from, from + j - 1)
  BY <1>1, <1>3, TraceTiles
<1>5. N \in Nat
  BY <1>1
<1>6. f[0] = NothingGathered /\ raw = f[N].cells
  BY <1>3 DEF ClustersTrace, Clusters, ClustersFold, Places, NothingGathered
<1>7. \A i \in from..to : /\ c[i] \in {"a", "sp", "cjk", "tab", "mark"}
                          /\ c[i] = "mark" => i > from
  <2>1. SUFFICES ASSUME NEW i \in from..to
                 PROVE  /\ c[i] \in {"a", "sp", "cjk", "tab", "mark"}
                        /\ c[i] = "mark" => i > from
    OBVIOUS
  <2>2. i \in 1..Len(c) /\ c[i] # "nl" /\ DOMAIN c = 1..Len(c)
    BY <1>1, LenProperties
  <2>3. c[i] \in Scalars
    BY <2>2, ElementOfSeq
  <2>4. c[i] \notin {"zwj", "vs16", "cr", "check", "thermo", "zwsp", "keycap"}
    BY <2>2 DEF Range, Measured
  <2>5. c[i] = "mark" => i > 1 /\ c[i - 1] # "nl"
    BY <2>2 DEF Measured
  <2>6. c[i] = "mark" => i # from
    BY <1>1, <2>5
  <2>7. QED BY <1>1, <2>2, <2>3, <2>4, <2>6 DEF Scalars
<1> DEFINE G(j) == ~f[j].joins /\ Gathering(c, f[j].cells, from, from + j - 1)
           S == {j \in 0..N : G(j)}
<1> HIDE DEF raw, N
<1>8. 0 \in S
  <2>1. f[0].cells = <<>> /\ f[0].joins = FALSE /\ Len(f[0].cells) = 0 /\ f[0].cells \in Seq(Broad)
    BY <1>6 DEF NothingGathered
  <2> DEFINE none == f[0].cells
  <2>2. Cols(Tabbed(c, none), 0) = 0
    BY <2>1, WithWidthIs, ColsAre DEF TabSet, Tabbed, Widened
  <2>3. ColumnAt(c, from, from) = 0 /\ (from + 0 - 1) + 1 = from
    BY <1>1, ColumnsAt
  <2>4. \A x \in from..(from + 0 - 1) : FALSE
    BY <1>1
  <2>5. Len(none) = 0
    BY <2>1
  <2> DEFINE i == from + 0 - 1
  <2>6. ColumnAt(c, from, i + 1) = 0
    BY <2>3
  <2> HIDE DEF none, i
  <2>7. Gathering(c, none, from, i)
    BY <2>2, <2>4, <2>5, <2>6 DEF Gathering, i
  <2>8. QED BY <1>5, <2>1, <2>7 DEF none, i
<1>9. ASSUME NEW j \in 1..N, j - 1 \in S PROVE j \in S
  <2> DEFINE i == from + j - 1
             acc == f[j - 1]
  <2>1. i \in Nat /\ from <= i /\ i \in from..to /\ from + (j - 1) - 1 = i - 1 /\ j - 1 \in 0..N
    BY <1>1, <1>5 DEF N
  <2>2. f[j] = NextCluster(c, acc, i)
    BY <1>3 DEF ClustersTrace, Places, N
  <2>3. Tiled(acc, from, i - 1) /\ Tiled(f[j], from, i)
    BY <1>4, <1>5, <2>1
  <2>4. ~acc.joins /\ Gathering(c, acc.cells, from, i - 1)
    BY <1>9, <2>1
  <2> HIDE DEF i, acc
  <2>5. acc \in Gathered /\ f[j] \in Gathered /\ acc.cells \in Seq(Broad) /\ f[j].cells \in Seq(Broad)
    BY <2>3 DEF Tiled, Gathered
  <2>6. CASE c[i] = "mark"
    <3>1. Folds(c, acc, i)
      <4>1. ~(i - 1 < from)
        BY <1>1, <1>7, <2>1, <2>6
      <4>2. acc.cells # <<>>
        BY <2>3, <4>1 DEF Tiled
      <4>3. QED BY <2>6, <4>2 DEF Folds, Extenders
    <3>2. ~Widens(c, acc, i)
      BY <2>6 DEF Widens
    <3>3. /\ Joined(acc.cells, f[j].cells, Wider(acc.cells[Len(acc.cells)], Widens(c, acc, i)))
          /\ ~f[j].joins
      <4>1. /\ Joined(acc.cells, NextCluster(c, acc, i).cells,
                      Wider(acc.cells[Len(acc.cells)], Widens(c, acc, i)))
            /\ NextCluster(c, acc, i).joins <=> (~acc.joins /\ c[i] = "zwj")
        BY <2>1, <2>5, <3>1, NextClusterIs
      <4>2. c[i] # "zwj"
        BY <2>6
      <4>3. QED BY <2>2, <4>1, <4>2, Zenon
    <3>4. Gathering(c, f[j].cells, from, i)
      <4> DEFINE widens == Widens(c, acc, i)
      <4>1. Joined(acc.cells, f[j].cells, Wider(acc.cells[Len(acc.cells)], widens)) /\ ~widens
        BY <3>2, <3>3
      <4> HIDE DEF widens
      <4>2. QED BY <1>1, <2>1, <2>4, <2>5, <2>6, <4>1, MarkGathered, SMTT(30)
    <3>5. QED BY <1>5, <3>3, <3>4 DEF i
  <2>7. CASE c[i] # "mark"
    <3>1. c[i] \in {"a", "sp", "cjk", "tab"}
      BY <1>7, <2>1, <2>7
    <3>2. ~Folds(c, acc, i)
      BY <2>4, <3>1 DEF Folds, Extenders
    <3>3. Added(acc.cells, f[j].cells, Fresh(c, i), i) /\ ~f[j].joins
      BY <2>1, <2>2, <2>5, <3>2, NextClusterIs
    <3>4. Gathering(c, f[j].cells, from, i)
      BY <1>1, <2>1, <2>4, <2>5, <3>1, <3>3, OtherGathered
    <3>5. QED BY <1>5, <3>3, <3>4 DEF i
  <2>8. QED BY <2>6, <2>7
<1> HIDE DEF S
<1>10. \A j \in 0..N : j \in S
  BY <1>5, <1>8, <1>9, Induction
<1>11. Gathering(c, raw, from, to) /\ Tiled(f[N], from, to)
  BY <1>1, <1>4, <1>5, <1>6, <1>10 DEF N, S
<1>12. raw \in Seq(Broad) /\ \A k \in 1..Len(raw) : raw[k].at \in from..to
  BY <1>6, <1>11 DEF Tiled, Gathered
<1>13. Widened(c, raw, "tab", tabWidth, cells)
  BY <1>12, WithWidthIs DEF TabSet, Tabbed
<1> HIDE DEF cells
<1>14. /\ cells \in Seq(Cell) /\ Len(cells) = Len(raw)
       /\ \A k \in 1..Len(raw) : cells[k].at = raw[k].at
  BY <1>13 DEF Widened
<1>15. \A k \in 1..Len(cells) : Starts(cells)[k] = Cols(cells, k - 1)
  BY <1>14, ColsAre
<1>16. /\ \A k \in 1..Len(raw) :
            /\ cells[k].width = StyledWidth(c[raw[k].at])
            /\ Cols(cells, k - 1) = ColumnAt(c, from, raw[k].at)
       /\ \A x \in from..to : c[x] # "mark" => \E k \in 1..Len(raw) : raw[k].at = x
  BY <1>11 DEF Gathering, cells
<1>17. DrawnAtColumns(c, line, cells)
  BY <1>12, <1>14, <1>15, <1>16 DEF DrawnAtColumns, from, to
<1>18. QED BY <1>2, <1>17 DEF line

\* What setStyledText highlights on a line is what the line draws of the
\* coloured chunks.
LEMMA StyledIsDrawn ==
    ASSUME BufferTypeOK, NEW chunks \in Seq(Chunks), SetStyled(chunks), Measured(content'),
           NEW line \in LineNumbers(content')
    PROVE  LET c == content'
               cells == LineCells(c, ContentLines(c)[line + 1], tabWidth)
               styled == {h \in Range(highlights') : h.kind = "styled" /\ h.line = line}
           IN UNION {h.start..(h.stop - 1) : h \in styled}
                = UNION {LET start == Starts(cells)[j]
                         IN start..(start + cells[j].width - 1) :
                           j \in {i \in DOMAIN cells : cells[i].at \in ColouredOf(c, chunks)}}
<1> DEFINE c == content'
           hls == highlights'
           on == ColouredOf(c, chunks)
           text == ContentLines(c)[line + 1]
           from == text.from
           cells == LineCells(c, text, tabWidth)
           base == [line |-> 0, col |-> 0, hls |-> UserHighlights, text |-> <<>>]
           all == ChunksFold(base, chunks)
           styled == {h \in Range(hls) : h.kind = "styled" /\ h.line = line}
           mine == {i \in DOMAIN cells : cells[i].at \in on}
           start(j) == Starts(cells)[j]
<1>1. c = all.text /\ hls = all.hls
  BY DEF SetStyled, ChunksFold, Numbers
<1>2. all \in Styled /\ Between(all.text, ColouredOf(all.text, chunks), all, Len(all.text))
  BY ChunksBetween
<1> HIDE DEF all, base
<1>3. c \in Seq(Scalars) /\ hls \in Seq(Kept) /\ Between(c, on, all, Len(c)) /\ TabSet
  BY <1>1, <1>2 DEF Styled, BufferTypeOK, TabSet
<1> HIDE DEF c, hls
<1>4. Len(c) \in Nat /\ Len(hls) \in Nat /\ DOMAIN hls = 1..Len(hls) /\ DOMAIN c = 1..Len(c)
  BY <1>3, LenProperties
<1>5. Measured(c)
  BY DEF c
<1>6. /\ line \in Nat /\ line + 1 \in 1..Len(ContentLines(c))
      /\ from \in Nat \ {0} /\ text.to \in Nat /\ text.to <= Len(c)
  BY <1>3, LinesInRows DEF InRows, LineNumbers, c
<1>7. DrawnAtColumns(c, text, cells)
  BY <1>3, <1>5, <1>6, LineDrawnAtColumns
<1>8. \A x \in Int : ShownAt(hls, line, x) <=> WantedAt(c, on, line, x, Len(c))
  BY <1>1, <1>3 DEF Between, c
<1> HIDE DEF text, cells, on
<1>9. /\ cells \in Seq(Cell) /\ DOMAIN cells = 1..Len(cells) /\ Len(cells) \in Nat
      /\ \A k \in 1..Len(cells) :
           /\ cells[k].at \in from..text.to
           /\ cells[k].width = StyledWidth(c[cells[k].at])
           /\ start(k) = ColumnAt(c, from, cells[k].at)
      /\ \A x \in from..text.to : c[x] # "mark" => \E k \in 1..Len(cells) : cells[k].at = x
  BY <1>7, LenProperties DEF DrawnAtColumns
<1>10. \A i \in from..text.to : ColumnAt(c, from, i) \in Nat /\ StyledWidth(c[i]) \in Nat
  <2>1. \A i \in from..text.to : i \in Nat /\ i >= from
    BY <1>6
  <2>2. QED BY <1>3, <1>6, <2>1, ColumnsAt
<1> HIDE DEF from
<1>11. \A x : x \in UNION {h.start..(h.stop - 1) : h \in styled}
                <=> x \in Int /\ ShownAt(hls, line, x)
  <2>1. \A k \in 1..Len(hls) : hls[k].start \in Nat /\ hls[k].stop \in Nat
    BY <1>3, ElementOfSeq DEF Kept
  <2>2. \A k \in 1..Len(hls) : \A x :
          x \in hls[k].start..(hls[k].stop - 1)
            <=> x \in Int /\ hls[k].start <= x /\ x < hls[k].stop
    BY <2>1
  <2>3. Range(hls) = {hls[k] : k \in 1..Len(hls)}
    BY <1>4 DEF Range
  <2>4. \A h : h \in styled <=> \E k \in 1..Len(hls) : /\ h = hls[k]
                                                       /\ hls[k].kind = "styled" /\ hls[k].line = line
    BY <2>3
  <2> HIDE DEF styled
  <2>5. \A x : x \in UNION {h.start..(h.stop - 1) : h \in styled}
                 <=> \E h \in styled : x \in h.start..(h.stop - 1)
    OBVIOUS
  <2>6. \A x : (\E h \in styled : x \in h.start..(h.stop - 1))
                 <=> \E k \in 1..Len(hls) : /\ hls[k].kind = "styled" /\ hls[k].line = line
                                            /\ x \in hls[k].start..(hls[k].stop - 1)
    BY <2>4, Zenon
  <2>7. \A x : (\E h \in styled : x \in h.start..(h.stop - 1))
                 <=> x \in Int /\ ShownAt(hls, line, x)
    BY <2>2, <2>6, Zenon DEF ShownAt
  <2>8. QED BY <2>5, <2>7, Zenon
<1>12. \A x : x \in UNION {start(j)..(start(j) + cells[j].width - 1) : j \in mine}
                <=> x \in Int /\ WantedAt(c, on, line, x, Len(c))
  <2>1. \A k \in 1..Len(cells) : \A x :
          x \in start(k)..(start(k) + cells[k].width - 1)
            <=> x \in Int /\ Paints(c, from, cells[k].at, x)
    <3>1. SUFFICES ASSUME NEW k \in 1..Len(cells), NEW x
                   PROVE  x \in start(k)..(start(k) + cells[k].width - 1)
                            <=> x \in Int /\ Paints(c, from, cells[k].at, x)
      OBVIOUS
    <3> DEFINE p == ColumnAt(c, from, cells[k].at)
               w == StyledWidth(c[cells[k].at])
    <3>2. start(k) = p /\ cells[k].width = w /\ p \in Nat /\ w \in Nat
      BY <1>9, <1>10
    <3>3. Paints(c, from, cells[k].at, x) <=> p <= x /\ x < p + w
      BY DEF Paints
    <3> HIDE DEF p, w, start
    <3>4. x \in p..(p + w - 1) <=> x \in Int /\ p <= x /\ x < p + w
      BY <3>2
    <3>5. QED BY <3>2, <3>3, <3>4
  <2>2. \A j : j \in mine <=> j \in 1..Len(cells) /\ cells[j].at \in on
    BY <1>9
  <2>3. \A x \in Int : WantedAt(c, on, line, x, Len(c))
          <=> \E i \in from..text.to : i \in on /\ Paints(c, from, i, x)
    <3>1. \A i \in from..text.to : i <= Len(c)
      BY <1>4, <1>6 DEF from
    <3>2. QED BY <3>1, Zenon DEF WantedAt, from, text
  <2>4. ASSUME NEW x \in Int, NEW i \in from..text.to, Paints(c, from, i, x)
        PROVE  \E k \in 1..Len(cells) : cells[k].at = i
    <3>1. StyledWidth(c[i]) # 0
      <4> DEFINE p == ColumnAt(c, from, i)
                 w == StyledWidth(c[i])
      <4>1. p \in Nat /\ w \in Nat /\ p <= x /\ x < p + w
        BY <1>10, <2>4 DEF Paints
      <4> HIDE DEF p, w
      <4>2. w # 0
        BY <4>1
      <4>3. QED BY <4>2 DEF w
    <3>2. c[i] # "mark"
      BY <3>1 DEF StyledWidth, CodepointWidth, Wide
    <3>3. QED BY <1>9, <3>2
  <2>5. \A k \in 1..Len(cells) : cells[k].at \in from..text.to
    BY <1>9
  <2> HIDE DEF mine, start
  <2>6. \A x : x \in UNION {start(j)..(start(j) + cells[j].width - 1) : j \in mine}
                 <=> \E j \in mine : x \in start(j)..(start(j) + cells[j].width - 1)
    OBVIOUS
  <2>7. \A x : (\E j \in mine : x \in start(j)..(start(j) + cells[j].width - 1))
                 <=> \E k \in 1..Len(cells) : /\ cells[k].at \in on
                                              /\ x \in Int /\ Paints(c, from, cells[k].at, x)
    BY <2>1, <2>2, Zenon
  <2>8. \A x \in Int : (\E k \in 1..Len(cells) : cells[k].at \in on /\ Paints(c, from, cells[k].at, x))
                 <=> WantedAt(c, on, line, x, Len(c))
    BY <2>3, <2>4, <2>5, Zenon
  <2>9. QED BY <2>6, <2>7, <2>8, Zenon
<1> HIDE DEF mine, styled
<1>13. UNION {h.start..(h.stop - 1) : h \in styled}
         = UNION {start(j)..(start(j) + cells[j].width - 1) : j \in mine}
  <2> DEFINE A == UNION {h.start..(h.stop - 1) : h \in styled}
             B == UNION {start(j)..(start(j) + cells[j].width - 1) : j \in mine}
  <2>1. \A x : x \in A <=> x \in B
    BY <1>8, <1>11, <1>12, Zenon
  <2> HIDE DEF A, B
  <2>2. A = B
    BY <2>1
  <2>3. QED BY <2>2 DEF A, B
<1>14. QED BY <1>13 DEF styled, mine, cells, text, c, hls, on

\* setStyledText, measuring scalars, highlights each line on the columns in
\* which a view, measuring clusters, draws the cells of the coloured chunks
\* (SetStyled, MakeStyledHl, LineCells).
THEOREM StyledIsWhereDrawn == BufferSpec => StyledWhereDrawn
<1>1. ASSUME BufferTypeOK, NEW chunks \in StyledCalls, SetStyled(chunks), Measured(content')
      PROVE  HighlightedAsDrawn(chunks)
  BY <1>1, BufferAssumption, StyledIsDrawn
     DEF BufferAssumption, HighlightedAsDrawn, LineNumbers, ColouredOf,
        ScalarsBefore, Norms
<1>2. BufferTypeOK =>
        [\A chunks \in StyledCalls :
           SetStyled(chunks) /\ Measured(content') => HighlightedAsDrawn(chunks)]_bufferVars
  BY <1>1
<1>3. QED BY <1>2, BufferTypes, PTL DEF StyledWhereDrawn
=============================================================================
