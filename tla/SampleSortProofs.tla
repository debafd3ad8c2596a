-------------------------- MODULE SampleSortProofs --------------------------
(***************************************************************************)
(* Proofs about the collectives of the distributed sort (SampleSort), for  *)
(* any number of tasks, any layout of the lines and any elements: all      *)
(* tasks call the same ones, one always goes on, and in those whose counts *)
(* follow from the layout each expects what the others send.               *)
(*                                                                         *)
(* Sums and concatenations are recursive functions.  What they need of     *)
(* induction goes by a set of numbers instead of a predicate, whose        *)
(* complement would have a least element (Induction).                      *)
(***************************************************************************)
EXTENDS SampleSort, SequenceTheorems, FiniteSetTheorems, WellFoundedInduction, TLAPS

---------------------------------------------------------------------------
(* Sums *)

LEMMA LeastNat ==
  ASSUME NEW S, S \subseteq Nat, S # {}
  PROVE  \E n \in S : \A m \in S : n <= m
<1>1. PICK n \in S : \A m \in S : <<m, n>> \notin OpToRel(<, Nat)
  BY NatLessThanWellFounded, WFMin
<1>2. \A m \in S : ~(m < n)
  BY <1>1 DEF OpToRel
<1> QED
  BY <1>2

\* Induction up to n, on a set instead of a predicate.
LEMMA Induction ==
  ASSUME NEW n \in Nat, NEW G, 0 \in G, \A k \in 1..n : k - 1 \in G => k \in G
  PROVE  \A k \in 0..n : k \in G
<1> DEFINE Bad == (0..n) \ G
<1> SUFFICES ASSUME Bad # {} PROVE FALSE
  OBVIOUS
<1>1. PICK k \in Bad : \A m \in Bad : k <= m
  <2>1. Bad \subseteq Nat
    OBVIOUS
  <2> HIDE DEF Bad
  <2> QED
    BY <2>1, LeastNat
<1>2. k \in 1..n /\ k - 1 \in 0..n /\ ~(k <= k - 1)
  BY <1>1
<1>3. k - 1 \in G
  BY <1>1, <1>2
<1> QED
  BY <1>1, <1>2, <1>3

LEMMA MaxIs ==
  ASSUME NEW n \in Nat, NEW S, S \subseteq 1..n, n \in S
  PROVE  Max(S) = n
<1>1. \A y \in S : n >= y
  OBVIOUS
<1>2. \A x \in S : (\A y \in S : x >= y) => x = n
  OBVIOUS
<1> QED
  BY <1>1, <1>2 DEF Max

\* f is the fold of s over the subsets of T.
Folded(s, f, T) ==
  f = [S \in SUBSET T |-> IF S = {} THEN 0 ELSE f[S \ {Max(S)}] + s[Max(S)]]

\* The recursive function that FoldLeft picks exists.
LEMMA FoldExists ==
  ASSUME NEW s \in Seq(Int), NEW n \in 0..Len(s)
  PROVE  \E f \in [SUBSET (1..n) -> Int] : Folded(s, f, 1..n)
<1> DEFINE Good(k) == \E f \in [SUBSET (1..k) -> Int] : Folded(s, f, 1..k)
           G == {k \in 0..Len(s) : Good(k)}
<1>0. Len(s) \in Nat
  BY LenProperties
<1>1. Good(0)
  <2> DEFINE f == [S \in SUBSET (1..0) |-> 0]
  <2>1. f \in [SUBSET (1..0) -> Int]
    OBVIOUS
  <2>2. 1..0 = {}
    OBVIOUS
  <2>3. Folded(s, f, 1..0)
    BY <2>2 DEF Folded
  <2> QED
    BY <2>1, <2>3
<1>2. ASSUME NEW k \in 1..Len(s), Good(k - 1)
      PROVE  Good(k)
  <2>1. PICK f \in [SUBSET (1..(k - 1)) -> Int] : Folded(s, f, 1..(k - 1))
    BY <1>2
  <2> DEFINE g == [S \in SUBSET (1..k) |-> IF k \in S THEN f[S \ {k}] + s[k] ELSE f[S]]
  <2>2. s[k] \in Int
    BY ElementOfSeq
  <2>3. \A S \in SUBSET (1..k) : /\ S \ {k} \in SUBSET (1..(k - 1))
                                 /\ k \notin S => S \in SUBSET (1..(k - 1))
    BY <1>0
  <2>4. g \in [SUBSET (1..k) -> Int]
    BY <2>1, <2>2, <2>3
  <2>5. ASSUME NEW S \in SUBSET (1..k)
        PROVE  g[S] = IF S = {} THEN 0 ELSE g[S \ {Max(S)}] + s[Max(S)]
    <3>1. CASE S = {}
      <4>1. {} \in SUBSET (1..(k - 1)) /\ k \notin S
        BY <3>1
      <4>2. f[{}] = 0
        BY <2>1, <4>1 DEF Folded
      <4> QED
        BY <3>1, <4>1, <4>2
    <3>2. CASE k \in S
      <4>1. Max(S) = k
        <5>1. k \in Nat
          BY <1>0
        <5> QED
          BY <3>2, <5>1, MaxIs
      <4>2. g[S \ {k}] = f[S \ {k}]
        OBVIOUS
      <4> QED
        BY <3>2, <4>1, <4>2
    <3>3. CASE k \notin S /\ S # {}
      <4>1. S \in SUBSET (1..(k - 1))
        BY <2>3, <3>3
      <4>2. f[S] = f[S \ {Max(S)}] + s[Max(S)]
        BY <2>1, <3>3, <4>1 DEF Folded
      <4>3. g[S \ {Max(S)}] = f[S \ {Max(S)}]
        BY <3>3
      <4> QED
        BY <3>3, <4>2, <4>3
    <3> QED
      BY <3>1, <3>2, <3>3
  <2>6. Folded(s, g, 1..k)
    BY <2>5 DEF Folded
  <2> QED
    BY <2>4, <2>6
<1> HIDE DEF Good
<1>3. 0 \in G /\ \A k \in 1..Len(s) : k - 1 \in G => k \in G
  BY <1>0, <1>1, <1>2
<1>4. \A k \in 0..Len(s) : k \in G
  <2> HIDE DEF G
  <2> QED
    BY <1>0, <1>3, Induction
<1>5. Good(n)
  BY <1>4
<1> QED
  BY <1>5 DEF Good

\* A sum is the last of its partial sums.
LEMMA PartialSums ==
  ASSUME NEW s \in Seq(Int)
  PROVE  \E g \in [0..Len(s) -> Int] :
           /\ g[0] = 0
           /\ \A k \in 1..Len(s) : g[k] = g[k - 1] + s[k]
           /\ SumOf(s) = g[Len(s)]
<1>0. Len(s) \in Nat /\ DOMAIN s = 1..Len(s)
  BY LenProperties
<1> DEFINE F == CHOOSE f : Folded(s, f, DOMAIN s)
           g == [k \in 0..Len(s) |-> F[1..k]]
<1>1. SumOf(s) = F[DOMAIN s]
  BY DEF SumOf, FoldLeft, MapThenFoldSet, Folded
<1>2. Folded(s, F, DOMAIN s)
  <2>1. Len(s) \in 0..Len(s)
    BY <1>0
  <2>2. PICK f : Folded(s, f, 1..Len(s))
    BY <2>1, FoldExists
  <2>3. Folded(s, f, DOMAIN s)
    BY <1>0, <2>2, Zenon
  <2> QED
    BY <2>3, Zenon
<1> HIDE DEF F
<1>3. \A S \in SUBSET (1..Len(s)) :
        F[S] = IF S = {} THEN 0 ELSE F[S \ {Max(S)}] + s[Max(S)]
  BY <1>0, <1>2 DEF Folded
<1>4. g[0] = 0
  <2>1. 1..0 = {} /\ {} \in SUBSET (1..Len(s)) /\ 0 \in 0..Len(s)
    BY <1>0
  <2>2. g[0] = F[{}]
    BY <2>1
  <2> QED
    BY <1>3, <2>1, <2>2
<1>5. ASSUME NEW k \in 1..Len(s)
      PROVE  g[k] = g[k - 1] + s[k]
  <2> HIDE DEF g
  <2>1. k \in Nat /\ k \in 0..Len(s) /\ k - 1 \in 0..Len(s) /\ k \in 1..k
    BY <1>0
  <2>2. (1..k) \subseteq 1..Len(s)
    BY <1>0
  <2>3. (1..k) \ {k} = 1..(k - 1)
    BY <1>0
  <2>4. Max(1..k) = k
    BY <2>1, MaxIs
  <2>5. F[1..k] = F[1..(k - 1)] + s[k]
    BY <1>3, <2>1, <2>2, <2>3, <2>4
  <2> QED
    BY <2>1, <2>5 DEF g
<1>6. g \in [0..Len(s) -> Int]
  <2> DEFINE G == {k \in 0..Len(s) : g[k] \in Int}
  <2>1. DOMAIN g = 0..Len(s) /\ g = [k \in 0..Len(s) |-> g[k]]
    OBVIOUS
  <2>2. \A k \in 1..Len(s) : s[k] \in Int
    BY <1>0, ElementOfSeq
  <2> HIDE DEF g
  <2>3. 0 \in G /\ \A k \in 1..Len(s) : k - 1 \in G => k \in G
    BY <1>0, <1>4, <1>5, <2>2
  <2>4. \A k \in 0..Len(s) : k \in G
    <3> HIDE DEF G
    <3> QED
      BY <1>0, <2>3, Induction
  <2> QED
    BY <2>1, <2>4
<1>7. SumOf(s) = g[Len(s)]
  BY <1>0, <1>1
<1> HIDE DEF g
<1> QED
  BY <1>4, <1>5, <1>6, <1>7

\* Whatever has the steps of the partial sums has their values.
LEMMA SumIs ==
  ASSUME NEW s \in Seq(Int), NEW h, h[0] = 0,
         \A k \in 1..Len(s) : h[k] = h[k - 1] + s[k]
  PROVE  SumOf(s) = h[Len(s)]
<1>0. Len(s) \in Nat
  BY LenProperties
<1>1. PICK g \in [0..Len(s) -> Int] :
        /\ g[0] = 0
        /\ \A k \in 1..Len(s) : g[k] = g[k - 1] + s[k]
        /\ SumOf(s) = g[Len(s)]
  BY PartialSums
<1> DEFINE G == {k \in 0..Len(s) : g[k] = h[k]}
<1>2. 0 \in G /\ \A k \in 1..Len(s) : k - 1 \in G => k \in G
  BY <1>0, <1>1
<1>3. \A k \in 0..Len(s) : k \in G
  <2> HIDE DEF G
  <2> QED
    BY <1>0, <1>2, Induction
<1> QED
  BY <1>0, <1>1, <1>3

LEMMA NumbersAreIntegers ==
  Seq(Nat) \subseteq Seq(Int)
BY SeqMonotonic

\* Two terms of a sum are not more than the sum.
LEMMA SumBounds ==
  ASSUME NEW s \in Seq(Nat)
  PROVE  /\ SumOf(s) \in Nat
         /\ \A i \in 1..Len(s) : s[i] <= SumOf(s)
         /\ \A i, j \in 1..Len(s) : i < j => s[i] + s[j] <= SumOf(s)
<1>0. Len(s) \in Nat /\ \A i \in 1..Len(s) : s[i] \in Nat
  BY LenProperties, ElementOfSeq
<1>1. PICK g \in [0..Len(s) -> Nat] :
        /\ g[0] = 0
        /\ \A k \in 1..Len(s) : g[k] = g[k - 1] + s[k]
        /\ SumOf(s) = g[Len(s)]
  <2>1. PICK g \in [0..Len(s) -> Int] :
          /\ g[0] = 0
          /\ \A k \in 1..Len(s) : g[k] = g[k - 1] + s[k]
          /\ SumOf(s) = g[Len(s)]
    BY NumbersAreIntegers, PartialSums
  <2> DEFINE G == {k \in 0..Len(s) : g[k] \in Nat}
  <2>2. 0 \in G /\ \A k \in 1..Len(s) : k - 1 \in G => k \in G
    BY <1>0, <2>1
  <2>3. \A k \in 0..Len(s) : k \in G
    <3> HIDE DEF G
    <3> QED
      BY <1>0, <2>2, Induction
  <2>4. g \in [0..Len(s) -> Nat]
    BY <2>1, <2>3
  <2> QED
    BY <2>1, <2>4
<1>2. ASSUME NEW i \in 1..Len(s), NEW j \in 1..Len(s)
      PROVE  s[i] <= SumOf(s) /\ (i < j => s[i] + s[j] <= SumOf(s))
  <2> DEFINE Good(k) == /\ i <= k => s[i] <= g[k]
                        /\ i < j /\ j <= k => s[i] + s[j] <= g[k]
             G == {k \in 0..Len(s) : Good(k)}
  <2>1. Good(0)
    BY <1>0
  <2>2. ASSUME NEW k \in 1..Len(s), Good(k - 1)
        PROVE  Good(k)
    <3>0. k \in Nat /\ i \in Nat /\ j \in Nat /\ k - 1 \in 0..Len(s)
      BY <1>0
    <3>1. g[k] = g[k - 1] + s[k] /\ g[k - 1] \in Nat /\ s[k] \in Nat
      BY <1>0, <1>1, <3>0
    <3>2. i <= k => s[i] <= g[k]
      <4>1. s[i] \in Nat /\ (i <= k - 1 => s[i] <= g[k - 1])
        BY <1>0, <2>2
      <4> HIDE DEF Good
      <4>2. CASE i = k
        BY <3>1, <4>2
      <4>3. CASE i # k
        BY <3>0, <3>1, <4>1, <4>3, SMTT(30)
      <4> QED
        BY <4>2, <4>3
    <3>3. i < j /\ j <= k => s[i] + s[j] <= g[k]
      <4>1. /\ s[i] \in Nat /\ s[j] \in Nat
            /\ i <= k - 1 => s[i] <= g[k - 1]
            /\ i < j /\ j <= k - 1 => s[i] + s[j] <= g[k - 1]
        BY <1>0, <2>2
      <4> HIDE DEF Good
      <4>2. CASE j = k
        <5>1. i < j => s[i] <= g[k - 1]
          BY <3>0, <4>1, <4>2
        <5>2. s[j] = s[k]
          BY <4>2
        <5> QED
          BY <3>1, <4>1, <5>1, <5>2, SMTT(30)
      <4>3. CASE j # k
        <5>1. i < j /\ j <= k => s[i] + s[j] <= g[k - 1]
          BY <3>0, <4>1, <4>3
        <5>2. s[i] + s[j] \in Nat
          BY <4>1, SMTT(30)
        <5>3. g[k - 1] <= g[k]
          BY <3>1
        <5>4. g[k] \in Nat
          BY <3>1
        <5> QED
          BY <3>1, <5>1, <5>2, <5>3, <5>4
      <4> QED
        BY <4>2, <4>3
    <3> QED
      BY <3>2, <3>3
  <2> HIDE DEF Good
  <2>3. 0 \in G /\ \A k \in 1..Len(s) : k - 1 \in G => k \in G
    BY <1>0, <2>1, <2>2
  <2>4. \A k \in 0..Len(s) : k \in G
    <3> HIDE DEF G
    <3> QED
      BY <1>0, <2>3, Induction
  <2>5. Good(Len(s))
    BY <1>0, <2>4
  <2> QED
    BY <1>0, <1>1, <2>5 DEF Good
<1> QED
  BY <1>0, <1>1, <1>2

LEMMA SumOfZeros ==
  ASSUME NEW s \in Seq(Nat), \A i \in 1..Len(s) : s[i] = 0
  PROVE  SumOf(s) = 0
<1> DEFINE h == [k \in 0..Len(s) |-> 0]
<1>1. Len(s) \in Nat
  BY LenProperties
<1>2. h[0] = 0 /\ h[Len(s)] = 0 /\ \A k \in 1..Len(s) : h[k] = h[k - 1] + s[k]
  BY <1>1
<1> HIDE DEF h
<1> QED
  BY <1>2, NumbersAreIntegers, SumIs

\* Every number is so many rows and a place in the next one.
LEMMA Divide ==
  ASSUME NEW n \in Nat \ {0}, NEW k \in Nat
  PROVE  \E g \in Nat, j \in 0..(n - 1) : k = g * n + j
<1> DEFINE G == {x \in 0..k : \E g \in Nat, j \in 0..(n - 1) : x = g * n + j}
<1>1. 0 \in G
  <2>1. 0 = 0 * n + 0 /\ 0 \in 0..(n - 1) /\ 0 \in 0..k
    OBVIOUS
  <2> QED
    BY <2>1
<1>2. ASSUME NEW x \in 1..k, x - 1 \in G PROVE x \in G
  <2>1. PICK g \in Nat, j \in 0..(n - 1) : x - 1 = g * n + j
    BY <1>2
  <2>2. g * n \in Nat /\ (g + 1) * n = g * n + n
    OBVIOUS
  <2>3. CASE j + 1 < n
    <3>1. x = g * n + (j + 1) /\ j + 1 \in 0..(n - 1)
      BY <2>1, <2>2, <2>3
    <3> QED
      BY <3>1
  <2>4. CASE j + 1 = n
    <3>1. x = (g + 1) * n + 0 /\ 0 \in 0..(n - 1) /\ g + 1 \in Nat
      BY <2>1, <2>2, <2>4
    <3> QED
      BY <3>1
  <2> QED
    BY <2>3, <2>4
<1>3. k \in G
  <2>1. k \in 0..k
    OBVIOUS
  <2> HIDE DEF G
  <2> QED
    BY <1>1, <1>2, <2>1, Induction
<1> QED
  BY <1>3

LEMMA OneMore ==
  ASSUME NEW g \in Nat, NEW m \in Nat
  PROVE  g * m \in Nat /\ (g + 1) * m = g * m + m
OBVIOUS

LEMMA DivideIs ==
  ASSUME NEW n \in Nat \ {0}, NEW g \in Nat, NEW j \in 0..(n - 1)
  PROVE  (g * n + j) \div n = g /\ (g * n + j) % n = j
OBVIOUS

\* l rows of n numbers, of which the first m of each row are 1 and the others 0.
LEMMA RowSums ==
  ASSUME NEW n \in Nat \ {0}, NEW l \in Nat, NEW m \in 0..n, NEW s \in Seq(Nat), Len(s) = l * n,
         \A k \in 1..Len(s) : s[k] = IF (k - 1) % n < m THEN 1 ELSE 0
  PROVE  SumOf(s) = l * m
<1> DEFINE h == [k \in 0..(l * n) |-> (k \div n) * m + (IF k % n < m THEN k % n ELSE m)]
<1>0. l * n \in Nat /\ m \in Nat /\ n \in Nat
  OBVIOUS
<1>1. h[0] = 0
  <2>1. 0 \div n = 0 /\ 0 % n = 0 /\ 0 * m = 0
    OBVIOUS
  <2> QED
    BY <1>0, <2>1
<1>2. h[l * n] = l * m
  <2>0. 0 \in 0..(n - 1)
    BY <1>0
  <2>1. (l * n + 0) \div n = l /\ (l * n + 0) % n = 0
    BY <2>0, DivideIs
  <2>2. l * m \in Nat /\ l * n + 0 = l * n
    OBVIOUS
  <2> QED
    BY <1>0, <2>1, <2>2
<1>3. ASSUME NEW k \in 1..(l * n) PROVE h[k] = h[k - 1] + s[k]
  <2>1. k - 1 \in Nat /\ k \in 0..(l * n) /\ k - 1 \in 0..(l * n) /\ k \in Nat
    BY <1>0
  <2>2. PICK g \in Nat, j \in 0..(n - 1) : k - 1 = g * n + j
    BY <2>1, Divide
  <2>3. (k - 1) \div n = g /\ (k - 1) % n = j
    BY <2>2, DivideIs
  <2>4. g * m \in Nat /\ (g + 1) * m = g * m + m /\ g * n \in Nat /\ (g + 1) * n = g * n + n
    BY <1>0, OneMore
  <2>5. h[k - 1] = g * m + (IF j < m THEN j ELSE m)
    BY <2>1, <2>3
  <2>6. s[k] = IF j < m THEN 1 ELSE 0
    BY <2>3
  <2>7. CASE j + 1 < n
    <3>1. k = g * n + (j + 1) /\ j + 1 \in 0..(n - 1)
      BY <2>1, <2>2, <2>4, <2>7
    <3>2. k \div n = g /\ k % n = j + 1
      BY <3>1, DivideIs
    <3>3. h[k] = g * m + (IF j + 1 < m THEN j + 1 ELSE m)
      BY <2>1, <3>2
    <3> HIDE DEF h
    <3> QED
      BY <2>4, <2>5, <2>6, <3>3
  <2>8. CASE j + 1 = n
    <3>1. k = (g + 1) * n + 0 /\ 0 \in 0..(n - 1) /\ g + 1 \in Nat
      BY <2>1, <2>2, <2>4, <2>8
    <3>2. k \div n = g + 1 /\ k % n = 0
      BY <3>1, DivideIs
    <3>3. h[k] = (g + 1) * m
      BY <2>1, <2>4, <3>2, SMTT(30)
    <3> HIDE DEF h
    <3> QED
      BY <2>4, <2>5, <2>6, <2>8, <3>3
  <2> QED
    BY <2>7, <2>8
<1> HIDE DEF h
<1> QED
  BY <1>1, <1>2, <1>3, NumbersAreIntegers, SumIs

---------------------------------------------------------------------------
(* Who sorts alone *)

Alone(r) == returns_early(r) \/ ~need_distributed_sort(r)

LEMMA RankFacts ==
  ASSUME input \in Problems, NEW r \in Ranks
  PROVE  /\ WellFormed(input) /\ SortRanks \in Nat /\ SortRanks > 0
         /\ sort_rank(r) \in 0..(SortRanks - 1) /\ segment_size_l(r) \in Nat
         /\ SortRanks > 1 /\ ~input.bound => group(r) + 1 = 1
<1>1. WellFormed(input)
  BY ProblemsWellFormed
<1>2. SortRanks \in Nat /\ Len(input.lines) \in Nat
  BY <1>1, LenProperties DEF SortRanks, WellFormed
<1>3. r \in Nat /\ r < Len(input.lines) * SortRanks
  BY <1>2 DEF Ranks
<1>4. SortRanks > 0
  <2> SUFFICES ASSUME SortRanks = 0 PROVE FALSE
    BY <1>2
  <2>1. Len(input.lines) * SortRanks = 0
    BY <1>2
  <2> QED
    BY <1>3, <2>1
<1>5. sort_rank(r) \in 0..(SortRanks - 1)
  BY <1>2, <1>3, <1>4 DEF sort_rank
<1>6. segment_size_l(r) \in Nat
  <2>1. sort_rank(r) + 1 \in 1..Len(input.sizes)
    BY <1>2, <1>5 DEF SortRanks
  <2>2. input.sizes \in Seq(Nat)
    BY <1>1 DEF WellFormed
  <2> QED
    BY <2>1, <2>2, ElementOfSeq DEF segment_size_l
<1>7. ASSUME ~input.bound PROVE group(r) + 1 = 1
  <2>1. Len(input.lines) = 1
    BY <1>1, <1>7 DEF WellFormed
  <2>2. r \in 0..(SortRanks - 1)
    BY <1>2, <1>3, <2>1
  <2> QED
    BY <1>2, <1>4, <2>2 DEF group
<1> QED
  BY <1>1, <1>2, <1>4, <1>5, <1>6, <1>7

\* The tasks of an unbound sort are alone when there is nothing to sort at all.
LEMMA AloneUnbound ==
  ASSUME input \in Problems, NEW r \in Ranks, SortRanks > 1, ~input.bound
  PROVE  Alone(r) <=> segment_size_g = 0
<1>1. /\ WellFormed(input) /\ SortRanks \in Nat /\ sort_rank(r) + 1 \in 1..SortRanks
      /\ segment_size_l(r) \in Nat /\ group(r) + 1 = 1
  BY RankFacts
<1>2. input.sizes \in Seq(Nat) /\ Len(input.lines[1]) = 1
  BY <1>1 DEF WellFormed
<1>3. segment_size_g \in Nat /\ segment_size_l(r) <= segment_size_g
  BY <1>1, <1>2, SumBounds DEF segment_size_l, segment_size_g, SortRanks
<1>4. volume(r) = segment_size_l(r)
  <2>1. num_segments_l(r) = IF segment_size_l(r) > 0 THEN 1 ELSE 0
    BY <1>1, <1>2 DEF num_segments_l
  <2>2. volume(r) = segment_size_l(r) * (IF segment_size_l(r) > 0 THEN 1 ELSE 0)
    BY <2>1, Zenon DEF volume
  <2> QED
    BY <1>1, <2>2
<1> QED
  BY <1>1, <1>3, <1>4 DEF Alone, returns_early, need_distributed_sort

\* Those of a bound sort likewise: with elements, at least two parts of a line have some.
LEMMA AloneBound ==
  ASSUME input \in Problems, NEW r \in Ranks, SortRanks > 1, input.bound
  PROVE  Alone(r) <=> segment_size_g = 0
<1>1. /\ WellFormed(input) /\ SortRanks \in Nat /\ sort_rank(r) + 1 \in 1..SortRanks
      /\ segment_size_l(r) \in Nat
  BY RankFacts
<1>2. /\ input.sizes \in Seq(Nat) /\ DOMAIN input.sizes = 1..SortRanks
      /\ \A k \in 1..SortRanks : input.sizes[k] \in Nat /\ input.sizes[k] <= input.sizes[1]
      /\ input.sizes[1] > 0 => input.sizes[2] > 0
  <2>1. input.sizes \in Seq(Nat)
    BY <1>1 DEF WellFormed
  <2>2. DOMAIN input.sizes = 1..SortRanks
    BY <2>1, LenProperties DEF SortRanks
  <2>3. \A k \in 1..SortRanks : input.sizes[k] \in Nat
    BY <2>1, ElementOfSeq DEF SortRanks
  <2>4. /\ \A k \in DOMAIN input.sizes : input.sizes[k] <= input.sizes[1]
        /\ input.sizes[1] > 0 => input.sizes[2] > 0
    BY <1>1 DEF WellFormed, SortRanks
  <2> QED
    BY <2>1, <2>2, <2>3, <2>4
<1>3. Alone(r) <=> segment_size_l(r) = segment_size_g
  BY <1>1 DEF Alone, returns_early, need_distributed_sort
<1>4. CASE input.sizes[1] = 0
  <2>1. \A k \in 1..Len(input.sizes) : input.sizes[k] = 0
    BY <1>1, <1>2, <1>4 DEF SortRanks
  <2>2. segment_size_g = 0
    BY <1>2, <2>1, SumOfZeros DEF segment_size_g
  <2>3. segment_size_l(r) = 0
    BY <1>1, <2>1 DEF segment_size_l, SortRanks
  <2> QED
    BY <1>3, <2>2, <2>3
<1>5. CASE input.sizes[1] # 0
  <2>1. 1 \in 1..SortRanks /\ 2 \in 1..SortRanks
    BY <1>1
  <2>2. SumOf(input.sizes) \in Nat /\ input.sizes[1] + input.sizes[2] <= SumOf(input.sizes)
    BY <1>2, <2>1, SumBounds DEF SortRanks
  <2>3. segment_size_l(r) <= input.sizes[1]
    BY <1>1, <1>2 DEF segment_size_l
  <2>4. input.sizes[1] \in Nat /\ input.sizes[2] \in Nat /\ input.sizes[2] > 0
    BY <1>2, <1>5, <2>1
  <2> QED
    BY <1>1, <1>3, <1>5, <2>2, <2>3, <2>4 DEF segment_size_g
<1> QED
  BY <1>4, <1>5

\* Alone is a matter of the launch: all its tasks, or none.
LEMMA AloneTogether ==
  ASSUME input \in Problems, NEW r \in Ranks, NEW q \in Ranks
  PROVE  Alone(r) <=> Alone(q)
<1>1. SortRanks \in Nat /\ SortRanks > 0
  BY RankFacts
<1>2. CASE SortRanks = 1
  BY <1>2 DEF Alone, need_distributed_sort
<1>3. CASE SortRanks > 1
  <2>1. CASE input.bound
    BY <1>3, <2>1, AloneBound
  <2>2. CASE ~input.bound
    BY <1>3, <2>2, AloneUnbound
  <2> QED
    BY <2>1, <2>2
<1> QED
  BY <1>1, <1>2, <1>3
---------------------------------------------------------------------------
(* The collectives of a sort, and the two kinds of steps *)

Collectives == Exchanges + (IF input.bound THEN 2 ELSE 0)
Collective(n) ==
  IF n = 1 THEN "workers" ELSE IF n = 2 THEN "samples" ELSE IF n = 3 THEN "sizes" ELSE IF n = 4 THEN "values"
  ELSE IF n = Exchanges THEN "indices" ELSE IF n = Exchanges + 1 THEN "surplus" ELSE "neighbours"

\* Task r joins its next collective.
Joins(r) ==
  /\ out[r] = << >> /\ Len(posted[r]) < Collectives
  /\ posted[r] = << >> => ~Alone(r)
  /\ \A q \in Ranks : Len(posted[q]) >= Len(posted[r])
  /\ \E x : /\ x.op = Collective(Len(posted[r]) + 1)
           /\ posted' = [posted EXCEPT ![r] = Append(@, x)]
  /\ UNCHANGED << input, out >>
\* Task r comes to its end.
Returns(r) ==
  /\ out[r] = << >>
  /\ IF posted[r] = << >> THEN Alone(r) ELSE Len(posted[r]) = Collectives
  /\ \E x : out' = [out EXCEPT ![r] = << x >>]
  /\ UNCHANGED << input, posted >>

\* s is a sequence, of whatever.
IsSequence(s) == \E S : s \in Seq(S)

LEMMA SequenceFacts ==
  ASSUME NEW s, IsSequence(s)
  PROVE  Len(s) \in Nat /\ DOMAIN s = 1..Len(s) /\ (s = << >> <=> Len(s) = 0)
<1>1. PICK S : s \in Seq(S)
  BY DEF IsSequence
<1> QED
  BY <1>1, LenProperties, EmptySeq

LEMMA AppendFacts ==
  ASSUME NEW s, IsSequence(s), NEW x
  PROVE  /\ IsSequence(Append(s, x)) /\ Len(Append(s, x)) = Len(s) + 1
         /\ \A k \in 1..Len(s) : Append(s, x)[k] = s[k]
         /\ Append(s, x)[Len(s) + 1] = x
<1>1. PICK S : s \in Seq(S)
  BY DEF IsSequence
<1> DEFINE X == S \union {x}
<1>2. s \in Seq(X) /\ x \in X
  BY <1>1, SeqMonotonic
<1> HIDE DEF X
<1>3. /\ Append(s, x) \in Seq(X) /\ Len(Append(s, x)) = Len(s) + 1
      /\ \A k \in 1..Len(s) : Append(s, x)[k] = s[k]
      /\ Append(s, x)[Len(s) + 1] = x
  BY <1>2, AppendProperties
<1> QED
  BY <1>3 DEF IsSequence

\* f[i] is the concatenation of the first i sequences of s.
Flattened(s, f, n) == f = [i \in 1..n |-> IF i = 1 THEN s[i] ELSE f[i - 1] \o s[i]]

LEMMA FlattenExists ==
  ASSUME NEW s, NEW n \in Nat, NEW X, \A i \in 1..n : s[i] \in Seq(X)
  PROVE  \E f \in [1..n -> Seq(X)] : Flattened(s, f, n)
<1> DEFINE Good(k) == \E f \in [1..k -> Seq(X)] : Flattened(s, f, k)
           G == {k \in 0..n : Good(k)}
<1>1. Good(0)
  <2> DEFINE f == [i \in 1..0 |-> << >>]
  <2>1. f \in [1..0 -> Seq(X)] /\ Flattened(s, f, 0)
    BY DEF Flattened
  <2> HIDE DEF f
  <2> QED
    BY <2>1
<1>2. ASSUME NEW k \in 1..n, Good(k - 1) PROVE Good(k)
  <2>1. PICK f \in [1..(k - 1) -> Seq(X)] : Flattened(s, f, k - 1)
    BY <1>2
  <2> DEFINE g == [i \in 1..k |-> IF i = k THEN IF k = 1 THEN s[k] ELSE f[k - 1] \o s[k] ELSE f[i]]
  <2>2. s[k] \in Seq(X) /\ (k # 1 => f[k - 1] \in Seq(X) /\ f[k - 1] \o s[k] \in Seq(X))
    <3>1. k # 1 => k - 1 \in 1..(k - 1)
      OBVIOUS
    <3> QED
      BY <3>1, ConcatProperties
  <2>3. \A i \in 1..k : i # k => i \in 1..(k - 1) /\ f[i] \in Seq(X)
    OBVIOUS
  <2>4. g \in [1..k -> Seq(X)]
    BY <2>2, <2>3
  <2>5. ASSUME NEW i \in 1..k PROVE g[i] = IF i = 1 THEN s[i] ELSE g[i - 1] \o s[i]
    <3>1. i # 1 => i - 1 \in 1..k /\ g[i - 1] = f[i - 1]
      OBVIOUS
    <3>2. CASE i = k
      BY <3>1, <3>2
    <3>3. CASE i # k
      <4>1. f[i] = IF i = 1 THEN s[i] ELSE f[i - 1] \o s[i]
        BY <2>1, <2>3, <3>3 DEF Flattened
      <4>2. g[i] = f[i]
        BY <3>3
      <4> HIDE DEF g
      <4> QED
        BY <3>1, <4>1, <4>2
    <3> QED
      BY <3>2, <3>3
  <2>6. Flattened(s, g, k)
    BY <2>5 DEF Flattened
  <2> HIDE DEF g
  <2> QED
    BY <2>4, <2>6
<1> HIDE DEF Good
<1>3. 0 \in G /\ \A k \in 1..n : k - 1 \in G => k \in G
  BY <1>1, <1>2
<1>4. \A k \in 0..n : k \in G
  <2> HIDE DEF G
  <2> QED
    BY <1>3, Induction
<1>5. Good(n)
  BY <1>4
<1> QED
  BY <1>5 DEF Good

\* A sequence of n sequences of length l has n * l elements.
LEMMA FlattenLength ==
  ASSUME NEW n \in Nat, NEW l \in Nat, NEW s, IsSequence(s), Len(s) = n, NEW X,
         \A i \in 1..n : s[i] \in Seq(X) /\ Len(s[i]) = l
  PROVE  Len(FlattenSeq(s)) = n * l
<1>1. CASE n = 0
  <2>1. FlattenSeq(s) = s
    BY <1>1 DEF FlattenSeq
  <2> QED
    BY <1>1, <2>1
<1>2. CASE n # 0
  <2> DEFINE F == CHOOSE f : Flattened(s, f, Len(s))
  <2>1. FlattenSeq(s) = F[Len(s)]
    BY <1>2 DEF FlattenSeq, Flattened
  <2>2. PICK f \in [1..n -> Seq(X)] : Flattened(s, f, n)
    BY FlattenExists
  <2>3. Flattened(s, F, n)
    BY <2>2, Zenon
  <2> HIDE DEF F
  <2>4. \A i \in 1..n : F[i] = IF i = 1 THEN s[i] ELSE F[i - 1] \o s[i]
    BY <2>3 DEF Flattened
  <2> DEFINE Right(k) == k = 0 \/ (F[k] \in Seq(X) /\ Len(F[k]) = k * l)
             G == {k \in 0..n : Right(k)}
  <2>5. Right(0)
    BY Zenon
  <2>6. ASSUME NEW k \in 1..n, Right(k - 1) PROVE Right(k)
    <3>1. CASE k = 1
      <4>1. F[1] = s[1] /\ 1 * l = l
        BY <2>4, <3>1
      <4> QED
        BY <3>1, <4>1
    <3>2. CASE k # 1
      <4>1. k - 1 # 0 /\ k - 1 \in Nat
        BY <3>2
      <4>2. F[k - 1] \in Seq(X) /\ Len(F[k - 1]) = (k - 1) * l
        BY <2>6, <4>1
      <4>3. F[k] = F[k - 1] \o s[k]
        BY <2>4, <3>2
      <4> HIDE DEF Right
      <4>4. F[k] \in Seq(X) /\ Len(F[k]) = Len(F[k - 1]) + l
        <5>1. s[k] \in Seq(X) /\ Len(s[k]) = l
          OBVIOUS
        <5>2. F[k - 1] \in Seq(X)
          BY <4>2
        <5>3. /\ F[k - 1] \o s[k] \in Seq(X)
              /\ Len(F[k - 1] \o s[k]) = Len(F[k - 1]) + Len(s[k])
          BY <5>1, <5>2, ConcatProperties
        <5> QED
          BY <4>3, <5>1, <5>3
      <4>5. (k - 1 + 1) * l = (k - 1) * l + l /\ k - 1 + 1 = k
        BY <4>1, OneMore
      <4> QED
        BY <4>2, <4>4, <4>5 DEF Right
    <3> QED
      BY <3>1, <3>2
  <2> HIDE DEF Right
  <2>7. 0 \in G /\ \A k \in 1..n : k - 1 \in G => k \in G
    BY <2>5, <2>6
  <2>8. n \in G
    <3>1. n \in 0..n
      OBVIOUS
    <3> HIDE DEF G
    <3> QED
      BY <2>7, <3>1, Induction
  <2>9. Right(n)
    BY <2>8
  <2> QED
    BY <1>2, <2>1, <2>9 DEF Right
<1> QED
  BY <1>1, <1>2

---------------------------------------------------------------------------
(* The inductive invariant *)

\* Each task joined some first collectives of the sort, none if it sorts alone, and came to its end
\* behind the last one.
Followed(r) ==
  /\ IsSequence(posted[r]) /\ Len(posted[r]) <= Collectives
  /\ \A n \in 1..Len(posted[r]) : posted[r][n].op = Collective(n)
  /\ posted[r] # << >> => ~Alone(r)
  /\ out[r] # << >> => IF posted[r] = << >> THEN Alone(r) ELSE Len(posted[r]) = Collectives
InStep ==
  /\ input \in Problems /\ DOMAIN posted = Ranks /\ DOMAIN out = Ranks
  /\ \A r \in Ranks : Followed(r)

LEMMA InStepInit ==
  Init => InStep
<1> SUFFICES ASSUME Init PROVE InStep
  OBVIOUS
<1>1. << >> \in Seq({}) /\ Len(<< >>) = 0 /\ Collectives \in Nat
  BY EmptySeq DEF Collectives, Exchanges
<1>2. ASSUME NEW r \in Ranks PROVE Followed(r)
  <2>1. posted[r] = << >> /\ out[r] = << >>
    BY DEF Init
  <2> QED
    BY <1>1, <2>1 DEF Followed, IsSequence
<1> QED
  BY <1>2 DEF Init, InStep

---------------------------------------------------------------------------
(* Every step joins the next collective, or ends *)

\* What it takes to be in the n-th collective.
LEMMA ReturnedMeans ==
  ASSUME InStep, NEW r \in Ranks, NEW n \in 1..(Collectives - 1), Returned(r, n)
  PROVE  /\ out[r] = << >> /\ Len(posted[r]) = n /\ Len(posted[r]) < Collectives /\ posted[r] # << >>
         /\ \A q \in Ranks : Len(posted[q]) >= Len(posted[r])
<1>1. Collectives \in Nat
  BY DEF Collectives, Exchanges
<1>2. posted[r] # << >>
  BY EmptySeq DEF Returned
<1> QED
  BY <1>1, <1>2 DEF Returned

\* Posting is joining.
LEMMA PostJoins ==
  ASSUME InStep, NEW r \in Ranks, NEW n \in 1..(Collectives - 1), Returned(r, n), NEW op, op = Collective(n + 1),
         NEW send, NEW recv, Post(r, op, send, recv), UNCHANGED << input, out >>
  PROVE  Joins(r)
<1>1. \E x : x.op = op /\ posted' = [posted EXCEPT ![r] = Append(@, x)]
  BY DEF Post
<1> QED
  BY <1>1, ReturnedMeans DEF Joins

LEMMA ReturnEarlyReturns ==
  ASSUME InStep, NEW r \in Ranks, ReturnEarly(r) PROVE Returns(r)
<1>1. Alone(r)
  BY DEF ReturnEarly, Alone
<1> QED
  BY <1>1 DEF ReturnEarly, Returns

LEMMA SortAloneReturns ==
  ASSUME InStep, NEW r \in Ranks, SortAlone(r) PROVE Returns(r)
<1>1. Alone(r)
  BY DEF SortAlone, Alone
<1>2. \E x : out' = [out EXCEPT ![r] = << x >>]
  BY DEF SortAlone
<1> QED
  BY <1>1, <1>2 DEF SortAlone, Returns

LEMMA LocalSortJoins ==
  ASSUME InStep, NEW r \in Ranks, LocalSort(r) PROVE Joins(r)
<1>1. ~Alone(r)
  BY DEF LocalSort, Alone
<1>2. Len(posted[r]) = 0 /\ Collectives \in Nat /\ 0 < Collectives
  BY EmptySeq DEF LocalSort, Collectives, Exchanges
<1>3. \A q \in Ranks : Len(posted[q]) >= Len(posted[r])
  BY <1>2, SequenceFacts DEF InStep, Followed
<1>4. \E x : x.op = "workers" /\ posted' = [posted EXCEPT ![r] = Append(@, x)]
  <2>1. PICK send, recv : Post(r, "workers", send, recv)
    BY DEF LocalSort
  <2> QED
    BY <2>1 DEF Post
<1>5. Collective(Len(posted[r]) + 1) = "workers"
  BY <1>2 DEF Collective
<1> QED
  BY <1>1, <1>2, <1>3, <1>4, <1>5 DEF LocalSort, Joins

LEMMA SelectSamplesJoins ==
  ASSUME InStep, NEW r \in Ranks, SelectSamples(r) PROVE Joins(r)
<1>1. PICK send, recv : Post(r, "samples", send, recv)
  BY DEF SelectSamples
<1>2. 1 \in 1..(Collectives - 1) /\ "samples" = Collective(1 + 1)
  BY DEF Collectives, Exchanges, Collective
<1> QED
  BY <1>1, <1>2, PostJoins DEF SelectSamples

LEMMA SelectSplittersJoins ==
  ASSUME InStep, NEW r \in Ranks, SelectSplitters(r) PROVE Joins(r)
<1>1. PICK send, recv : Post(r, "sizes", send, recv)
  BY DEF SelectSplitters
<1>2. 2 \in 1..(Collectives - 1) /\ "sizes" = Collective(2 + 1)
  BY DEF Collectives, Exchanges, Collective
<1> QED
  BY <1>1, <1>2, PostJoins DEF SelectSplitters

LEMMA SendValuesJoins ==
  ASSUME InStep, NEW r \in Ranks, SendValues(r) PROVE Joins(r)
<1>1. PICK send, recv : Post(r, "values", send, recv)
  BY DEF SendValues, SendParts
<1>2. 3 \in 1..(Collectives - 1) /\ "values" = Collective(3 + 1)
  BY DEF Collectives, Exchanges, Collective
<1> QED
  BY <1>1, <1>2, PostJoins DEF SendValues

LEMMA SendIndicesJoins ==
  ASSUME InStep, NEW r \in Ranks, SendIndices(r) PROVE Joins(r)
<1>1. PICK send, recv : Post(r, "indices", send, recv)
  BY DEF SendIndices, SendParts
<1>2. 4 \in 1..(Collectives - 1) /\ "indices" = Collective(4 + 1)
  BY DEF SendIndices, Collectives, Exchanges, Collective
<1> QED
  BY <1>1, <1>2, PostJoins DEF SendIndices

LEMMA MergeSteps ==
  ASSUME InStep, NEW r \in Ranks, Merge(r) PROVE Joins(r) \/ Returns(r)
<1>1. CASE input.bound
  <2>1. PICK send, recv : Post(r, "surplus", send, recv)
    BY <1>1 DEF Merge
  <2>2. Exchanges \in 1..(Collectives - 1) /\ "surplus" = Collective(Exchanges + 1)
    BY <1>1 DEF Collectives, Exchanges, Collective
  <2>3. Returned(r, Exchanges) /\ UNCHANGED << input, out >>
    BY <1>1 DEF Merge
  <2> QED
    BY <2>1, <2>2, <2>3, PostJoins
<1>2. CASE ~input.bound
  <2>1. /\ Returned(r, Exchanges) /\ UNCHANGED << input, posted >>
        /\ \E x : out' = [out EXCEPT ![r] = << x >>]
    BY <1>2 DEF Merge
  <2>2. Collectives = Exchanges /\ Exchanges \in Nat /\ Exchanges # 0
    BY <1>2 DEF Collectives, Exchanges
  <2>3. out[r] = << >> /\ Len(posted[r]) = Collectives /\ posted[r] # << >>
    BY <2>1, <2>2, EmptySeq DEF Returned
  <2> QED
    BY <2>1, <2>3 DEF Returns
<1> QED
  BY <1>1, <1>2

LEMMA BalanceJoins ==
  ASSUME InStep, NEW r \in Ranks, Balance(r) PROVE Joins(r)
<1>1. PICK send, recv : Post(r, "neighbours", send, recv)
  BY DEF Balance
<1>2. Exchanges + 1 \in 1..(Collectives - 1) /\ "neighbours" = Collective((Exchanges + 1) + 1)
  BY DEF Balance, Collectives, Exchanges, Collective
<1>3. Returned(r, Exchanges + 1) /\ UNCHANGED << input, out >>
  BY DEF Balance
<1> QED
  BY <1>1, <1>2, <1>3, PostJoins

LEMMA FinishReturns ==
  ASSUME InStep, NEW r \in Ranks, Finish(r) PROVE Returns(r)
<1>1. Collectives = Exchanges + 2 /\ Exchanges \in Nat
  BY DEF Finish, Collectives, Exchanges
<1>2. out[r] = << >> /\ Len(posted[r]) = Collectives /\ posted[r] # << >>
  BY <1>1, EmptySeq DEF Finish, Returned
<1>3. \E x : out' = [out EXCEPT ![r] = << x >>]
  BY DEF Finish
<1> QED
  BY <1>2, <1>3 DEF Finish, Returns

LEMMA StepsFollow ==
  ASSUME InStep, NEW r \in Ranks, Step(r) PROVE Joins(r) \/ Returns(r)
  BY ReturnEarlyReturns, SortAloneReturns, LocalSortJoins, SelectSamplesJoins, SelectSplittersJoins, SendValuesJoins,
     SendIndicesJoins, MergeSteps, BalanceJoins, FinishReturns DEF Step
---------------------------------------------------------------------------
(* The invariant holds *)

LEMMA SameInput ==
  ASSUME input' = input, NEW r
  PROVE  Ranks' = Ranks /\ Collectives' = Collectives /\ Alone(r)' = Alone(r) /\ \A n : Collective(n)' = Collective(n)
<1>1. Ranks' = Ranks /\ Collectives' = Collectives /\ \A n : Collective(n)' = Collective(n)
  BY DEF Ranks, SortRanks, Collectives, Exchanges, Collective
<1>2. SortRanks' = SortRanks /\ segment_size_g' = segment_size_g
  BY DEF SortRanks, segment_size_g
<1>3. sort_rank(r)' = sort_rank(r) /\ group(r)' = group(r)
  BY <1>2 DEF sort_rank, group
<1>4. segment_size_l(r)' = segment_size_l(r)
  BY <1>3 DEF segment_size_l
<1>5. volume(r)' = volume(r)
  BY <1>3, <1>4 DEF volume, num_segments_l
<1> QED
  BY <1>1, <1>2, <1>4, <1>5 DEF Alone, returns_early, need_distributed_sort

\* A task that takes no step goes on to follow the order.
LEMMA OthersFollow ==
  ASSUME NEW q, Followed(q), input' = input, posted'[q] = posted[q], out'[q] = out[q]
  PROVE  Followed(q)'
BY SameInput DEF Followed

LEMMA JoinsFollowed ==
  ASSUME InStep, NEW r \in Ranks, Joins(r) PROVE Followed(r)'
<1>1. PICK x : x.op = Collective(Len(posted[r]) + 1) /\ posted' = [posted EXCEPT ![r] = Append(@, x)]
  BY DEF Joins
<1>2. input' = input /\ out'[r] = << >> /\ posted'[r] = Append(posted[r], x)
  BY <1>1 DEF Joins, InStep
<1>3. IsSequence(posted[r]) /\ Len(posted[r]) \in Nat /\ \A n \in 1..Len(posted[r]) : posted[r][n].op = Collective(n)
  BY SequenceFacts DEF InStep, Followed
<1>4. /\ IsSequence(posted'[r]) /\ Len(posted'[r]) = Len(posted[r]) + 1
      /\ \A n \in 1..Len(posted[r]) : posted'[r][n] = posted[r][n]
      /\ posted'[r][Len(posted[r]) + 1] = x
  BY <1>2, <1>3, AppendFacts
<1>5. \A n \in 1..Len(posted'[r]) : posted'[r][n].op = Collective(n)
  <2> SUFFICES ASSUME NEW n \in 1..Len(posted'[r]) PROVE posted'[r][n].op = Collective(n)
    OBVIOUS
  <2>1. CASE n = Len(posted[r]) + 1
    BY <1>1, <1>4, <2>1
  <2>2. CASE n \in 1..Len(posted[r])
    BY <1>3, <1>4, <2>2
  <2> QED
    BY <1>3, <1>4, <2>1, <2>2
<1>6. ~Alone(r)
  BY DEF Joins, InStep, Followed
<1>7. Collectives \in Nat /\ Len(posted'[r]) <= Collectives
  BY <1>3, <1>4 DEF Joins, Collectives, Exchanges
<1> QED
  BY <1>2, <1>4, <1>5, <1>6, <1>7, SameInput DEF Followed

LEMMA ReturnsFollowed ==
  ASSUME InStep, NEW r \in Ranks, Returns(r) PROVE Followed(r)'
<1>1. input' = input /\ posted' = posted
  BY DEF Returns
<1>2. IF posted[r] = << >> THEN Alone(r) ELSE Len(posted[r]) = Collectives
  BY DEF Returns
<1>3. Followed(r)
  BY DEF InStep
<1> QED
  BY <1>1, <1>2, <1>3, SameInput DEF Followed

LEMMA InStepKept ==
  InStep /\ [Next]_vars => InStep'
<1> SUFFICES ASSUME InStep, [Next]_vars PROVE InStep'
  OBVIOUS
<1>1. CASE UNCHANGED vars
  <2>1. input' = input /\ posted' = posted /\ out' = out
    BY <1>1 DEF vars
  <2>2. \A q \in Ranks : Followed(q)'
    BY <2>1, OthersFollow DEF InStep
  <2> QED
    BY <2>1, <2>2, SameInput DEF InStep
<1>2. ASSUME NEW r \in Ranks, Step(r) PROVE InStep'
  <2>1. Joins(r) \/ Returns(r)
    BY <1>2, StepsFollow
  <2>2. /\ input' = input /\ DOMAIN posted' = DOMAIN posted /\ DOMAIN out' = DOMAIN out
        /\ \A q \in Ranks : q # r => posted'[q] = posted[q] /\ out'[q] = out[q]
    BY <2>1 DEF Joins, Returns, InStep
  <2>3. \A q \in Ranks : Followed(q)'
    BY <2>1, <2>2, OthersFollow, JoinsFollowed, ReturnsFollowed DEF InStep
  <2> QED
    BY <2>2, <2>3, SameInput DEF InStep
<1> QED
  BY <1>1, <1>2 DEF Next

LEMMA AlwaysInStep ==
  Spec => []InStep
BY InStepInit, InStepKept, PTL DEF Spec

---------------------------------------------------------------------------
(* What follows from it *)

\* Two tasks that are in the same collective, or were, called the same operation in it: no task skips
\* a collective and none calls another one, whatever part of the lines it holds (the part of
\* ExchangesFit about operations).
SameOperations ==
  \A r, q \in Ranks : \A n \in DOMAIN posted[r] \intersect DOMAIN posted[q] : posted[r][n].op = posted[q][n].op

THEOREM SameCollectives == Spec => []SameOperations
<1>1. InStep => SameOperations
  BY SequenceFacts DEF InStep, Followed, SameOperations
<1> QED
  BY <1>1, AlwaysInStep, PTL

\* A task that has not started yet, or that is in a collective which all the tasks joined.
CanGoOn(r) == out[r] = << >> /\ (posted[r] = << >> \/ Returned(r, Len(posted[r])))

\* As long as a task runs, one can go on: tasks never wait for each other in a circle, nor for one that
\* sorted alone or returned early (sort_template.inl, sort_cpu.inl:954).
THEOREM NobodyWaits == Spec => [](~Done => \E r \in Ranks : CanGoOn(r))
<1>1. InStep => (~Done => \E r \in Ranks : CanGoOn(r))
  <2> SUFFICES ASSUME InStep, ~Done PROVE \E r \in Ranks : CanGoOn(r)
    OBVIOUS
  <2> DEFINE Lens == {Len(posted[q]) : q \in {p \in Ranks : out[p] = << >>}}
  <2>1. \A q \in Ranks : Followed(q) /\ Len(posted[q]) \in Nat /\ (posted[q] = << >> <=> Len(posted[q]) = 0)
    BY SequenceFacts DEF InStep, Followed
  <2>2. Lens \subseteq Nat /\ Lens # {}
    BY <2>1 DEF Done
  <2>3. PICK n \in Lens : \A m \in Lens : n <= m
    <3> HIDE DEF Lens
    <3> QED
      BY <2>2, LeastNat
  <2>4. PICK r \in Ranks : out[r] = << >> /\ Len(posted[r]) = n
    BY <2>3
  <2>5. ASSUME NEW q \in Ranks, posted[r] # << >> PROVE Len(posted[q]) >= Len(posted[r])
    <3>1. CASE out[q] = << >>
      <4>1. Len(posted[q]) \in Lens
        BY <3>1
      <4> QED
        BY <2>1, <2>3, <2>4, <4>1
    <3>2. CASE out[q] # << >>
      <4>1. ~Alone(r) /\ Len(posted[r]) <= Collectives
        BY <2>1, <2>5 DEF Followed
      <4>2. ~Alone(q)
        BY <4>1, AloneTogether DEF InStep
      <4>3. Len(posted[q]) = Collectives
        BY <2>1, <3>2, <4>2 DEF Followed
      <4> QED
        BY <2>1, <4>1, <4>3
    <3> QED
      BY <3>1, <3>2
  <2> QED
    BY <2>4, <2>5 DEF CanGoOn, Returned
<1> QED
  BY <1>1, AlwaysInStep, PTL

\* A step of a task is one collective more, with those before as they were, or its end: it joins the
\* next only when all the tasks joined the last one, and ends behind the last one or without any.
THEOREM OneAtATime == Spec => [][\E r \in Ranks : Joins(r) \/ Returns(r)]_<< input, posted, out >>
<1>1. InStep /\ [Next]_vars => [\E r \in Ranks : Joins(r) \/ Returns(r)]_<< input, posted, out >>
  BY StepsFollow DEF Next, vars
<1> QED
  BY <1>1, AlwaysInStep, PTL DEF Spec

---------------------------------------------------------------------------
(* Who exchanges with whom *)

\* How many tasks of a group have elements, and how many of them a task takes for its group.
Populated == Cardinality({k \in DOMAIN input.sizes : input.sizes[k] > 0})
Exchangers(r) == IF Populated < SortRanks /\ volume(r) = 0 THEN 0 ELSE Populated

LEMMA PopulatedFirst ==
  ASSUME input \in Problems, NEW r \in Ranks, ~Alone(r)
  PROVE  /\ Populated \in 1..SortRanks
         /\ \A q \in Ranks : segment_size_l(q) > 0 <=> sort_rank(q) < Populated
<1>1. SortRanks \in Nat /\ SortRanks > 1 /\ WellFormed(input)
  BY RankFacts DEF Alone, need_distributed_sort
<1>2. input.sizes \in Seq(Nat) /\ DOMAIN input.sizes = 1..SortRanks
  BY <1>1, LenProperties DEF WellFormed, SortRanks
<1>3. SumOf(input.sizes) > 0
  <2>1. segment_size_g # 0
    BY <1>1, AloneBound, AloneUnbound
  <2>2. segment_size_g \in Nat
    BY <1>2, SumBounds DEF segment_size_g
  <2> QED
    BY <2>1, <2>2 DEF segment_size_g
<1>4. PICK n \in 1..SortRanks : \A k \in 1..SortRanks : input.sizes[k] > 0 <=> k <= n
  BY <1>1, <1>2, <1>3 DEF WellFormed, OnlyLast, SortRanks
<1>5. {k \in DOMAIN input.sizes : input.sizes[k] > 0} = 1..n
  BY <1>1, <1>2, <1>4
<1>6. Populated = n
  <2>1. Cardinality(1..n) = n
    BY <1>1, FS_Interval
  <2> QED
    BY <1>5, <2>1 DEF Populated
<1>7. ASSUME NEW q \in Ranks PROVE segment_size_l(q) > 0 <=> sort_rank(q) < Populated
  <2>1. sort_rank(q) \in 0..(SortRanks - 1)
    BY RankFacts
  <2> QED
    BY <1>1, <1>4, <1>6, <2>1 DEF segment_size_l
<1> QED
  BY <1>6, <1>7

LEMMA RowIs ==
  ASSUME NEW n \in Nat \ {0}, NEW l \in Nat, NEW x \in 0..(l * n - 1)
  PROVE  x \div n \in 0..(l - 1)
OBVIOUS

LEMMA RankParts ==
  ASSUME input \in Problems, NEW r \in Ranks
  PROVE  /\ group(r) \in Nat /\ r = group(r) * SortRanks + sort_rank(r)
         /\ group(r) + 1 \in 1..Len(input.lines) /\ num_segments_l(r) \in Nat
         /\ Len(input.lines) \in Nat /\ Len(input.lines[group(r) + 1]) \in Nat
<1>1. SortRanks \in Nat \ {0} /\ WellFormed(input) /\ segment_size_l(r) \in Nat
  BY RankFacts
<1>2. input.lines \in Seq(Seq(Seq(Values))) /\ Len(input.lines) \in Nat
  BY <1>1, LenProperties DEF WellFormed
<1>3. r \in Nat /\ r \in 0..(Len(input.lines) * SortRanks - 1)
  BY <1>1, <1>2 DEF Ranks
<1>4. PICK g \in Nat, j \in 0..(SortRanks - 1) : r = g * SortRanks + j
  BY <1>1, <1>3, Divide
<1>5. group(r) = g /\ sort_rank(r) = j
  BY <1>1, <1>4, DivideIs DEF group, sort_rank
<1>6. r \div SortRanks \in 0..(Len(input.lines) - 1)
  BY <1>1, <1>2, <1>3, RowIs
<1>7. group(r) + 1 \in 1..Len(input.lines)
  BY <1>2, <1>6 DEF group
<1>8. Len(input.lines[group(r) + 1]) \in Nat
  BY <1>2, <1>7, ElementOfSeq, LenProperties
<1> QED
  BY <1>2, <1>4, <1>5, <1>7, <1>8 DEF num_segments_l

\* The first tasks of r's group.
LEMMA GroupIs ==
  ASSUME input \in Problems, NEW r \in Ranks, NEW q \in Ranks, NEW n \in 0..SortRanks
  PROVE  q \in Group(r, n) <=> group(q) = group(r) /\ sort_rank(q) < n
<1>1. /\ SortRanks \in Nat \ {0} /\ sort_rank(q) \in 0..(SortRanks - 1)
      /\ group(r) \in Nat /\ group(q) \in Nat /\ q = group(q) * SortRanks + sort_rank(q)
  BY RankFacts, RankParts
<1>2. ASSUME q \in Group(r, n) PROVE group(q) = group(r) /\ sort_rank(q) < n
  <2>1. PICK k \in 0..(n - 1) : q = group(r) * SortRanks + k
    BY <1>2 DEF Group
  <2>2. k \in 0..(SortRanks - 1) /\ k < n
    BY <1>1
  <2>3. q \div SortRanks = group(r) /\ q % SortRanks = k
    BY <1>1, <2>1, <2>2, DivideIs
  <2> QED
    BY <2>2, <2>3 DEF group, sort_rank
<1>3. ASSUME group(q) = group(r), sort_rank(q) < n PROVE q \in Group(r, n)
  <2>1. sort_rank(q) \in 0..(n - 1)
    BY <1>1, <1>3
  <2> QED
    BY <1>1, <1>3, <2>1 DEF Group
<1> QED
  BY <1>2, <1>3

\* Two tasks of a group find each other among the members, or neither does, and they have the same lines.
LEMMA MembersFind ==
  ASSUME input \in Problems, NEW r \in Ranks, NEW q \in Ranks, ~Alone(r), q \in Group(r, Exchangers(r))
  PROVE  r \in Group(q, Exchangers(q)) /\ Exchangers(q) = Exchangers(r) /\ num_segments_l(q) = num_segments_l(r)
<1>1. /\ SortRanks \in Nat /\ Populated \in 1..SortRanks /\ sort_rank(r) \in 0..(SortRanks - 1)
      /\ segment_size_l(r) > 0 <=> sort_rank(r) < Populated
      /\ segment_size_l(q) > 0 <=> sort_rank(q) < Populated
      /\ segment_size_l(r) \in Nat /\ segment_size_l(q) \in Nat
  BY RankFacts, PopulatedFirst
<1>2. Exchangers(r) \in 0..SortRanks /\ Exchangers(q) \in 0..SortRanks
  BY <1>1 DEF Exchangers
<1>3. group(q) = group(r) /\ sort_rank(q) < Exchangers(r)
  BY <1>2, GroupIs
<1>4. sort_rank(q) \in Nat
  BY RankFacts
<1>5. Exchangers(r) = Populated /\ (Populated = SortRanks \/ volume(r) # 0)
  BY <1>1, <1>3, <1>4 DEF Exchangers
<1>6. segment_size_l(q) > 0
  BY <1>1, <1>3, <1>5
<1> DEFINE n == Len(input.lines[group(r) + 1])
<1>7. n \in Nat
  BY RankParts
<1>8. volume(r) = segment_size_l(r) * num_segments_l(r) /\ volume(q) = segment_size_l(q) * num_segments_l(q)
  BY DEF volume
<1>9. segment_size_l(r) > 0
  <2>1. CASE Populated = SortRanks
    BY <1>1, <2>1
  <2>2. CASE volume(r) # 0
    <3>1. segment_size_l(r) # 0
      <4>1. num_segments_l(r) \in Nat
        BY RankParts
      <4> QED
        BY <1>8, <2>2, <4>1
    <3> QED
      BY <1>1, <3>1
  <2> QED
    BY <1>5, <2>1, <2>2
<1>10. num_segments_l(r) = n /\ num_segments_l(q) = n
  BY <1>3, <1>6, <1>9 DEF num_segments_l
<1> HIDE DEF n
<1>11. Exchangers(q) = Populated
  <2>1. CASE Populated = SortRanks
    BY <1>1, <2>1 DEF Exchangers
  <2>2. CASE volume(r) # 0
    <3>1. n # 0
      BY <1>1, <1>8, <1>10, <2>2
    <3>2. volume(q) # 0
      BY <1>1, <1>6, <1>7, <1>8, <1>10, <3>1
    <3> QED
      BY <3>2 DEF Exchangers
  <2> QED
    BY <1>5, <2>1, <2>2
<1>12. r \in Group(q, Exchangers(q))
  BY <1>1, <1>2, <1>3, <1>9, <1>11, GroupIs
<1> QED
  BY <1>5, <1>10, <1>11, <1>12

---------------------------------------------------------------------------
(* The counts, inductively *)

\* The collectives whose counts a task works out from the layout of the lines alone; those of the values,
\* the places and the shift to the neighbours depend on the elements.
Controls == {1, 2, 3, Exchanges + 1}
Partners(r, n) == IF n = 1 THEN Ranks ELSE Members(r)
Count(r, n) ==
  IF n = 1 THEN 1 ELSE IF n = 2 THEN num_segments_l(r) * num_sort_ranks[r]
  ELSE IF n = 3 THEN num_segments_l(r) + 1 ELSE num_segments_l(r)
Works(r) == IF segment_size_l(r) > 0 THEN 1 ELSE 0
\* x exchanges n elements with each task of S, out of R, and none with the others; or the one element w with all.
Fits(R, S, n, x) ==
  \A q \in R : x.recv[q] = (IF q \in S THEN n ELSE 0) /\ Len(x.send[q]) = (IF q \in S THEN n ELSE 0)
Tells(R, w, x) == \A q \in R : x.send[q] = << w >>

Counted(r) ==
  /\ posted[r] # << >> => /\ DOMAIN piece[r] = 1..num_segments_l(r) /\ IsSequence(piece[r])
                         /\ Tells(Ranks, Works(r), posted[r][1])
  /\ Len(posted[r]) >= 2 => num_sort_ranks[r] = Exchangers(r)
  /\ \A n \in Controls : n <= Len(posted[r]) => Fits(Ranks, Partners(r, n), Count(r, n), posted[r][n])
InCounts == InStep /\ DOMAIN piece = Ranks /\ DOMAIN num_sort_ranks = Ranks /\ \A r \in Ranks : Counted(r)

LEMMA SameLayout ==
  ASSUME input' = input, NEW r
  PROVE  /\ Exchangers(r)' = Exchangers(r) /\ num_segments_l(r)' = num_segments_l(r) /\ Ranks' = Ranks /\ Controls' = Controls
         /\ Works(r)' = Works(r)
         /\ \A n : n = 1 \/ num_sort_ranks'[r] = num_sort_ranks[r] =>
                Partners(r, n)' = Partners(r, n) /\ Count(r, n)' = Count(r, n)
<1>2. SortRanks' = SortRanks /\ Ranks' = Ranks /\ Controls' = Controls /\ Populated' = Populated
  BY DEF SortRanks, Ranks, Controls, Exchanges, Populated
<1>3. sort_rank(r)' = sort_rank(r) /\ group(r)' = group(r)
  BY <1>2 DEF sort_rank, group
<1>4. segment_size_l(r)' = segment_size_l(r)
  BY <1>3 DEF segment_size_l
<1>5. num_segments_l(r)' = num_segments_l(r)
  BY <1>3, <1>4 DEF num_segments_l
<1>6. volume(r)' = volume(r)
  BY <1>4, <1>5 DEF volume
<1>7. Exchangers(r)' = Exchangers(r)
  BY <1>2, <1>6 DEF Exchangers
<1>8. num_sort_ranks'[r] = num_sort_ranks[r] => Members(r)' = Members(r)
  BY <1>2, <1>3 DEF Members, Group
<1>9. ASSUME NEW n, n = 1 \/ num_sort_ranks'[r] = num_sort_ranks[r]
      PROVE  Partners(r, n)' = Partners(r, n) /\ Count(r, n)' = Count(r, n)
  <2>1. CASE n = 1
    BY <1>2, <2>1 DEF Partners, Count
  <2>2. CASE n # 1
    BY <1>2, <1>5, <1>8, <1>9, <2>2 DEF Partners, Count
  <2> QED
    BY <2>1, <2>2
<1> QED
  BY <1>2, <1>4, <1>5, <1>7, <1>9 DEF Works

LEMMA CountedSame ==
  ASSUME NEW q, Counted(q), input' = input, posted'[q] = posted[q], piece'[q] = piece[q],
         num_sort_ranks'[q] = num_sort_ranks[q]
  PROVE  Counted(q)'
BY SameLayout DEF Counted

LEMMA CountedAppend ==
  ASSUME InCounts, NEW r \in Ranks, NEW x, input' = input, posted'[r] = Append(posted[r], x),
         DOMAIN piece'[r] = 1..num_segments_l(r), IsSequence(piece'[r]),
         posted[r] = << >> => Tells(Ranks, Works(r), x),
         Len(posted[r]) >= 1 => num_sort_ranks'[r] = Exchangers(r),
         \A n \in Controls : n = Len(posted[r]) + 1 => Fits(Ranks, Partners(r, n)', Count(r, n)', x)
  PROVE  Counted(r)'
<1>1. IsSequence(posted[r]) /\ Len(posted[r]) \in Nat /\ (posted[r] = << >> <=> Len(posted[r]) = 0)
  BY SequenceFacts DEF InCounts, InStep, Followed
<1>2. /\ IsSequence(posted'[r]) /\ Len(posted'[r]) = Len(posted[r]) + 1
      /\ \A n \in 1..Len(posted[r]) : posted'[r][n] = posted[r][n]
      /\ posted'[r][Len(posted[r]) + 1] = x
  BY <1>1, AppendFacts
<1>3. Tells(Ranks, Works(r), posted'[r][1])
  <2>1. CASE posted[r] = << >>
    BY <1>1, <1>2, <2>1
  <2>2. CASE posted[r] # << >>
    <3>1. 1 \in 1..Len(posted[r])
      BY <1>1, <2>2
    <3> QED
      BY <1>2, <2>2, <3>1 DEF InCounts, Counted
  <2> QED
    BY <2>1, <2>2
<1>4. ASSUME NEW n \in Controls, n <= Len(posted'[r])
      PROVE  Fits(Ranks, Partners(r, n)', Count(r, n)', posted'[r][n])
  <2>0. Controls \subseteq Nat \ {0}
    BY DEF Controls, Exchanges
  <2>1. CASE n = Len(posted[r]) + 1
    BY <1>2, <2>1
  <2>2. CASE n \in 1..Len(posted[r])
    <3>1. Fits(Ranks, Partners(r, n), Count(r, n), posted[r][n])
      BY <1>1, <2>2 DEF InCounts, Counted
    <3>2. n = 1 \/ num_sort_ranks'[r] = num_sort_ranks[r]
      <4>1. CASE Len(posted[r]) >= 2
        BY <1>1, <4>1 DEF InCounts, Counted
      <4>2. CASE ~(Len(posted[r]) >= 2)
        BY <1>1, <2>2, <4>2
      <4> QED
        BY <4>1, <4>2
    <3>3. Partners(r, n)' = Partners(r, n) /\ Count(r, n)' = Count(r, n)
      BY <3>2, SameLayout
    <3> QED
      BY <1>2, <2>2, <3>1, <3>3
  <2> QED
    BY <1>1, <1>2, <1>4, <2>0, <2>1, <2>2
<1>5. Len(posted'[r]) >= 2 => num_sort_ranks'[r] = Exchangers(r)
  BY <1>1, <1>2
<1> QED
  BY <1>3, <1>4, <1>5, SameLayout DEF Counted
---------------------------------------------------------------------------
(* Each step keeps the counts *)

\* What a task knows when it returns from its n-th collective.
LEMMA KnownAt ==
  ASSUME InCounts, NEW r \in Ranks, NEW n \in Nat \ {0}, Returned(r, n)
  PROVE  /\ Len(posted[r]) = n /\ posted[r] # << >> /\ ~Alone(r)
         /\ DOMAIN piece[r] = 1..num_segments_l(r) /\ IsSequence(piece[r]) /\ num_segments_l(r) \in Nat
         /\ n >= 2 => num_sort_ranks[r] = Exchangers(r)
         /\ Exchangers(r) \in 0..SortRanks
<1>1. Len(posted[r]) = n /\ posted[r] # << >>
  BY EmptySeq DEF Returned
<1>2. ~Alone(r) /\ input \in Problems
  BY <1>1 DEF InCounts, InStep, Followed
<1>3. Exchangers(r) \in 0..SortRanks
  <2>1. SortRanks \in Nat /\ Populated \in 1..SortRanks
    BY <1>2, RankFacts, PopulatedFirst
  <2> QED
    BY <2>1 DEF Exchangers
<1>4. num_segments_l(r) \in Nat
  BY <1>2, RankParts
<1> QED
  BY <1>1, <1>2, <1>3, <1>4 DEF InCounts, Counted

LEMMA FunctionIs ==
  ASSUME NEW n \in Nat, NEW f, f = [k \in 1..n |-> f[k]]
  PROVE  IsSequence(f) /\ Len(f) = n /\ DOMAIN f = 1..n
<1>1. DOMAIN f = 1..n
  OBVIOUS
<1>2. f \in Seq({f[k] : k \in 1..n})
  BY SeqDef
<1> QED
  BY <1>1, <1>2, LenProperties, SMTT(30) DEF IsSequence

LEMMA PostedIs ==
  ASSUME InCounts, NEW r \in Ranks, NEW op, NEW send, NEW recv, Post(r, op, send, recv)
  PROVE  posted'[r] = Append(posted[r], [op |-> op, send |-> send, recv |-> recv])
BY DEF Post, InCounts, InStep

\* A collective whose counts depend on the elements.
LEMMA OthersCounted ==
  ASSUME InCounts, NEW r \in Ranks, NEW n \in Nat \ {0}, Returned(r, n), n >= 2, n + 1 \notin Controls,
         NEW op, NEW send, NEW recv, Post(r, op, send, recv), UNCHANGED << input, piece, num_sort_ranks >>
  PROVE  Counted(r)'
<1> DEFINE x == [op |-> op, send |-> send, recv |-> recv]
<1>1. posted'[r] = Append(posted[r], x)
  BY PostedIs
<1> HIDE DEF x
<1> QED
  BY <1>1, KnownAt, CountedAppend

LEMMA LocalSortCounted ==
  ASSUME InCounts, NEW r \in Ranks, LocalSort(r) PROVE Counted(r)'
<1>1. input' = input /\ num_sort_ranks' = num_sort_ranks /\ Len(posted[r]) = 0 /\ posted[r] = << >>
  BY EmptySeq DEF LocalSort
<1>2. PICK sorted \in [1..num_segments_l(r) -> UNION { LocalSorts(Part(r, s)) : s \in 1..num_segments_l(r) }] :
        piece' = [piece EXCEPT ![r] = sorted]
  BY DEF LocalSort
<1>3. piece'[r] = sorted
  BY <1>2 DEF InCounts
<1>4. num_segments_l(r) \in Nat
  BY RankParts DEF InCounts, InStep
<1>5. DOMAIN piece'[r] = 1..num_segments_l(r) /\ IsSequence(piece'[r])
  <2>1. sorted = [k \in 1..num_segments_l(r) |-> sorted[k]]
    OBVIOUS
  <2> QED
    BY <1>3, <1>4, <2>1, FunctionIs
<1> DEFINE send == ToEach(Ranks, << IF segment_size_l(r) > 0 THEN 1 ELSE 0 >>)
           recv == CountFrom(Ranks, 1)
           x == [op |-> "workers", send |-> send, recv |-> recv]
<1>6. posted'[r] = Append(posted[r], x)
  BY PostedIs DEF LocalSort
<1>7. Tells(Ranks, Works(r), x)
  BY DEF Tells, Works, ToEach
<1>8. \A q \in Ranks : x.recv[q] = 1 /\ Len(x.send[q]) = 1
  BY DEF ToEach, CountFrom
<1>9. Partners(r, 1)' = Ranks /\ Count(r, 1)' = 1
  BY <1>1, SameLayout DEF Partners, Count
<1> HIDE DEF x
<1>10. \A n \in Controls : n = Len(posted[r]) + 1 => Fits(Ranks, Partners(r, n)', Count(r, n)', x)
  <2>1. Fits(Ranks, Ranks, 1, x)
    BY <1>8 DEF Fits
  <2> QED
    BY <1>1, <1>9, <2>1
<1>11. ~(Len(posted[r]) >= 1)
  BY <1>1
<1> QED
  BY <1>1, <1>5, <1>6, <1>7, <1>10, <1>11, CountedAppend

\* The workers of all groups are so many times those of one.
LEMMA WorkersCounted ==
  ASSUME InCounts, NEW r \in Ranks, Returned(r, 1)
  PROVE  sort_ranks_of(r, SumOf([k \in 1..Cardinality(Ranks) |-> FromTask(r, 1, k - 1)[1]])) = Exchangers(r)
<1>1. ~Alone(r) /\ input \in Problems
  BY KnownAt DEF InCounts, InStep
<1>2. /\ SortRanks \in Nat \ {0} /\ Populated \in 1..SortRanks
      /\ \A q \in Ranks : segment_size_l(q) > 0 <=> sort_rank(q) < Populated
  BY <1>1, RankFacts, PopulatedFirst
<1> DEFINE l == Len(input.lines)
<1>3. l \in Nat /\ l # 0
  BY <1>1, RankParts
<1> HIDE DEF l
<1>4. Ranks = 0..(l * SortRanks - 1) /\ l * SortRanks \in Nat
  BY <1>2, <1>3 DEF Ranks, l
<1>5. Cardinality(Ranks) = l * SortRanks
  BY <1>4, FS_Interval
<1> DEFINE s == [k \in 1..Cardinality(Ranks) |-> FromTask(r, 1, k - 1)[1]]
<1>6. ASSUME NEW k \in 1..Cardinality(Ranks)
      PROVE  s[k] = IF (k - 1) % SortRanks < Populated THEN 1 ELSE 0
  <2>1. k - 1 \in Ranks
    BY <1>4, <1>5
  <2>2. posted[k - 1] # << >>
    <3>1. Len(posted[k - 1]) >= 1
      BY <2>1 DEF Returned
    <3> QED
      BY <3>1, EmptySeq
  <2>3. FromTask(r, 1, k - 1) = << Works(k - 1) >>
    BY <2>1, <2>2 DEF InCounts, Counted, Tells, FromTask
  <2>4. sort_rank(k - 1) = (k - 1) % SortRanks
    BY DEF sort_rank
  <2> QED
    BY <1>2, <2>1, <2>3, <2>4 DEF Works
<1>7. s \in Seq(Nat) /\ Len(s) = l * SortRanks
  <2>1. DOMAIN s = 1..(l * SortRanks) /\ \A k \in DOMAIN s : s[k] \in Nat
    BY <1>5, <1>6
  <2>2. s = [k \in 1..(l * SortRanks) |-> s[k]]
    BY <1>5
  <2> HIDE DEF s
  <2>3. s \in [1..(l * SortRanks) -> Nat]
    BY <2>1, <2>2
  <2> QED
    BY <1>4, <2>1, <2>3, SeqDef, LenProperties
<1> HIDE DEF s
<1>8. SumOf(s) = l * Populated
  <2>1. Populated \in 0..SortRanks
    BY <1>2
  <2>2. \A k \in 1..Len(s) : s[k] = IF (k - 1) % SortRanks < Populated THEN 1 ELSE 0
    BY <1>5, <1>6, <1>7
  <2> QED
    BY <1>2, <1>3, <1>7, <2>1, <2>2, RowSums
<1>9. l * Populated < l * SortRanks <=> Populated < SortRanks
  BY <1>2, <1>3
<1>10. (l * Populated) \div l = Populated
  <2>1. l \in Nat \ {0} /\ Populated \in Nat /\ 0 \in 0..(l - 1)
    BY <1>2, <1>3
  <2>2. (Populated * l + 0) \div l = Populated
    BY <2>1, DivideIs
  <2>3. Populated * l + 0 = l * Populated
    BY <2>1
  <2> QED
    BY <2>2, <2>3
<1> QED
  BY <1>5, <1>8, <1>9, <1>10 DEF sort_ranks_of, Exchangers, s, l
LEMMA SelectSamplesCounted ==
  ASSUME InCounts, NEW r \in Ranks, SelectSamples(r) PROVE Counted(r)'
<1> DEFINE W == SumOf([k \in 1..Cardinality(Ranks) |-> FromTask(r, 1, k - 1)[1]])
           n == sort_ranks_of(r, W)
           S == [s \in DOMAIN piece[r] |-> SamplesOf(r, s, piece[r][s], n)]
           x == [op |-> "samples", send |-> ToEach(Group(r, n), FlattenSeq(S)),
                 recv |-> CountFrom(Group(r, n), Len(FlattenSeq(S)))]
<1>1. /\ Returned(r, 1) /\ UNCHANGED << input, piece >>
      /\ num_sort_ranks' = [num_sort_ranks EXCEPT ![r] = n]
      /\ Post(r, "samples", ToEach(Group(r, n), FlattenSeq(S)), CountFrom(Group(r, n), Len(FlattenSeq(S))))
  BY DEF SelectSamples
<1>2. n = Exchangers(r)
  BY <1>1, WorkersCounted
<1>3. posted'[r] = Append(posted[r], x)
  BY <1>1, PostedIs
<1> HIDE DEF n
<1>4. num_sort_ranks'[r] = n
  BY <1>1 DEF InCounts
<1> DEFINE m == num_segments_l(r)
<1>5. /\ Len(posted[r]) = 1 /\ posted[r] # << >> /\ DOMAIN piece[r] = 1..m /\ IsSequence(piece[r])
      /\ m \in Nat /\ Exchangers(r) \in 0..SortRanks
  <2>1. 1 \in Nat \ {0}
    OBVIOUS
  <2> QED
    BY <1>1, <2>1, KnownAt
<1>6. n \in Nat
  BY <1>2, <1>5
<1> HIDE DEF m
<1>7. Len(FlattenSeq(S)) = m * n
  <2> DEFINE X == UNION { { SamplesOf(r, s, piece[r][s], n)[k] : k \in 1..n } : s \in 1..m }
  <2>1. S = [s \in 1..m |-> SamplesOf(r, s, piece[r][s], n)]
    BY <1>5
  <2>2. ASSUME NEW s \in 1..m PROVE S[s] \in Seq(X) /\ Len(S[s]) = n
    <3> DEFINE t == SamplesOf(r, s, piece[r][s], n)
    <3>1. t = [k \in 1..n |-> t[k]] /\ S[s] = t
      BY <2>1 DEF SamplesOf
    <3>2. \A k \in 1..n : t[k] \in X
      OBVIOUS
    <3> HIDE DEF t, X
    <3>3. t \in [1..n -> X] /\ DOMAIN t = 1..n
      BY <3>1, <3>2
    <3> QED
      BY <1>6, <3>1, <3>3, SeqDef, LenProperties
  <2>3. IsSequence(S) /\ Len(S) = m
    <3>1. S = [s \in 1..m |-> S[s]]
      BY <2>1
    <3> HIDE DEF S
    <3> QED
      BY <1>5, <3>1, FunctionIs
  <2> HIDE DEF S, X
  <2> QED
    BY <1>5, <1>6, <2>2, <2>3, FlattenLength
<1>8. Partners(r, 2)' = Group(r, n) /\ Count(r, 2)' = m * n
  <2>1. num_segments_l(r)' = m
    BY <1>1, SameLayout DEF m
  <2>2. Members(r)' = Group(r, n)
    BY <1>1, <1>4 DEF Members, Group, group, SortRanks
  <2> QED
    BY <1>4, <2>1, <2>2 DEF Partners, Count
<1>9. \A k \in Controls : k = Len(posted[r]) + 1 => Fits(Ranks, Partners(r, k)', Count(r, k)', x)
  <2>1. Fits(Ranks, Group(r, n), m * n, x)
    BY <1>7, EmptySeq DEF Fits, ToEach, CountFrom
  <2> HIDE DEF x
  <2> QED
    BY <1>5, <1>8, <2>1
<1> HIDE DEF x
<1> QED
  BY <1>1, <1>2, <1>3, <1>4, <1>5, <1>9, CountedAppend DEF m

LEMMA SelectSplittersCounted ==
  ASSUME InCounts, NEW r \in Ranks, SelectSplitters(r) PROVE Counted(r)'
<1>1. Returned(r, 2) /\ UNCHANGED << input, piece, num_sort_ranks >>
  BY DEF SelectSplitters
<1> DEFINE n == num_sort_ranks[r]
           m == num_segments_l(r)
<1>2. PICK samples :
        LET parts == Parts(r, [s \in DOMAIN piece[r] |-> Ends(r, s, piece[r][s], samples, n)], n)
        IN Post(r, "sizes", [q \in Ranks |-> IF q \in Members(r) THEN WithTotal(parts[sort_rank(q) + 1]) ELSE << >>],
                CountFrom(Members(r), m + 1))
  BY DEF SelectSplitters
<1> DEFINE ends == [s \in DOMAIN piece[r] |-> Ends(r, s, piece[r][s], samples, n)]
           parts == Parts(r, ends, n)
           x == [op |-> "sizes", send |-> [q \in Ranks |-> IF q \in Members(r) THEN WithTotal(parts[sort_rank(q) + 1]) ELSE << >>],
                 recv |-> CountFrom(Members(r), m + 1)]
<1>3. posted'[r] = Append(posted[r], x)
  BY <1>2, PostedIs
<1>4. /\ Len(posted[r]) = 2 /\ posted[r] # << >> /\ DOMAIN piece[r] = 1..m /\ IsSequence(piece[r])
      /\ m \in Nat /\ n = Exchangers(r) /\ n \in 0..SortRanks
  <2>1. 2 \in Nat \ {0} /\ 2 >= 2
    OBVIOUS
  <2> QED
    BY <1>1, <2>1, KnownAt
<1>5. DOMAIN ends = 1..m
  BY <1>4
<1> HIDE DEF ends, m
<1>6. ASSUME NEW q \in Ranks, q \in Members(r) PROVE Len(WithTotal(parts[sort_rank(q) + 1])) = m + 1
  <2>1. sort_rank(q) + 1 \in 1..n
    <3>1. sort_rank(q) < n /\ sort_rank(q) \in Nat
      BY <1>4, <1>6, GroupIs, RankFacts DEF Members, InCounts, InStep
    <3> QED
      BY <1>4, <3>1
  <2> DEFINE lines == parts[sort_rank(q) + 1]
             sizes == [s \in DOMAIN lines |-> Len(lines[s])]
  <2>2. DOMAIN lines = 1..m
    BY <1>5, <2>1 DEF Parts
  <2> HIDE DEF lines
  <2>3. sizes = [s \in 1..m |-> sizes[s]]
    BY <2>2
  <2> HIDE DEF sizes
  <2>4. IsSequence(sizes) /\ Len(sizes) = m
    BY <1>4, <2>3, FunctionIs
  <2>5. Len(Append(sizes, SumOf(sizes))) = m + 1
    BY <2>4, AppendFacts
  <2> QED
    BY <2>5 DEF WithTotal, lines, sizes
<1> HIDE DEF n, parts
<1>7. Partners(r, 3)' = Members(r) /\ Count(r, 3)' = m + 1
  BY <1>1, SameLayout DEF Partners, Count, m
<1>8. \A k \in Controls : k = Len(posted[r]) + 1 => Fits(Ranks, Partners(r, k)', Count(r, k)', x)
  <2>1. Fits(Ranks, Members(r), m + 1, x)
    BY <1>6, EmptySeq DEF Fits, CountFrom
  <2> HIDE DEF x
  <2> QED
    BY <1>4, <1>7, <2>1
<1> HIDE DEF x
<1> QED
  BY <1>1, <1>3, <1>4, <1>8, CountedAppend DEF m, n

LEMMA MergeCounted ==
  ASSUME InCounts, NEW r \in Ranks, Merge(r) PROVE Counted(r)'
<1>1. Returned(r, Exchanges) /\ UNCHANGED << input, piece, num_sort_ranks >>
  BY DEF Merge
<1>2. Exchanges \in Nat \ {0} /\ Exchanges >= 2
  BY DEF Exchanges
<1> DEFINE m == num_segments_l(r)
<1>3. /\ Len(posted[r]) = Exchanges /\ posted[r] # << >> /\ DOMAIN piece[r] = 1..m /\ IsSequence(piece[r])
      /\ m \in Nat /\ num_sort_ranks[r] = Exchangers(r)
  BY <1>1, <1>2, KnownAt
<1>4. CASE ~input.bound
  <2>1. posted' = posted
    BY <1>4 DEF Merge
  <2> QED
    BY <1>1, <2>1, CountedSame DEF InCounts
<1>5. CASE input.bound
  <2>1. PICK lines : /\ DOMAIN lines = 1..m
                     /\ Post(r, "surplus", ToEach(Members(r), Surplus(r, lines)), CountFrom(Members(r), m))
    <3> DEFINE lines == [s \in 1..m |-> MergedLine(r, s)]
    <3>1. Post(r, "surplus", ToEach(Members(r), Surplus(r, lines)), CountFrom(Members(r), m))
      BY <1>5 DEF Merge
    <3>2. DOMAIN lines = 1..m
      OBVIOUS
    <3> HIDE DEF lines
    <3> QED
      BY <3>1, <3>2
  <2> DEFINE x == [op |-> "surplus", send |-> ToEach(Members(r), Surplus(r, lines)), recv |-> CountFrom(Members(r), m)]
  <2>2. posted'[r] = Append(posted[r], x)
    BY <2>1, PostedIs
  <2> HIDE DEF m
  <2>3. Len(Surplus(r, lines)) = m
    <3>1. Surplus(r, lines) = [s \in 1..m |-> Surplus(r, lines)[s]]
      BY <2>1 DEF Surplus
    <3> QED
      BY <1>3, <3>1, FunctionIs
  <2>4. \A k \in Controls : k = Len(posted[r]) + 1 => Partners(r, k)' = Members(r) /\ Count(r, k)' = m
    <3>1. ASSUME NEW k \in Controls, k = Len(posted[r]) + 1 PROVE Partners(r, k)' = Members(r) /\ Count(r, k)' = m
      <4>1. k # 1 /\ k # 2 /\ k # 3
        BY <1>3, <3>1 DEF Exchanges
      <4>2. Partners(r, k) = Members(r) /\ Count(r, k) = m
        BY <4>1 DEF Partners, Count, m
      <4>3. Partners(r, k)' = Partners(r, k) /\ Count(r, k)' = Count(r, k)
        BY <1>1, SameLayout
      <4> QED
        BY <4>2, <4>3
    <3> QED
      BY <3>1
  <2>5. Fits(Ranks, Members(r), m, x)
    BY <2>3, EmptySeq DEF Fits, ToEach, CountFrom
  <2> HIDE DEF x
  <2>6. \A k \in Controls : k = Len(posted[r]) + 1 => Fits(Ranks, Partners(r, k)', Count(r, k)', x)
    BY <2>4, <2>5
  <2> QED
    BY <1>1, <1>3, <2>2, <2>6, CountedAppend DEF m
<1> QED
  BY <1>4, <1>5

LEMMA ElementsCounted ==
  ASSUME InCounts, NEW r \in Ranks, SendValues(r) \/ SendIndices(r) \/ Balance(r) PROVE Counted(r)'
<1>1. CASE SendValues(r)
  <2>1. PICK send, recv : Post(r, "values", send, recv)
    BY <1>1 DEF SendValues, SendParts
  <2>2. 3 >= 2 /\ 3 + 1 \notin Controls /\ Returned(r, 3) /\ UNCHANGED << input, piece, num_sort_ranks >>
    BY <1>1 DEF SendValues, Controls, Exchanges
  <2> QED
    BY <2>1, <2>2, OthersCounted
<1>2. CASE SendIndices(r)
  <2>1. PICK send, recv : Post(r, "indices", send, recv)
    BY <1>2 DEF SendIndices, SendParts
  <2>2. 4 >= 2 /\ 4 + 1 \notin Controls /\ Returned(r, 4) /\ UNCHANGED << input, piece, num_sort_ranks >>
    BY <1>2 DEF SendIndices, Controls, Exchanges
  <2> QED
    BY <2>1, <2>2, OthersCounted
<1>3. CASE Balance(r)
  <2>1. PICK send, recv : Post(r, "neighbours", send, recv)
    BY <1>3 DEF Balance
  <2>2. /\ Exchanges + 1 \in Nat \ {0} /\ Exchanges + 1 >= 2 /\ (Exchanges + 1) + 1 \notin Controls
        /\ Returned(r, Exchanges + 1) /\ UNCHANGED << input, piece, num_sort_ranks >>
    BY <1>3 DEF Balance, Controls, Exchanges
  <2> QED
    BY <2>1, <2>2, OthersCounted
<1> QED
  BY <1>1, <1>2, <1>3

LEMMA EndsCounted ==
  ASSUME InCounts, NEW r \in Ranks, ReturnEarly(r) \/ SortAlone(r) \/ Finish(r) PROVE Counted(r)'
<1>1. UNCHANGED << input, posted, num_sort_ranks, piece >>
  BY DEF ReturnEarly, SortAlone, Finish
<1> QED
  BY <1>1, CountedSame DEF InCounts

LEMMA InCountsInit ==
  Init => InCounts
<1> SUFFICES ASSUME Init PROVE InCounts
  OBVIOUS
<1>1. ASSUME NEW r \in Ranks PROVE Counted(r)
  <2>1. posted[r] = << >> /\ Len(<< >>) = 0
    BY EmptySeq DEF Init
  <2>2. \A n \in Controls : ~(n <= 0)
    BY DEF Controls, Exchanges
  <2> QED
    BY <2>1, <2>2 DEF Counted
<1> QED
  BY <1>1, InStepInit DEF Init, InCounts

LEMMA InCountsKept ==
  InCounts /\ [Next]_vars => InCounts'
<1> SUFFICES ASSUME InCounts, [Next]_vars PROVE InCounts'
  OBVIOUS
<1>1. InStep'
  BY InStepKept DEF InCounts
<1>2. CASE UNCHANGED vars
  <2>1. UNCHANGED << input, posted, num_sort_ranks, piece >>
    BY <1>2 DEF vars
  <2>2. \A q \in Ranks : Counted(q)'
    BY <2>1, CountedSame DEF InCounts
  <2> QED
    BY <1>1, <2>1, <2>2, SameLayout DEF InCounts
<1>3. ASSUME NEW r \in Ranks, Step(r) PROVE InCounts'
  <2>1. Counted(r)'
    BY <1>3, LocalSortCounted, SelectSamplesCounted, SelectSplittersCounted, MergeCounted, ElementsCounted, EndsCounted
    DEF Step
  <2>2. Joins(r) \/ Returns(r)
    BY <1>3, StepsFollow DEF InCounts
  <2>3. input' = input /\ \A q \in Ranks : q # r => posted'[q] = posted[q]
    BY <2>2 DEF Joins, Returns, InCounts, InStep
  <2>4. /\ DOMAIN piece' = Ranks /\ DOMAIN num_sort_ranks' = Ranks
        /\ \A q \in Ranks : q # r => piece'[q] = piece[q] /\ num_sort_ranks'[q] = num_sort_ranks[q]
    <3>1. (\E x : piece' = [piece EXCEPT ![r] = x]) \/ piece' = piece
      BY <1>3 DEF Step, ReturnEarly, SortAlone, LocalSort, SelectSamples, SelectSplitters, SendValues, SendIndices, Merge,
                  Balance, Finish
    <3>2. (\E x : num_sort_ranks' = [num_sort_ranks EXCEPT ![r] = x]) \/ num_sort_ranks' = num_sort_ranks
      BY <1>3 DEF Step, ReturnEarly, SortAlone, LocalSort, SelectSamples, SelectSplitters, SendValues, SendIndices, Merge,
                  Balance, Finish
    <3> QED
      BY <3>1, <3>2 DEF InCounts
  <2>5. \A q \in Ranks : Counted(q)'
    BY <2>1, <2>3, <2>4, CountedSame DEF InCounts
  <2> QED
    BY <1>1, <2>3, <2>4, <2>5, SameLayout DEF InCounts
<1> QED
  BY <1>2, <1>3 DEF Next

\* In the collectives whose counts a task works out from the layout of the lines, it expects of each other
\* task what that one sends: the tasks of a group agree on its members, those without elements included
\* (sort_cpu.inl:506, 600, 717 and 166; a part of ExchangesFit).
ControlsFit ==
  \A r, q \in Ranks : \A n \in Controls :
    n <= Len(posted[r]) /\ n <= Len(posted[q]) => Len(posted[r][n].send[q]) = posted[q][n].recv[r]

LEMMA CountsFit ==
  InCounts => ControlsFit
<1> SUFFICES ASSUME InCounts, NEW r \in Ranks, NEW q \in Ranks, NEW n \in Controls,
                    n <= Len(posted[r]), n <= Len(posted[q])
             PROVE  Len(posted[r][n].send[q]) = posted[q][n].recv[r]
  BY DEF ControlsFit
<1>1. /\ Len(posted[r][n].send[q]) = IF q \in Partners(r, n) THEN Count(r, n) ELSE 0
      /\ posted[q][n].recv[r] = IF r \in Partners(q, n) THEN Count(q, n) ELSE 0
  BY DEF InCounts, Counted, Fits
<1>2. CASE n = 1
  BY <1>1, <1>2 DEF Partners, Count
<1>3. CASE n # 1
  <2>1. Len(posted[r]) >= 2 /\ Len(posted[q]) >= 2 /\ posted[r] # << >> /\ posted[q] # << >>
    BY <1>3, SequenceFacts DEF Controls, Exchanges, InCounts, InStep, Followed
  <2>2. /\ ~Alone(r) /\ ~Alone(q) /\ input \in Problems
        /\ num_sort_ranks[r] = Exchangers(r) /\ num_sort_ranks[q] = Exchangers(q)
    BY <2>1 DEF InCounts, InStep, Followed, Counted
  <2>3. q \in Members(r) => r \in Members(q) /\ Count(q, n) = Count(r, n)
    BY <1>3, <2>2, MembersFind DEF Members, Count
  <2>4. r \in Members(q) => q \in Members(r)
    BY <2>2, MembersFind DEF Members
  <2> QED
    BY <1>1, <1>3, <2>3, <2>4 DEF Partners
<1> QED
  BY <1>2, <1>3

THEOREM CountsAgree == Spec => []ControlsFit
<1>1. Spec => []InCounts
  BY InCountsInit, InCountsKept, PTL DEF Spec
<1> QED
  BY <1>1, CountsFit, PTL
=============================================================================
