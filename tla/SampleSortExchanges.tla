------------------------- MODULE SampleSortExchanges -------------------------
(***************************************************************************)
(* Proof that the tasks of a distributed sort expect of each other what    *)
(* they send, in the collectives too whose counts depend on the elements:  *)
(* the samples of all tasks have a usable splitter for each cut, the cuts  *)
(* of a line take it apart without gaps, and what is too much for some     *)
(* tasks of a group is what others lack.                                   *)
(***************************************************************************)
EXTENDS SampleSortProofs

---------------------------------------------------------------------------
(* Sums *)

LEMMA NumbersAreSequences ==
  ASSUME NEW n \in Nat, NEW S, NEW f \in [1..n -> S]
  PROVE  f \in Seq(S) /\ Len(f) = n /\ IsSequence(f)
<1>1. f \in Seq(S) /\ DOMAIN f = 1..n
  BY SeqDef
<1> QED
  BY <1>1, LenProperties DEF IsSequence

Numbers(n) == [1..n -> Int]
\* Relations between sequences of n elements, kept closed where a sum is looked up.
SameTo(n, f, g) == \A k \in 1..n : g[k] = f[k]
SameBehind(n, i, f, g) == \A k \in 1..(n - i) : g[k] = f[i + k]
Adds(n, f, g, h) == \A k \in 1..n : h[k] = f[k] + g[k]
AllAre(n, f, c) == \A k \in 1..n : f[k] = c
SumsOf(n, f, g) == \A k \in 1..n : g[k] = SumOf(f[k])
LengthsOf(n, s, g) == \A k \in 1..n : g[k] = Len(s[k])

LEMMA SumEquals ==
  ASSUME NEW n \in Nat, NEW f \in Numbers(n), NEW h, h[0] = 0, \A k \in 1..n : h[k] = h[k - 1] + f[k]
  PROVE  SumOf(f) = h[n]
<1>1. f \in Seq(Int) /\ Len(f) = n
  BY NumbersAreSequences DEF Numbers
<1> QED
  BY <1>1, SumIs

LEMMA SumSteps ==
  ASSUME NEW n \in Nat, NEW f \in Numbers(n)
  PROVE  \E g \in [0..n -> Int] : g[0] = 0 /\ (\A k \in 1..n : g[k] = g[k - 1] + f[k]) /\ SumOf(f) = g[n]
<1>1. f \in Seq(Int) /\ Len(f) = n
  BY NumbersAreSequences DEF Numbers
<1> QED
  BY <1>1, PartialSums

LEMMA SumType ==
  ASSUME NEW n \in Nat, NEW f \in Numbers(n)
  PROVE  SumOf(f) \in Int
<1>1. PICK g \in [0..n -> Int] : SumOf(f) = g[n]
  BY SumSteps
<1> QED
  BY <1>1

\* A sum is that of its first i terms and that of the others.
LEMMA SumSplit ==
  ASSUME NEW n \in Nat, NEW f \in Numbers(n), NEW i \in 0..n,
         NEW a \in Numbers(i), SameTo(i, f, a), NEW b \in Numbers(n - i), SameBehind(n, i, f, b)
  PROVE  SumOf(a) \in Int /\ SumOf(b) \in Int /\ SumOf(f) = SumOf(a) + SumOf(b)
<1>1. PICK g \in [0..n -> Int] : g[0] = 0 /\ (\A k \in 1..n : g[k] = g[k - 1] + f[k]) /\ SumOf(f) = g[n]
  BY SumSteps
<1> DEFINE h == [k \in 0..(n - i) |-> g[i + k] - g[i]]
<1>2. i \in Nat /\ n - i \in Nat
  OBVIOUS
<1>3. SumOf(a) = g[i]
  <2>1. \A k \in 1..i : g[k] = g[k - 1] + a[k]
    BY <1>1 DEF SameTo
  <2> QED
    BY <1>1, <1>2, <2>1, SumEquals
<1>4. SumOf(b) = g[n] - g[i]
  <2>2. h[0] = 0 /\ h[n - i] = g[n] - g[i]
    BY <1>1, <1>2
  <2>3. ASSUME NEW k \in 1..(n - i) PROVE h[k] = h[k - 1] + b[k]
    <3>1. /\ k \in 0..(n - i) /\ k - 1 \in 0..(n - i) /\ i + k \in 1..n /\ i + k - 1 = i + (k - 1)
          /\ i \in 0..n /\ i + (k - 1) \in 0..n /\ i + k \in 0..n
      BY <1>2
    <3>2. g[i + k] = g[i + (k - 1)] + f[i + k]
      BY <1>1, <3>1
    <3>3. h[k] = g[i + k] - g[i] /\ h[k - 1] = g[i + (k - 1)] - g[i] /\ b[k] = f[i + k]
      BY <3>1 DEF SameBehind
    <3>4. g[i] \in Int /\ g[i + k] \in Int /\ g[i + (k - 1)] \in Int /\ f[i + k] \in Int
      BY <3>1 DEF Numbers
    <3>5. g[i + k] - g[i] = (g[i + (k - 1)] - g[i]) + f[i + k]
      BY <3>2, <3>4
    <3> HIDE DEF h
    <3> QED
      BY <3>3, <3>5, Zenon
  <2> HIDE DEF h
  <2> QED
    BY <1>2, <2>2, <2>3, SumEquals
<1>5. g[i] \in Int /\ g[n] \in Int
  BY <1>2
<1> QED
  BY <1>1, <1>3, <1>4, <1>5

LEMMA SumOneMore ==
  ASSUME NEW n \in Nat \ {0}, NEW f \in Numbers(n), NEW a \in Numbers(n - 1), SameTo(n - 1, f, a)
  PROVE  SumOf(a) \in Int /\ SumOf(f) = SumOf(a) + f[n]
<1>1. PICK g \in [0..n -> Int] : g[0] = 0 /\ (\A k \in 1..n : g[k] = g[k - 1] + f[k]) /\ SumOf(f) = g[n]
  BY SumSteps
<1>2. SumOf(a) = g[n - 1]
  <2>1. n - 1 \in Nat /\ \A k \in 1..(n - 1) : g[k] = g[k - 1] + a[k]
    BY <1>1 DEF SameTo
  <2> QED
    BY <1>1, <2>1, SumEquals
<1>3. n \in 1..n /\ n - 1 \in 0..n
  OBVIOUS
<1> QED
  BY <1>1, <1>2, <1>3

LEMMA OneSum ==
  ASSUME NEW a, NEW b, NEW f, NEW g, NEW k,
         a[k] \in Int, a[k - 1] \in Int, b[k] \in Int, b[k - 1] \in Int, f[k] \in Int, g[k] \in Int,
         a[k] = a[k - 1] + f[k], b[k] = b[k - 1] + g[k]
  PROVE  a[k] + b[k] = (a[k - 1] + b[k - 1]) + (f[k] + g[k])
OBVIOUS

LEMMA SumOfSums ==
  ASSUME NEW n \in Nat, NEW f \in Numbers(n), NEW g \in Numbers(n), NEW c \in Numbers(n), Adds(n, f, g, c)
  PROVE  SumOf(f) \in Int /\ SumOf(g) \in Int /\ SumOf(c) = SumOf(f) + SumOf(g)
<1>1. PICK a \in [0..n -> Int] : a[0] = 0 /\ (\A k \in 1..n : a[k] = a[k - 1] + f[k]) /\ SumOf(f) = a[n]
  BY SumSteps
<1>2. PICK b \in [0..n -> Int] : b[0] = 0 /\ (\A k \in 1..n : b[k] = b[k - 1] + g[k]) /\ SumOf(g) = b[n]
  BY SumSteps
<1> DEFINE h == [k \in 0..n |-> a[k] + b[k]]
<1>3. h[0] = 0 /\ h[n] = a[n] + b[n] /\ a[n] \in Int /\ b[n] \in Int
  BY <1>1, <1>2
<1>4. ASSUME NEW k \in 1..n PROVE h[k] = h[k - 1] + c[k]
  <2>1. k \in 0..n /\ k - 1 \in 0..n
    OBVIOUS
  <2>2. a[k] \in Int /\ a[k - 1] \in Int /\ b[k] \in Int /\ b[k - 1] \in Int /\ f[k] \in Int /\ g[k] \in Int
    BY <2>1 DEF Numbers
  <2>3. a[k] = a[k - 1] + f[k] /\ b[k] = b[k - 1] + g[k]
    BY <1>1, <1>2
  <2>4. h[k] = a[k] + b[k] /\ h[k - 1] = a[k - 1] + b[k - 1] /\ c[k] = f[k] + g[k]
    BY <2>1 DEF Adds
  <2> HIDE DEF h
  <2>5. a[k] + b[k] = (a[k - 1] + b[k - 1]) + (f[k] + g[k])
    BY ONLY <2>2, <2>3, SMTT(30)
  <2> QED
    BY <2>4, <2>5, Zenon
<1> HIDE DEF h
<1>5. SumOf(c) = h[n]
  BY <1>3, <1>4, SumEquals
<1> QED
  BY <1>1, <1>2, <1>3, <1>5

LEMMA SumOfSame ==
  ASSUME NEW n \in Nat, NEW c \in Nat, NEW f \in Numbers(n), AllAre(n, f, c)
  PROVE  SumOf(f) = n * c
<1> DEFINE h == [k \in 0..n |-> k * c]
<1>1. h[0] = 0 /\ h[n] = n * c
  OBVIOUS
<1>2. ASSUME NEW k \in 1..n PROVE h[k] = h[k - 1] + f[k]
  <2>1. k - 1 \in Nat /\ k \in 0..n /\ k - 1 \in 0..n /\ k - 1 + 1 = k
    OBVIOUS
  <2>2. k * c = (k - 1) * c + c
    BY <2>1, OneMore
  <2>3. h[k] = k * c /\ h[k - 1] = (k - 1) * c /\ f[k] = c
    BY <2>1 DEF AllAre
  <2> HIDE DEF h
  <2> QED
    BY <2>2, <2>3
<1> HIDE DEF h
<1> QED
  BY <1>1, <1>2, SumEquals

LEMMA SumAtLeast ==
  ASSUME NEW n \in Nat, NEW f \in [1..n -> Nat \ {0}]
  PROVE  SumOf(f) \in Nat /\ n <= SumOf(f)
<1>0. f \in Numbers(n)
  BY DEF Numbers
<1>1. PICK g \in [0..n -> Int] : g[0] = 0 /\ (\A k \in 1..n : g[k] = g[k - 1] + f[k]) /\ SumOf(f) = g[n]
  BY <1>0, SumSteps
<1> DEFINE G == {k \in 0..n : k <= g[k]}
<1>2. 0 \in G /\ \A k \in 1..n : k - 1 \in G => k \in G
  BY <1>1, SMTT(30)
<1>3. n \in G
  <2>1. n \in 0..n
    OBVIOUS
  <2> HIDE DEF G
  <2> QED
    BY <1>2, <2>1, Induction
<1> QED
  BY <1>1, <1>3

\* n rows of m numbers, and m columns.
Crossed(n, m, a, c) ==
  /\ \A k \in 1..n : a[k] \in Numbers(m)
  /\ \A j \in 1..m : c[j] \in Numbers(n)
  /\ \A k \in 1..n : \A j \in 1..m : a[k][j] \in Int /\ c[j][k] = a[k][j]

\* Rows first, or columns.
LEMMA SumSwap ==
  ASSUME NEW n \in Nat, NEW m \in Nat, NEW a, NEW c, Crossed(n, m, a, c),
         NEW r \in Numbers(n), SumsOf(n, a, r), NEW t \in Numbers(m), SumsOf(m, c, t)
  PROVE  SumOf(r) = SumOf(t)
<1> DEFINE Column(K, j) == [k \in 1..K |-> a[k][j]]
           Row(K) == [j \in 1..m |-> SumOf(Column(K, j))]
           h == [K \in 0..n |-> SumOf(Row(K))]
<1>1. ASSUME NEW K \in 0..n, NEW j \in 1..m PROVE Column(K, j) \in Numbers(K) /\ SumOf(Column(K, j)) \in Int
  <2>1. Column(K, j) \in Numbers(K) /\ K \in Nat
    BY DEF Numbers, Crossed
  <2> HIDE DEF Column
  <2> QED
    BY <2>1, SumType
<1>2. ASSUME NEW K \in 0..n PROVE Row(K) \in Numbers(m) /\ \A j \in 1..m : Row(K)[j] = SumOf(Column(K, j))
  <2> HIDE DEF Column
  <2> QED
    BY <1>1 DEF Numbers
<1>3. \A K \in 0..n : h[K] = SumOf(Row(K))
  OBVIOUS
<1>4. \A K \in 0..n, j \in 1..m : \A k \in 1..K : Column(K, j)[k] = a[k][j]
  OBVIOUS
<1> HIDE DEF Column, Row, h
<1>5. h[0] = 0
  <2>1. 0 \in 0..n
    OBVIOUS
  <2>2. ASSUME NEW j \in 1..m PROVE Row(0)[j] = 0
    <3>1. Column(0, j) \in Numbers(0) /\ AllAre(0, Column(0, j), 0)
      BY <1>1, <2>1 DEF AllAre
    <3>2. SumOf(Column(0, j)) = 0 * 0
      BY <3>1, SumOfSame
    <3> QED
      BY <1>2, <2>1, <3>2
  <2>3. SumOf(Row(0)) = m * 0
    <3>1. AllAre(m, Row(0), 0) /\ Row(0) \in Numbers(m)
      BY <1>2, <2>1, <2>2 DEF AllAre
    <3> QED
      BY <3>1, SumOfSame
  <2> QED
    BY <1>3, <2>1, <2>3
<1>6. ASSUME NEW K \in 1..n PROVE h[K] = h[K - 1] + r[K]
  <2>1. K - 1 \in 0..n /\ K \in 0..n /\ K \in Nat \ {0} /\ K \in 1..K
    OBVIOUS
  <2>2. ASSUME NEW j \in 1..m PROVE Row(K)[j] = Row(K - 1)[j] + a[K][j]
    <3>1. Column(K, j) \in Numbers(K) /\ Column(K - 1, j) \in Numbers(K - 1)
      BY <1>1, <2>1
    <3>2. Column(K, j)[K] = a[K][j] /\ SameTo(K - 1, Column(K, j), Column(K - 1, j))
      BY <1>4, <2>1 DEF SameTo
    <3>3. SumOf(Column(K, j)) = SumOf(Column(K - 1, j)) + Column(K, j)[K]
      BY <2>1, <3>1, <3>2, SumOneMore
    <3> QED
      BY <1>2, <2>1, <3>2, <3>3
  <2>3. /\ Row(K) \in Numbers(m) /\ Row(K - 1) \in Numbers(m) /\ a[K] \in Numbers(m)
        /\ Adds(m, Row(K - 1), a[K], Row(K))
    BY <1>2, <2>1, <2>2 DEF Crossed, Adds
  <2>4. SumOf(Row(K)) = SumOf(Row(K - 1)) + SumOf(a[K])
    BY <2>3, SumOfSums
  <2> QED
    BY <1>3, <2>1, <2>4 DEF SumsOf
<1>7. SumOf(r) = h[n]
  BY <1>5, <1>6, SumEquals
<1>8. n \in 0..n
  OBVIOUS
<1>9. Row(n) = t
  <2>1. ASSUME NEW j \in 1..m PROVE Row(n)[j] = t[j]
    <3>1. Column(n, j) \in Numbers(n) /\ c[j] \in Numbers(n) /\ \A k \in 1..n : Column(n, j)[k] = c[j][k]
      BY <1>1, <1>4, <1>8 DEF Crossed
    <3>2. Column(n, j) = c[j]
      BY <3>1 DEF Numbers
    <3> QED
      BY <1>2, <1>8, <3>2 DEF SumsOf
  <2>2. Row(n) \in Numbers(m)
    BY <1>2, <1>8
  <2> QED
    BY <2>1, <2>2 DEF Numbers
<1> QED
  BY <1>3, <1>7, <1>8, <1>9

---------------------------------------------------------------------------
(* Concatenations *)

LEMMA FlattenSteps ==
  ASSUME NEW n \in Nat, NEW s, IsSequence(s), Len(s) = n, NEW X, \A i \in 1..n : s[i] \in Seq(X)
  PROVE  \E f \in [0..n -> Seq(X)] :
           /\ f[0] = << >>
           /\ \A i \in 1..n : f[i] = f[i - 1] \o s[i]
           /\ FlattenSeq(s) = f[n]
<1>1. CASE n = 0
  <2> DEFINE f == [i \in 0..n |-> << >>]
  <2>1. FlattenSeq(s) = << >>
    BY <1>1, SequenceFacts DEF FlattenSeq
  <2>2. f \in [0..n -> Seq(X)] /\ f[0] = << >> /\ f[n] = << >>
    BY <1>1, EmptySeq
  <2> HIDE DEF f
  <2> QED
    BY <1>1, <2>1, <2>2
<1>2. CASE n # 0
  <2> DEFINE F == CHOOSE f : Flattened(s, f, Len(s))
             g == [i \in 0..n |-> IF i = 0 THEN << >> ELSE F[i]]
  <2>1. FlattenSeq(s) = F[Len(s)]
    BY <1>2 DEF FlattenSeq, Flattened
  <2>2. PICK f \in [1..n -> Seq(X)] : Flattened(s, f, n)
    BY FlattenExists
  <2>3. Flattened(s, F, n)
    BY <2>2, Zenon
  <2> HIDE DEF F
  <2>4. \A i \in 1..n : F[i] = IF i = 1 THEN s[i] ELSE F[i - 1] \o s[i]
    BY <2>3 DEF Flattened
  <2>5. g[0] = << >> /\ \A i \in 1..n : g[i] = F[i] /\ i - 1 \in 0..n
    OBVIOUS
  <2> HIDE DEF g
  <2>6. ASSUME NEW i \in 1..n PROVE g[i] = g[i - 1] \o s[i]
    <3>1. CASE i = 1
      <4>1. << >> \o s[i] = s[i]
        BY ConcatEmptySeq
      <4> QED
        BY <2>4, <2>5, <3>1, <4>1
    <3>2. CASE i # 1
      <4>1. i - 1 \in 1..n
        BY <3>2
      <4> QED
        BY <2>4, <2>5, <3>2, <4>1
    <3> QED
      BY <3>1, <3>2
  <2>7. g \in [0..n -> Seq(X)]
    <3> DEFINE G == {k \in 0..n : g[k] \in Seq(X)}
    <3>0. << >> \in Seq(X)
      BY EmptySeq
    <3>1. 0 \in G
      <4>1. g[0] \in Seq(X) /\ 0 \in 0..n
        BY <2>5, <3>0
      <4> QED
        BY <4>1
    <3>2. ASSUME NEW k \in 1..n, k - 1 \in G PROVE k \in G
      <4>1. g[k - 1] \in Seq(X) /\ s[k] \in Seq(X) /\ g[k] = g[k - 1] \o s[k]
        BY <2>6, <3>2
      <4>2. g[k] \in Seq(X)
        BY <4>1, ConcatProperties
      <4> QED
        BY <4>2
    <3>3. \A k \in 0..n : k \in G
      <4> HIDE DEF G
      <4> QED
        BY <3>1, <3>2, Induction
    <3>4. g = [k \in 0..n |-> g[k]]
      BY DEF g
    <3> QED
      BY <3>3, <3>4
  <2>8. FlattenSeq(s) = g[n]
    <3>1. n \in 1..n
      BY <1>2
    <3> QED
      BY <2>1, <2>5, <3>1
  <2>9. g[0] = << >>
    BY <2>5
  <2> QED
    BY <2>6, <2>7, <2>8, <2>9
<1> QED
  BY <1>1, <1>2

\* How many elements of s are in W; of each of n sequences.
CountIn(s, W) == Cardinality({ k \in DOMAIN s : s[k] \in W })
CountsOf(n, s, W, g) == \A k \in 1..n : g[k] = CountIn(s[k], W)

LEMMA IntervalIs ==
  ASSUME NEW n \in Nat
  PROVE  IsFiniteSet(1..n) /\ Cardinality(1..n) = n
BY FS_Interval

LEMMA CountType ==
  ASSUME NEW s, IsSequence(s), NEW W
  PROVE  IsFiniteSet({ k \in DOMAIN s : s[k] \in W }) /\ CountIn(s, W) \in 0..Len(s)
<1> DEFINE K == { k \in DOMAIN s : s[k] \in W }
<1>1. Len(s) \in Nat /\ DOMAIN s = 1..Len(s)
  BY SequenceFacts
<1>2. IsFiniteSet(1..Len(s)) /\ Cardinality(1..Len(s)) = Len(s)
  BY <1>1, IntervalIs
<1>3. K \in SUBSET (1..Len(s))
  BY <1>1
<1> HIDE DEF K
<1>4. IsFiniteSet(K) /\ Cardinality(K) <= Len(s) /\ Cardinality(K) \in Nat
  BY <1>2, <1>3, FS_Subset, FS_CardinalityType
<1> QED
  BY <1>1, <1>4 DEF CountIn, K

LEMMA CountConcat ==
  ASSUME NEW X, NEW s \in Seq(X), NEW t \in Seq(X), NEW W
  PROVE  CountIn(s \o t, W) = CountIn(s, W) + CountIn(t, W)
<1> DEFINE A == { k \in DOMAIN s : s[k] \in W }
           B == { k \in DOMAIN t : t[k] \in W }
           C == { Len(s) + k : k \in B }
           D == { k \in DOMAIN (s \o t) : (s \o t)[k] \in W }
           f == [k \in B |-> Len(s) + k]
<1>1. /\ Len(s) \in Nat /\ Len(t) \in Nat /\ DOMAIN s = 1..Len(s) /\ DOMAIN t = 1..Len(t)
      /\ DOMAIN (s \o t) = 1..(Len(s) + Len(t))
      /\ \A k \in 1..(Len(s) + Len(t)) : (s \o t)[k] = IF k <= Len(s) THEN s[k] ELSE t[k - Len(s)]
  BY LenProperties, ConcatProperties
<1>2. IsFiniteSet(A) /\ IsFiniteSet(B)
  <2>1. IsSequence(s) /\ IsSequence(t)
    BY DEF IsSequence
  <2> QED
    BY <2>1, CountType
<1>3. D = A \union C
  <2>1. ASSUME NEW k \in D PROVE k \in A \union C
    <3>1. CASE k <= Len(s)
      BY <1>1, <3>1
    <3>2. CASE ~(k <= Len(s))
      <4>1. k - Len(s) \in B /\ k = Len(s) + (k - Len(s))
        BY <1>1, <3>2
      <4> QED
        BY <4>1
    <3> QED
      BY <3>1, <3>2
  <2>2. ASSUME NEW k \in A PROVE k \in D
    BY <1>1
  <2>3. ASSUME NEW k \in B PROVE Len(s) + k \in D
    <3>1. k \in 1..Len(t) /\ t[k] \in W
      BY <1>1
    <3>2. Len(s) + k \in 1..(Len(s) + Len(t)) /\ ~(Len(s) + k <= Len(s)) /\ Len(s) + k - Len(s) = k
      BY <1>1, <3>1
    <3> QED
      BY <1>1, <3>1, <3>2
  <2> HIDE DEF D, A, B
  <2> QED
    BY <2>1, <2>2, <2>3
<1>4. A \intersect C = {}
  BY <1>1
<1>5. f \in Bijection(B, C)
  <2>1. B \subseteq Int /\ Len(s) \in Int
    BY <1>1
  <2> HIDE DEF B
  <2>2. f \in Injection(B, C)
    BY <2>1 DEF Injection, IsInjective
  <2>3. f \in Surjection(B, C)
    BY <2>1 DEF Surjection
  <2> QED
    BY <2>2, <2>3 DEF Bijection
<1> HIDE DEF A, B, C, D, f
<1>6. IsFiniteSet(C) /\ Cardinality(C) = Cardinality(B)
  BY <1>2, <1>5, FS_Bijection DEF ExistsBijection
<1>7. Cardinality(D) = Cardinality(A) + Cardinality(C) - Cardinality({})
  BY <1>2, <1>3, <1>4, <1>6, FS_Union
<1>8. Cardinality({}) = 0 /\ Cardinality(A) \in Nat /\ Cardinality(C) \in Nat
  BY <1>2, <1>6, FS_EmptySet, FS_CardinalityType
<1>9. CountIn(s \o t, W) = Cardinality(D) /\ CountIn(s, W) = Cardinality(A) /\ CountIn(t, W) = Cardinality(B)
  BY DEF CountIn, A, B, D
<1> QED
  BY <1>6, <1>7, <1>8, <1>9

\* The elements of a concatenation are those of its parts, so many times.
LEMMA FlattenCount ==
  ASSUME NEW n \in Nat, NEW s, IsSequence(s), Len(s) = n, NEW X, \A i \in 1..n : s[i] \in Seq(X), NEW W,
         NEW c \in Numbers(n), CountsOf(n, s, W, c)
  PROVE  FlattenSeq(s) \in Seq(X) /\ CountIn(FlattenSeq(s), W) = SumOf(c)
<1>1. PICK f \in [0..n -> Seq(X)] :
        /\ f[0] = << >>
        /\ \A i \in 1..n : f[i] = f[i - 1] \o s[i]
        /\ FlattenSeq(s) = f[n]
  BY FlattenSteps, ZenonT(40)
<1> DEFINE h == [i \in 0..n |-> CountIn(f[i], W)]
<1>4. h[0] = 0
  <2>1. { k \in DOMAIN << >> : << >>[k] \in W } = {}
    OBVIOUS
  <2>2. CountIn(<< >>, W) = 0
    BY <2>1, FS_EmptySet DEF CountIn
  <2>3. h[0] = CountIn(f[0], W)
    OBVIOUS
  <2> QED
    BY <1>1, <2>2, <2>3
<1>5. ASSUME NEW i \in 1..n PROVE h[i] = h[i - 1] + c[i]
  <2>1. i \in 0..n /\ i - 1 \in 0..n
    OBVIOUS
  <2>2. f[i - 1] \in Seq(X) /\ s[i] \in Seq(X) /\ f[i] = f[i - 1] \o s[i]
    BY <1>1, <2>1
  <2>3. CountIn(f[i], W) = CountIn(f[i - 1], W) + CountIn(s[i], W)
    BY <2>2, CountConcat
  <2> QED
    BY <2>1, <2>3 DEF CountsOf
<1>6. h[n] = CountIn(FlattenSeq(s), W) /\ n \in 0..n
  BY <1>1
<1> HIDE DEF h
<1>7. SumOf(c) = CountIn(FlattenSeq(s), W)
  BY <1>4, <1>5, <1>6, SumEquals
<1>8. f[n] \in Seq(X)
  BY <1>6
<1> QED
  BY <1>1, <1>7, <1>8

LEMMA CountAll ==
  ASSUME NEW X, NEW s \in Seq(X)
  PROVE  CountIn(s, X) = Len(s)
<1>1. Len(s) \in Nat /\ DOMAIN s = 1..Len(s)
  BY LenProperties
<1>2. { k \in DOMAIN s : s[k] \in X } = 1..Len(s)
  BY <1>1, ElementOfSeq
<1>3. Cardinality(1..Len(s)) = Len(s)
  BY <1>1, FS_Interval, SMTT(30)
<1> QED
  BY <1>2, <1>3 DEF CountIn

LEMMA FlattenSum ==
  ASSUME NEW n \in Nat, NEW s, IsSequence(s), Len(s) = n, NEW X, \A i \in 1..n : s[i] \in Seq(X),
         NEW c \in Numbers(n), LengthsOf(n, s, c)
  PROVE  FlattenSeq(s) \in Seq(X) /\ Len(FlattenSeq(s)) = SumOf(c)
<1>1. CountsOf(n, s, X, c)
  BY CountAll DEF CountsOf, LengthsOf
<1>2. FlattenSeq(s) \in Seq(X) /\ CountIn(FlattenSeq(s), X) = SumOf(c)
  BY <1>1, FlattenCount
<1> QED
  BY <1>2, CountAll

LEMMA FlattenType ==
  ASSUME NEW n \in Nat, NEW s, IsSequence(s), Len(s) = n, NEW X, \A i \in 1..n : s[i] \in Seq(X)
  PROVE  FlattenSeq(s) \in Seq(X)
<1>1. PICK f \in [0..n -> Seq(X)] : FlattenSeq(s) = f[n]
  BY FlattenSteps, ZenonT(40)
<1> QED
  BY <1>1

---------------------------------------------------------------------------
(* Sorted sequences *)

\* B, a set of pairs of places, orders them: not both ways, and what is between is before or behind.
IsOrder(N, B) ==
  /\ \A j, k \in 1..N : << j, k >> \in B => << k, j >> \notin B
  /\ \A i, j, k \in 1..N : << i, j >> \notin B /\ << j, k >> \notin B => << i, k >> \notin B
\* j is k, before it, or not behind it and further to the left.
UpTo(N, B, k) == { j \in 1..N : << j, k >> \in B \/ (j <= k /\ << k, j >> \notin B) }

LEMMA UpToGrows ==
  ASSUME NEW N \in Nat, NEW B, IsOrder(N, B), NEW j \in 1..N, NEW k \in 1..N, j \in UpTo(N, B, k), j # k
  PROVE  UpTo(N, B, j) \subseteq UpTo(N, B, k) /\ k \in UpTo(N, B, k) /\ k \notin UpTo(N, B, j)
<1>1. \A x \in 1..N : << x, x >> \notin B
  BY DEF IsOrder
<1>2. << k, j >> \notin B
  BY DEF IsOrder, UpTo
<1>3. k \in UpTo(N, B, k)
  BY <1>1 DEF UpTo
<1>4. k \notin UpTo(N, B, j)
  BY <1>2 DEF UpTo
<1>5. ASSUME NEW i \in UpTo(N, B, j) PROVE i \in UpTo(N, B, k)
  <2>1. i \in 1..N /\ << j, i >> \notin B
    BY <1>1 DEF IsOrder, UpTo
  <2>2. << k, i >> \notin B
    BY <1>2, <2>1 DEF IsOrder
  <2>3. CASE i <= k
    BY <2>1, <2>2, <2>3 DEF UpTo
  <2>4. CASE ~(i <= k)
    <3> SUFFICES ASSUME << i, k >> \notin B PROVE FALSE
      BY <2>1 DEF UpTo
    <3>1. << i, j >> \notin B
      BY <1>2, <2>1 DEF IsOrder
    <3>2. i <= j
      BY <3>1 DEF UpTo
    <3>3. << j, k >> \notin B
      BY <2>1 DEF IsOrder
    <3>4. j <= k
      BY <3>3 DEF UpTo
    <3> QED
      BY <2>1, <2>4, <3>2, <3>4
  <2> QED
    BY <2>3, <2>4
<1> QED
  BY <1>3, <1>4, <1>5

\* Where an element goes.
Place(N, B, k) == Cardinality(UpTo(N, B, k))

LEMMA PlacesDiffer ==
  ASSUME NEW N \in Nat, NEW B, IsOrder(N, B), NEW j \in 1..N, NEW k \in 1..N, j \in UpTo(N, B, k), j # k
  PROVE  Place(N, B, j) < Place(N, B, k)
<1>1. UpTo(N, B, j) \subseteq UpTo(N, B, k) /\ UpTo(N, B, j) # UpTo(N, B, k)
  BY UpToGrows
<1>2. IsFiniteSet(UpTo(N, B, k))
  <2>1. UpTo(N, B, k) \in SUBSET (1..N)
    BY DEF UpTo
  <2> QED
    BY <2>1, IntervalIs, FS_Subset
<1>3. /\ IsFiniteSet(UpTo(N, B, j)) /\ Cardinality(UpTo(N, B, j)) <= Cardinality(UpTo(N, B, k))
      /\ Cardinality(UpTo(N, B, j)) # Cardinality(UpTo(N, B, k))
  BY <1>1, <1>2, FS_Subset
<1>4. Cardinality(UpTo(N, B, j)) \in Nat /\ Cardinality(UpTo(N, B, k)) \in Nat
  BY <1>2, <1>3, FS_CardinalityType
<1> QED
  BY <1>3, <1>4 DEF Place

LEMMA UpToTotal ==
  ASSUME NEW N \in Nat, NEW B, IsOrder(N, B), NEW j \in 1..N, NEW k \in 1..N
  PROVE  j \in UpTo(N, B, k) \/ k \in UpTo(N, B, j)
<1>1. CASE << j, k >> \in B \/ << k, j >> \in B
  BY <1>1 DEF UpTo
<1>2. CASE << j, k >> \notin B /\ << k, j >> \notin B
  BY <1>2 DEF UpTo
<1> QED
  BY <1>1, <1>2

LEMMA PlacesCover ==
  ASSUME NEW N \in Nat, NEW B, IsOrder(N, B)
  PROVE  [k \in 1..N |-> Place(N, B, k)] \in Bijection(1..N, 1..N)
<1> DEFINE p == [k \in 1..N |-> Place(N, B, k)]
<1>1. ASSUME NEW k \in 1..N PROVE Place(N, B, k) \in 1..N
  <2>1. UpTo(N, B, k) \in SUBSET (1..N) /\ k \in UpTo(N, B, k)
    BY DEF UpTo, IsOrder
  <2>2. IsFiniteSet(1..N) /\ Cardinality(1..N) = N
    BY IntervalIs
  <2>3. IsFiniteSet(UpTo(N, B, k)) /\ Cardinality(UpTo(N, B, k)) <= N
    BY <2>1, <2>2, FS_Subset
  <2>4. Cardinality(UpTo(N, B, k)) \in Nat /\ Cardinality(UpTo(N, B, k)) # 0
    BY <2>1, <2>3, FS_CardinalityType, FS_EmptySet
  <2> QED
    BY <2>3, <2>4 DEF Place
<1>2. ASSUME NEW j \in 1..N, NEW k \in 1..N, j # k PROVE Place(N, B, j) # Place(N, B, k)
  <2>1. Place(N, B, j) \in Nat /\ Place(N, B, k) \in Nat
    BY <1>1
  <2>2. Place(N, B, j) < Place(N, B, k) \/ Place(N, B, k) < Place(N, B, j)
    BY <1>2, UpToTotal, PlacesDiffer
  <2> QED
    BY <2>1, <2>2
<1>3. p \in Injection(1..N, 1..N)
  BY <1>1, <1>2 DEF Injection, IsInjective
<1> HIDE DEF p
<1>4. p \in Surjection(1..N, 1..N)
  BY <1>3, IntervalIs, FS_Injection
<1> QED
  BY <1>3, <1>4 DEF Bijection, p

\* t is the N elements of s, each in its place p.
Placed(D, p, s) == [x \in D |-> s[CHOOSE k \in D : p[k] = x]]

\* t has the elements of s; one comes before another when it must, or was there before and may.
SortsTo(N, B, s, t) ==
  \E f \in Bijection(1..N, 1..N) :
    /\ \A x \in 1..N : t[x] = s[f[x]]
    /\ \A x, y \in 1..N : x < y => << f[y], f[x] >> \notin B /\ (<< f[x], f[y] >> \in B \/ f[x] < f[y])

LEMMA SortedIs ==
  ASSUME NEW N \in Nat, NEW B, IsOrder(N, B), NEW p, p = [k \in 1..N |-> Place(N, B, k)], NEW s, NEW t, t = Placed(1..N, p, s)
  PROVE  SortsTo(N, B, s, t)
<1> DEFINE f == [x \in 1..N |-> CHOOSE k \in 1..N : p[k] = x]
<1>1. p \in Bijection(1..N, 1..N)
  BY PlacesCover
<1>2. ASSUME NEW x \in 1..N PROVE f[x] \in 1..N /\ Place(N, B, f[x]) = x
  <2>1. \E k \in 1..N : p[k] = x
    BY <1>1 DEF Bijection, Surjection
  <2> QED
    BY <2>1
<1>3. ASSUME NEW k \in 1..N PROVE \E x \in 1..N : f[x] = k
  <2>1. Place(N, B, k) \in 1..N
    BY <1>1 DEF Bijection, Surjection
  <2>2. f[Place(N, B, k)] \in 1..N /\ Place(N, B, f[Place(N, B, k)]) = Place(N, B, k)
    BY <1>2, <2>1
  <2> HIDE DEF f
  <2>3. f[Place(N, B, k)] = k
    BY <1>1, <2>2 DEF Bijection, Injection, IsInjective
  <2> QED
    BY <2>1, <2>3
<1>4. \A x \in 1..N : t[x] = s[f[x]]
  BY DEF Placed
<1>5. f = [x \in 1..N |-> f[x]]
  OBVIOUS
<1> HIDE DEF f
<1>6. f \in Bijection(1..N, 1..N)
  <2>1. f \in [1..N -> 1..N]
    BY <1>2, <1>5
  <2>2. f \in Injection(1..N, 1..N)
    BY <1>2, <2>1 DEF Injection, IsInjective
  <2>3. f \in Surjection(1..N, 1..N)
    BY <1>3, <2>1 DEF Surjection
  <2> QED
    BY <2>2, <2>3 DEF Bijection
<1>7. ASSUME NEW x \in 1..N, NEW y \in 1..N, x < y
      PROVE  << f[y], f[x] >> \notin B /\ (<< f[x], f[y] >> \in B \/ f[x] < f[y])
  <2>1. f[x] \in 1..N /\ f[y] \in 1..N /\ Place(N, B, f[x]) = x /\ Place(N, B, f[y]) = y
    BY <1>2
  <2>2. f[y] \notin UpTo(N, B, f[x])
    <3> SUFFICES ASSUME f[y] \in UpTo(N, B, f[x]) PROVE FALSE
      OBVIOUS
    <3>1. f[y] # f[x]
      BY <1>7, <2>1
    <3>2. y < x
      BY <2>1, <3>1, PlacesDiffer
    <3> QED
      BY <1>7, <3>2
  <2>3. f[x] \in UpTo(N, B, f[y]) /\ f[x] # f[y]
    BY <1>7, <2>1, <2>2, UpToTotal
  <2> QED
    <3>1. PICK j \in 1..N, k \in 1..N : j = f[x] /\ k = f[y]
      BY <2>1
    <3>2. << k, j >> \notin B
      BY <2>2, <3>1 DEF UpTo
    <3>3. j \in UpTo(N, B, k) /\ j # k
      BY <2>3, <3>1
    <3>4. << j, k >> \in B \/ j <= k
      BY <3>3 DEF UpTo
    <3>5. j <= k => j < k
      BY <3>3
    <3> QED
      BY <3>1, <3>2, <3>4, <3>5
<1> QED
  BY <1>4, <1>6, <1>7 DEF SortsTo

\* As many elements of a set after sorting as before.
LEMMA SortedCount ==
  ASSUME NEW N \in Nat, NEW f \in Bijection(1..N, 1..N), NEW s, NEW t, DOMAIN s = 1..N, DOMAIN t = 1..N,
         \A x \in 1..N : t[x] = s[f[x]], NEW W
  PROVE  CountIn(t, W) = CountIn(s, W)
<1> DEFINE S == { x \in 1..N : t[x] \in W }
           T == { k \in 1..N : s[k] \in W }
           g == [x \in S |-> f[x]]
<1>1. f \in [1..N -> 1..N] /\ (\A x, y \in 1..N : f[x] = f[y] => x = y) /\ \A k \in 1..N : \E x \in 1..N : f[x] = k
  BY DEF Bijection, Injection, Surjection, IsInjective
<1>2. g \in [S -> T]
  BY <1>1
<1>3. g \in Injection(S, T)
  BY <1>1, <1>2 DEF Injection, IsInjective
<1>4. g \in Surjection(S, T)
  <2>1. ASSUME NEW k \in T PROVE \E x \in S : g[x] = k
    <3>1. PICK x \in 1..N : f[x] = k
      BY <1>1
    <3>2. x \in S /\ g[x] = k
      BY <3>1
    <3> QED
      BY <3>2
  <2> QED
    BY <1>2, <2>1 DEF Surjection
<1>5. IsFiniteSet(S)
  <2>1. S \in SUBSET (1..N)
    OBVIOUS
  <2> HIDE DEF S
  <2> QED
    BY <2>1, IntervalIs, FS_Subset
<1> HIDE DEF S, T, g
<1>6. Cardinality(T) = Cardinality(S)
  BY <1>3, <1>4, <1>5, FS_Bijection DEF Bijection, ExistsBijection
<1>7. CountIn(t, W) = Cardinality(S) /\ CountIn(s, W) = Cardinality(T)
  BY DEF CountIn, S, T
<1> QED
  BY <1>6, <1>7

\* What the order of a sort is on the elements of s.
LEMMA PlacedByValue ==
  ASSUME NEW s, IsSequence(s), NEW B, B = { jk \in (1..Len(s)) \X (1..Len(s)) : Smaller(s[jk[1]], s[jk[2]]) },
         NEW p, p = [k \in 1..Len(s) |-> Place(Len(s), B, k)]
  PROVE  StableSort(s) = Placed(1..Len(s), p, s)
<1> DEFINE P == [k \in DOMAIN s |-> Cardinality({ j \in DOMAIN s : Smaller(s[j], s[k]) \/ (j <= k /\ ~Smaller(s[k], s[j])) })]
<1>1. DOMAIN s = 1..Len(s)
  BY SequenceFacts
<1>2. ASSUME NEW k \in 1..Len(s)
      PROVE  { j \in DOMAIN s : Smaller(s[j], s[k]) \/ (j <= k /\ ~Smaller(s[k], s[j])) } = UpTo(Len(s), B, k)
  BY <1>1 DEF UpTo
<1>3. P = p
  BY <1>1, <1>2 DEF Place
<1> HIDE DEF P
<1>4. { [n \in DOMAIN s |-> s[CHOOSE k \in DOMAIN s : f[k] = n]] : f \in { P } } = { Placed(1..Len(s), p, s) }
  <2>1. { Placed(DOMAIN s, f, s) : f \in { P } } = { Placed(DOMAIN s, P, s) }
    OBVIOUS
  <2>2. Placed(DOMAIN s, P, s) = Placed(1..Len(s), p, s)
    BY <1>1, <1>3
  <2> QED
    BY <2>1, <2>2, Zenon DEF Placed
<1>5. StableSort(s) = CHOOSE t \in { [n \in DOMAIN s |-> s[CHOOSE k \in DOMAIN s : f[k] = n]] : f \in { P } } : TRUE
  BY DEF StableSort, Ordered, P
<1>6. \A a : (CHOOSE t \in { a } : TRUE) = a
  OBVIOUS
<1> QED
  BY <1>4, <1>5, <1>6

LEMMA PlacedByPrecedes ==
  ASSUME NEW s, IsSequence(s), NEW B, B = { jk \in (1..Len(s)) \X (1..Len(s)) : Precedes(s[jk[1]], s[jk[2]]) },
         NEW p, p = [k \in 1..Len(s) |-> Place(Len(s), B, k)]
  PROVE  Ordered(s, Precedes) = Placed(1..Len(s), p, s)
<1> DEFINE P == [k \in DOMAIN s |-> Cardinality({ j \in DOMAIN s : Precedes(s[j], s[k]) \/ (j <= k /\ ~Precedes(s[k], s[j])) })]
<1>1. DOMAIN s = 1..Len(s)
  BY SequenceFacts
<1>2. ASSUME NEW k \in 1..Len(s)
      PROVE  { j \in DOMAIN s : Precedes(s[j], s[k]) \/ (j <= k /\ ~Precedes(s[k], s[j])) } = UpTo(Len(s), B, k)
  BY <1>1 DEF UpTo
<1>3. P = p
  BY <1>1, <1>2 DEF Place
<1> HIDE DEF P
<1>4. { [n \in DOMAIN s |-> s[CHOOSE k \in DOMAIN s : f[k] = n]] : f \in { P } } = { Placed(1..Len(s), p, s) }
  <2>1. { Placed(DOMAIN s, f, s) : f \in { P } } = { Placed(DOMAIN s, P, s) }
    OBVIOUS
  <2>2. Placed(DOMAIN s, P, s) = Placed(1..Len(s), p, s)
    BY <1>1, <1>3
  <2> QED
    BY <2>1, <2>2, Zenon DEF Placed
<1>5. Ordered(s, Precedes) = CHOOSE t \in { [n \in DOMAIN s |-> s[CHOOSE k \in DOMAIN s : f[k] = n]] : f \in { P } } : TRUE
  BY DEF Ordered, P
<1>6. \A a : (CHOOSE t \in { a } : TRUE) = a
  OBVIOUS
<1> QED
  BY <1>4, <1>5, <1>6

LEMMA PlacedSequence ==
  ASSUME NEW N \in Nat, NEW p, NEW s, NEW t, t = Placed(1..N, p, s)
  PROVE  IsSequence(t) /\ Len(t) = N /\ DOMAIN t = 1..N
<1>1. t = [x \in 1..N |-> t[x]]
  BY DEF Placed
<1> QED
  BY <1>1, FunctionIs

\* A sorted sequence is as long as it was.
LEMMA StableSortLength ==
  ASSUME NEW s, IsSequence(s)
  PROVE  IsSequence(StableSort(s)) /\ Len(StableSort(s)) = Len(s)
<1> DEFINE B == { jk \in (1..Len(s)) \X (1..Len(s)) : Smaller(s[jk[1]], s[jk[2]]) }
           p == [k \in 1..Len(s) |-> Place(Len(s), B, k)]
<1>1. StableSort(s) = Placed(1..Len(s), p, s)
  BY PlacedByValue
<1>2. Len(s) \in Nat
  BY SequenceFacts
<1> HIDE DEF p
<1> QED
  BY <1>1, <1>2, PlacedSequence

Elements == [v : Int, i : Int]
InOrderOfValues(line) == \A x, y \in 1..Len(line) : x < y => line[x].v <= line[y].v

\* t is s in the order of values, equal ones in the order of s.
Settled(N, s, t) ==
  \E f \in Bijection(1..N, 1..N) :
    /\ \A x \in 1..N : t[x] = s[f[x]]
    /\ \A x, y \in 1..N : x < y => s[f[x]].v < s[f[y]].v \/ (s[f[x]].v = s[f[y]].v /\ f[x] < f[y])

LEMMA StableSortSettles ==
  ASSUME NEW s \in Seq(Elements), NEW t, t = StableSort(s)
  PROVE  Settled(Len(s), s, t) /\ IsSequence(t) /\ Len(t) = Len(s) /\ DOMAIN t = 1..Len(s)
<1> DEFINE B == { jk \in (1..Len(s)) \X (1..Len(s)) : Smaller(s[jk[1]], s[jk[2]]) }
           p == [k \in 1..Len(s) |-> Place(Len(s), B, k)]
<1>1. IsSequence(s) /\ Len(s) \in Nat /\ \A k \in 1..Len(s) : s[k] \in Elements
  BY LenProperties, ElementOfSeq DEF IsSequence
<1>2. t = Placed(1..Len(s), p, s)
  BY <1>1, PlacedByValue
<1>3. IsOrder(Len(s), B)
  <2>1. \A j, k \in 1..Len(s) : << j, k >> \in B <=> s[j].v < s[k].v
    BY DEF Smaller
  <2>2. \A k \in 1..Len(s) : s[k].v \in Int
    BY <1>1 DEF Elements
  <2> HIDE DEF B
  <2>3. ASSUME NEW j \in 1..Len(s), NEW k \in 1..Len(s), << j, k >> \in B PROVE << k, j >> \notin B
    <3>1. s[j].v < s[k].v /\ s[j].v \in Int /\ s[k].v \in Int
      BY <2>1, <2>2, <2>3
    <3>2. ~(s[k].v < s[j].v)
      BY <3>1
    <3> QED
      BY <2>1, <3>2
  <2>4. ASSUME NEW i \in 1..Len(s), NEW j \in 1..Len(s), NEW k \in 1..Len(s), << i, j >> \notin B, << j, k >> \notin B
        PROVE  << i, k >> \notin B
    <3>1. ~(s[i].v < s[j].v) /\ ~(s[j].v < s[k].v) /\ s[i].v \in Int /\ s[j].v \in Int /\ s[k].v \in Int
      BY <2>1, <2>2, <2>4
    <3>2. ~(s[i].v < s[k].v)
      BY <3>1
    <3> QED
      BY <2>1, <3>2
  <2> QED
    BY <2>3, <2>4 DEF IsOrder
<1>4. \A j, k \in 1..Len(s) : /\ << j, k >> \in B => s[j].v < s[k].v
                              /\ << j, k >> \notin B => s[k].v <= s[j].v
  BY <1>1 DEF Smaller, Elements
<1> HIDE DEF B
<1>5. SortsTo(Len(s), B, s, t)
  <2>1. p = [k \in 1..Len(s) |-> Place(Len(s), B, k)]
    OBVIOUS
  <2>2. Len(s) \in Nat
    BY <1>1
  <2> HIDE DEF p
  <2> QED
    BY <1>2, <1>3, <2>1, <2>2, SortedIs
<1>6. PICK f \in Bijection(1..Len(s), 1..Len(s)) :
        /\ \A x \in 1..Len(s) : t[x] = s[f[x]]
        /\ \A x, y \in 1..Len(s) : x < y => << f[y], f[x] >> \notin B /\ (<< f[x], f[y] >> \in B \/ f[x] < f[y])
  BY <1>5 DEF SortsTo
<1>7. ASSUME NEW x \in 1..Len(s), NEW y \in 1..Len(s), x < y
      PROVE  s[f[x]].v < s[f[y]].v \/ (s[f[x]].v = s[f[y]].v /\ f[x] < f[y])
  <2>1. f[x] \in 1..Len(s) /\ f[y] \in 1..Len(s)
    BY DEF Bijection, Injection
  <2>2. << f[y], f[x] >> \notin B /\ (<< f[x], f[y] >> \in B \/ f[x] < f[y])
    BY <1>6, <1>7
  <2>3. s[f[x]].v <= s[f[y]].v /\ (s[f[x]].v < s[f[y]].v \/ f[x] < f[y])
    BY <1>4, <2>1, <2>2
  <2>4. s[f[x]].v \in Int /\ s[f[y]].v \in Int
    BY <1>1, <2>1 DEF Elements
  <2> QED
    BY <2>3, <2>4
<1>8. Settled(Len(s), s, t)
  BY <1>6, <1>7 DEF Settled
<1> HIDE DEF p
<1> QED
  BY <1>1, <1>2, <1>8, PlacedSequence

LEMMA StableSortIs ==
  ASSUME NEW s \in Seq(Elements), NEW t, t = StableSort(s)
  PROVE  t \in Seq(Elements) /\ Len(t) = Len(s) /\ InOrderOfValues(t)
<1>1. Settled(Len(s), s, t) /\ IsSequence(t) /\ Len(t) = Len(s) /\ DOMAIN t = 1..Len(s)
  BY StableSortSettles
<1>2. Len(s) \in Nat /\ \A k \in 1..Len(s) : s[k] \in Elements
  BY LenProperties, ElementOfSeq
<1>3. PICK f \in Bijection(1..Len(s), 1..Len(s)) :
        /\ \A x \in 1..Len(s) : t[x] = s[f[x]]
        /\ \A x, y \in 1..Len(s) : x < y => s[f[x]].v < s[f[y]].v \/ (s[f[x]].v = s[f[y]].v /\ f[x] < f[y])
  BY <1>1 DEF Settled
<1>4. \A x \in 1..Len(s) : f[x] \in 1..Len(s) /\ t[x] \in Elements
  BY <1>2, <1>3 DEF Bijection, Injection
<1>5. t \in Seq(Elements)
  <2>1. t \in [1..Len(s) -> Elements]
    BY <1>1, <1>4, SequenceFacts DEF IsSequence
  <2> QED
    BY <1>2, <2>1, SeqDef
<1>6. InOrderOfValues(t)
  <2> SUFFICES ASSUME NEW x \in 1..Len(s), NEW y \in 1..Len(s), x < y PROVE t[x].v <= t[y].v
    BY <1>1 DEF InOrderOfValues
  <2>1. t[x].v < t[y].v \/ t[x].v = t[y].v
    BY <1>3
  <2>2. t[x].v \in Int /\ t[y].v \in Int
    BY <1>4 DEF Elements
  <2> QED
    BY <2>1, <2>2
<1> QED
  BY <1>1, <1>5, <1>6

Samples == [segment : Int, rank : Nat \union {-1}, value : Int, position : Int]

LEMMA PrecedesIsOrder ==
  ASSUME NEW a \in Samples, NEW b \in Samples, NEW c \in Samples
  PROVE  /\ Precedes(a, b) => ~Precedes(b, a)
         /\ ~Precedes(a, b) /\ ~Precedes(b, c) => ~Precedes(a, c)
BY DEF Precedes, Samples

\* Samples, and samples in order.
Arranged(s) == Ordered(s, Precedes)
SamplesInOrder(t) == t \in Seq(Samples) /\ \A x, y \in 1..Len(t) : x < y => ~Precedes(t[y], t[x])

\* As many elements of any kind in t as in s; those of t are of s.
SameCounts(s, t) == \A W : CountIn(t, W) = CountIn(s, W)
ComeFrom(s, t) == \A x \in 1..Len(t) : \E k \in 1..Len(s) : t[x] = s[k]

LEMMA SamplesSorted ==
  ASSUME NEW s \in Seq(Samples), NEW t, t = Arranged(s)
  PROVE  SamplesInOrder(t) /\ Len(t) = Len(s) /\ ComeFrom(s, t) /\ SameCounts(s, t)
<1> DEFINE B == { jk \in (1..Len(s)) \X (1..Len(s)) : Precedes(s[jk[1]], s[jk[2]]) }
           p == [k \in 1..Len(s) |-> Place(Len(s), B, k)]
<1>1. IsSequence(s) /\ Len(s) \in Nat /\ (\A k \in 1..Len(s) : s[k] \in Samples) /\ DOMAIN s = 1..Len(s)
  BY LenProperties, ElementOfSeq DEF IsSequence
<1>2. t = Placed(1..Len(s), p, s)
  BY <1>1, PlacedByPrecedes DEF Arranged
<1>3. IsOrder(Len(s), B)
  <2>1. \A j, k \in 1..Len(s) : << j, k >> \in B <=> Precedes(s[j], s[k])
    OBVIOUS
  <2> HIDE DEF B
  <2> QED
    BY <1>1, <2>1, PrecedesIsOrder DEF IsOrder
<1>4. \A j, k \in 1..Len(s) : << j, k >> \notin B => ~Precedes(s[j], s[k])
  OBVIOUS
<1> HIDE DEF B
<1>5. PICK f \in Bijection(1..Len(s), 1..Len(s)) :
        /\ \A x \in 1..Len(s) : t[x] = s[f[x]]
        /\ \A x, y \in 1..Len(s) : x < y => << f[y], f[x] >> \notin B
  <2>1. p = [k \in 1..Len(s) |-> Place(Len(s), B, k)]
    OBVIOUS
  <2> HIDE DEF p
  <2>2. SortsTo(Len(s), B, s, t)
    BY <1>1, <1>2, <1>3, <2>1, SortedIs
  <2> QED
    BY <2>2 DEF SortsTo
<1>6. \A x \in 1..Len(s) : f[x] \in 1..Len(s)
  BY <1>5 DEF Bijection, Injection
<1> HIDE DEF p
<1>7. IsSequence(t) /\ Len(t) = Len(s) /\ DOMAIN t = 1..Len(s)
  BY <1>1, <1>2, PlacedSequence
<1>8. t \in Seq(Samples)
  <2>1. t = [x \in 1..Len(s) |-> t[x]]
    BY <1>2 DEF Placed
  <2>2. t \in [1..Len(s) -> Samples]
    BY <1>1, <1>5, <1>6, <2>1
  <2> QED
    BY <1>1, <2>2, SeqDef
<1>9. \A W : CountIn(t, W) = CountIn(s, W)
  BY <1>1, <1>5, <1>7, SortedCount
<1>10. ASSUME NEW x \in 1..Len(s), NEW y \in 1..Len(s), x < y PROVE ~Precedes(t[y], t[x])
  <2>1. << f[y], f[x] >> \notin B
    BY <1>5, <1>10
  <2>2. ~Precedes(s[f[y]], s[f[x]])
    BY <1>4, <1>6, <2>1
  <2> QED
    BY <1>5, <2>2
<1> QED
  BY <1>5, <1>6, <1>7, <1>8, <1>9, <1>10 DEF SamplesInOrder, ComeFrom, SameCounts

---------------------------------------------------------------------------
(* Where a line is cut *)

\* The elements of a part's line that come up to a splitter, in the order of values, ranks and positions.
Below(line, me, splitter) ==
  { k \in 1..Len(line) :
      line[k].v < splitter.value
      \/ (line[k].v = splitter.value /\ (me < splitter.rank \/ (me = splitter.rank /\ k <= splitter.position))) }

LEMMA PrefixIs ==
  ASSUME NEW n \in Nat, NEW D, D \subseteq 1..n, \A k \in D : \A j \in 1..k : j \in D
  PROVE  \E c \in 0..n : D = 1..c
<1>1. CASE D = 1..n
  BY <1>1
<1>2. CASE D # 1..n
  <2> DEFINE Others == (1..n) \ D
  <2>1. Others \subseteq Nat /\ Others # {}
    <3>1. \E k : k \in 1..n /\ k \notin D
      BY <1>2, Zenon
    <3> QED
      BY <3>1
  <2> HIDE DEF Others
  <2>2. PICK x \in Others : \A y \in Others : x <= y
    BY <2>1, LeastNat
  <2>3. x \in 1..n /\ x \notin D /\ x - 1 \in 0..n
    BY <2>2 DEF Others
  <2>4. \A k \in 1..n : k < x => k \in D
    BY <2>2, <2>3 DEF Others
  <2>5. \A k \in D : k < x
    <3> SUFFICES ASSUME NEW k \in D, ~(k < x) PROVE FALSE
      OBVIOUS
    <3>1. x \in 1..k
      BY <2>3
    <3> QED
      BY <2>3, <3>1
  <2>6. \A k \in D : k \in 1..(x - 1)
    BY <2>3, <2>5
  <2>7. \A k \in 1..(x - 1) : k \in D
    BY <2>3, <2>4
  <2>8. D = 1..(x - 1)
    BY <2>6, <2>7, Zenon
  <2> QED
    BY <2>3, <2>8
<1> QED
  BY <1>1, <1>2

LEMMA BelowPrefix ==
  ASSUME NEW line \in Seq(Elements), InOrderOfValues(line), NEW me \in Nat, NEW sp \in Samples
  PROVE  \E c \in 0..Len(line) : Below(line, me, sp) = 1..c
<1>1. Len(line) \in Nat /\ \A k \in 1..Len(line) : line[k].v \in Int
  <2>1. \A k \in 1..Len(line) : line[k] \in Elements
    BY ElementOfSeq
  <2> QED
    BY <2>1, LenProperties DEF Elements
<1>2. sp.value \in Int /\ sp.rank \in Int /\ sp.position \in Int
  BY DEF Samples
<1>3. ASSUME NEW k \in Below(line, me, sp), NEW j \in 1..k PROVE j \in Below(line, me, sp)
  <2>1. CASE j = k
    BY <2>1
  <2>2. CASE j # k
    <3>1. j \in 1..Len(line) /\ k \in 1..Len(line) /\ j < k
      BY <1>1, <2>2 DEF Below
    <3>2. line[j].v <= line[k].v /\ line[j].v \in Int /\ line[k].v \in Int
      BY <1>1, <3>1 DEF InOrderOfValues
    <3> QED
      BY <1>2, <3>1, <3>2 DEF Below
  <2> QED
    BY <2>1, <2>2
<1>4. Below(line, me, sp) \subseteq 1..Len(line)
  BY DEF Below
<1> QED
  BY <1>1, <1>3, <1>4, PrefixIs

LEMMA BelowGrows ==
  ASSUME NEW line \in Seq(Elements), NEW me \in Nat, NEW a \in Samples, NEW b \in Samples,
         a.rank # -1, b.rank # -1, a.segment = b.segment, ~Precedes(b, a)
  PROVE  Below(line, me, a) \subseteq Below(line, me, b)
<1>1. Len(line) \in Nat /\ \A k \in 1..Len(line) : line[k].v \in Int
  <2>1. \A k \in 1..Len(line) : line[k] \in Elements
    BY ElementOfSeq
  <2> QED
    BY <2>1, LenProperties DEF Elements
<1>2. /\ a.value \in Int /\ a.rank \in Nat /\ a.position \in Int
      /\ b.value \in Int /\ b.rank \in Nat /\ b.position \in Int
  BY DEF Samples
<1>3. a.value < b.value \/ (a.value = b.value /\ (a.rank < b.rank \/ (a.rank = b.rank /\ a.position <= b.position)))
  BY <1>2 DEF Precedes
<1> QED
  BY <1>1, <1>2, <1>3, SMTT(30) DEF Below

LEMMA BetweenIs ==
  ASSUME NEW a \in Nat, NEW c \in Nat, a <= c
  PROVE  Cardinality((a + 1)..c) = c - a
<1>1. a + 1 \in Int /\ c \in Int
  OBVIOUS
<1>2. Cardinality((a + 1)..c) = IF a + 1 > c THEN 0 ELSE c - (a + 1) + 1
  BY <1>1, FS_Interval
<1> QED
  BY <1>2

LEMMA EndAtIs ==
  ASSUME NEW line \in Seq(Elements), InOrderOfValues(line), NEW me \in Nat, NEW sp \in Samples,
         NEW from \in Nat, NEW c \in 0..Len(line), Below(line, me, sp) = 1..c, from <= c,
         me = sp.rank => sp.position \in 1..Len(line) /\ line[sp.position].v = sp.value
  PROVE  EndAt(line, from, me, sp) = c
<1>1. Len(line) \in Nat /\ \A k \in 1..Len(line) : line[k].v \in Int
  <2>1. \A k \in 1..Len(line) : line[k] \in Elements
    BY ElementOfSeq
  <2> QED
    BY <2>1, LenProperties DEF Elements
<1>2. sp.value \in Int /\ sp.rank \in Int /\ sp.position \in Int
  BY DEF Samples
<1>3. CASE me = sp.rank
  <2>1. \A k \in 1..Len(line) : k < sp.position => line[k].v <= sp.value
    BY <1>3 DEF InOrderOfValues
  <2>2. \A k \in 1..Len(line) : sp.position < k => sp.value <= line[k].v
    BY <1>3 DEF InOrderOfValues
  <2>3. \A k \in 1..Len(line) : k \in Below(line, me, sp) <=> k <= sp.position
    BY <1>1, <1>2, <1>3, <2>1, <2>2, SMTT(30) DEF Below
  <2>4. \A k \in 1..Len(line) : k \in 1..c <=> k <= sp.position
    BY <2>3
  <2>5. sp.position \in 1..Len(line) /\ c \in Nat /\ c <= Len(line)
    BY <1>1, <1>3
  <2>6. c = sp.position
    <3>1. sp.position \in 1..c
      BY <2>4, <2>5
    <3>2. c \in 1..Len(line) /\ c \in 1..c
      BY <2>5, <3>1
    <3>3. c <= sp.position
      BY <2>4, <3>2
    <3> QED
      BY <2>5, <3>1, <3>3
  <2> QED
    BY <1>3, <2>6 DEF EndAt
<1>4. CASE me # sp.rank
  <2> DEFINE K == { k \in (from + 1)..Len(line) : line[k].v < sp.value \/ (me < sp.rank /\ line[k].v = sp.value) }
  <2>1. \A k \in 1..Len(line) : k \in 1..c <=> (line[k].v < sp.value \/ (me < sp.rank /\ line[k].v = sp.value))
    BY <1>4 DEF Below
  <2>2. K = (from + 1)..c
    <3>1. \A k \in (from + 1)..Len(line) : k \in 1..Len(line)
      BY <1>1
    <3>2. \A k \in K : k \in (from + 1)..c
      BY <2>1, <3>1
    <3>3. \A k \in (from + 1)..c : k \in (from + 1)..Len(line) /\ k \in 1..c
      BY <1>1
    <3>4. \A k \in (from + 1)..c : k \in K
      BY <2>1, <3>1, <3>3
    <3> HIDE DEF K
    <3> QED
      BY <3>2, <3>4
  <2>4. Cardinality((from + 1)..c) = c - from
    BY <1>1, BetweenIs
  <2>5. EndAt(line, from, me, sp) = from + Cardinality(K)
    BY <1>4 DEF EndAt
  <2> HIDE DEF K
  <2> QED
    BY <1>1, <2>2, <2>4, <2>5
<1> QED
  BY <1>3, <1>4

\* The cuts of n parts of a line: from its beginning to its end, in order.
CutsAre(n, line, F) == F \in [1..n -> 0..Len(line)] /\ F[n] = Len(line) /\ \A d \in 2..n : F[d - 1] <= F[d]

\* sp are the splitters of line s among the samples: populated, in order, and those of the rank me are elements
\* of its part of the line.
SplittersFit(n, s, me, line, samples, sp) ==
  /\ sp \in [1..(n - 1) -> Samples]
  /\ \A d \in 1..(n - 1) :
       /\ sp[d] = samples[(s - 1) * (n * n) + (d * Usable(samples, n * n)) \div n]
       /\ sp[d].segment = s /\ sp[d].rank # -1
       /\ sp[d].rank = me => sp[d].position \in 1..Len(line) /\ line[sp[d].position].v = sp[d].value
  /\ \A d, e \in 1..(n - 1) : d < e => ~Precedes(sp[e], sp[d])

\* F cuts behind what comes up to each splitter.
CutBelow(n, me, line, sp, F) == \A d \in 1..(n - 1) : Below(line, me, sp[d]) = 1..F[d]

LEMMA EndsAre ==
  ASSUME NEW r, NEW s, sort_rank(r) \in Nat, NEW n \in Nat \ {0}, NEW line \in Seq(Elements), InOrderOfValues(line),
         NEW samples, NEW sp, SplittersFit(n, s, sort_rank(r), line, samples, sp)
  PROVE  CutsAre(n, line, Ends(r, s, line, samples, n)) /\ CutBelow(n, sort_rank(r), line, sp, Ends(r, s, line, samples, n))
<1> DEFINE me == sort_rank(r)
           F == CHOOSE f : f = [d \in 1..n |->
                  IF d = n THEN Len(line)
                  ELSE EndAt(line, IF d = 1 THEN 0 ELSE f[d - 1], sort_rank(r),
                             samples[(s - 1) * (n * n) + (d * Usable(samples, n * n)) \div n])]
           e == [d \in 1..n |-> IF d = n THEN Len(line) ELSE CHOOSE c \in 0..Len(line) : Below(line, me, sp[d]) = 1..c]
<1>0. Len(line) \in Nat
  BY LenProperties
<1>f. /\ sp \in [1..(n - 1) -> Samples]
      /\ \A d \in 1..(n - 1) :
           /\ sp[d] = samples[(s - 1) * (n * n) + (d * Usable(samples, n * n)) \div n]
           /\ sp[d].segment = s /\ sp[d].rank # -1
           /\ sp[d].rank = me => sp[d].position \in 1..Len(line) /\ line[sp[d].position].v = sp[d].value
      /\ \A x, y \in 1..(n - 1) : x < y => ~Precedes(sp[y], sp[x])
  BY DEF SplittersFit
<1>1. ASSUME NEW d \in 1..(n - 1) PROVE e[d] \in 0..Len(line) /\ Below(line, me, sp[d]) = 1..e[d]
  <2>1. \E c \in 0..Len(line) : Below(line, me, sp[d]) = 1..c
    BY <1>f, BelowPrefix
  <2>2. d \in 1..n /\ d # n
    OBVIOUS
  <2> QED
    BY <2>1, <2>2
<1>2. e[n] = Len(line)
  OBVIOUS
<1>3. e \in [1..n -> 0..Len(line)]
  <2>1. e = [d \in 1..n |-> e[d]]
    OBVIOUS
  <2> HIDE DEF e
  <2>2. ASSUME NEW d \in 1..n PROVE e[d] \in 0..Len(line)
    <3>1. CASE d = n
      BY <1>0, <1>2, <3>1
    <3>2. CASE d # n
      <4>1. d \in 1..(n - 1)
        BY <3>2
      <4> QED
        BY <1>1, <4>1
    <3> QED
      BY <3>1, <3>2
  <2> QED
    BY <2>1, <2>2, Zenon
<1>3a. e = [d \in 1..n |-> e[d]]
  OBVIOUS
<1> HIDE DEF e
<1>4. ASSUME NEW d \in 2..n PROVE e[d - 1] <= e[d]
  <2>1. d - 1 \in 1..(n - 1) /\ e[d - 1] \in 0..Len(line)
    BY <1>1
  <2>2. CASE d = n
    BY <1>0, <1>2, <2>1, <2>2
  <2>3. CASE d # n
    <3>1. d \in 1..(n - 1) /\ d - 1 < d
      BY <2>3
    <3>2. Below(line, me, sp[d - 1]) \subseteq Below(line, me, sp[d])
      BY <1>f, <2>1, <3>1, BelowGrows
    <3>3. (1..e[d - 1]) \subseteq (1..e[d]) /\ e[d] \in 0..Len(line)
      BY <1>1, <2>1, <3>1, <3>2
    <3> QED
      BY <1>0, <2>1, <3>3
  <2> QED
    BY <2>2, <2>3
<1>5. ASSUME NEW d \in 1..n
      PROVE  e[d] = IF d = n THEN Len(line)
                    ELSE EndAt(line, IF d = 1 THEN 0 ELSE e[d - 1], sort_rank(r),
                               samples[(s - 1) * (n * n) + (d * Usable(samples, n * n)) \div n])
  <2>1. CASE d = n
    BY <1>2, <2>1
  <2>2. CASE d # n
    <3>1. d \in 1..(n - 1)
      BY <2>2
    <3>2. e[d] \in 0..Len(line) /\ Below(line, me, sp[d]) = 1..e[d]
      BY <1>1, <3>1
    <3>3. PICK from \in Nat : from = (IF d = 1 THEN 0 ELSE e[d - 1]) /\ from <= e[d]
      <4>1. CASE d = 1
        BY <1>0, <3>2, <4>1
      <4>2. CASE d # 1
        <5>1. d \in 2..n /\ d - 1 \in 1..n
          BY <4>2
        <5>2. e[d - 1] \in Nat /\ e[d - 1] <= e[d]
          BY <1>0, <1>3, <1>4, <5>1
        <5> QED
          BY <4>2, <5>2
      <4> QED
        BY <4>1, <4>2
    <3>4. EndAt(line, from, me, sp[d]) = e[d]
      BY <1>f, <3>1, <3>2, <3>3, EndAtIs
    <3>5. sp[d] = samples[(s - 1) * (n * n) + (d * Usable(samples, n * n)) \div n]
      BY <1>f, <3>1
    <3> QED
      BY <2>2, <3>3, <3>4, <3>5
  <2> QED
    BY <2>1, <2>2
<1>6. e = [d \in 1..n |-> IF d = n THEN Len(line)
                         ELSE EndAt(line, IF d = 1 THEN 0 ELSE e[d - 1], sort_rank(r),
                                    samples[(s - 1) * (n * n) + (d * Usable(samples, n * n)) \div n])]
  BY <1>3a, <1>5, Zenon
<1>7. F = [d \in 1..n |-> IF d = n THEN Len(line)
                         ELSE EndAt(line, IF d = 1 THEN 0 ELSE F[d - 1], sort_rank(r),
                                    samples[(s - 1) * (n * n) + (d * Usable(samples, n * n)) \div n])]
  BY <1>6, Zenon
<1>8. Ends(r, s, line, samples, n) = F
  BY DEF Ends
<1> HIDE DEF F
<1>9. F = e
  <2> DEFINE G == {d \in 0..n : d = 0 \/ F[d] = e[d]}
  <2>1. 0 \in G
    OBVIOUS
  <2>2. ASSUME NEW d \in 1..n, d - 1 \in G PROVE d \in G
    <3>1. (IF d = 1 THEN 0 ELSE F[d - 1]) = (IF d = 1 THEN 0 ELSE e[d - 1])
      BY <2>2
    <3>2. F[d] = IF d = n THEN Len(line)
                 ELSE EndAt(line, IF d = 1 THEN 0 ELSE F[d - 1], sort_rank(r),
                            samples[(s - 1) * (n * n) + (d * Usable(samples, n * n)) \div n])
      BY <1>7
    <3>3. F[d] = e[d]
      BY <1>5, <3>1, <3>2
    <3> QED
      BY <3>3
  <2>3. \A d \in 0..n : d \in G
    <3> HIDE DEF G
    <3> QED
      BY <2>1, <2>2, Induction
  <2>4. \A d \in 1..n : F[d] = e[d]
    BY <2>3
  <2>5. DOMAIN F = 1..n /\ DOMAIN e = 1..n /\ F = [d \in 1..n |-> F[d]] /\ e = [d \in 1..n |-> e[d]]
    BY <1>3, <1>7
  <2> QED
    BY <2>4, <2>5
<1>10. CutBelow(n, sort_rank(r), line, sp, e)
  BY <1>1 DEF CutBelow
<1> QED
  BY <1>2, <1>3, <1>4, <1>8, <1>9, <1>10 DEF CutsAre

---------------------------------------------------------------------------
(* The samples of all tasks *)

\* The numbers of m are a up to s, b there, and nothing behind it.
StepAt(m, s, a, b, f) == \A j \in 1..m : f[j] = IF j < s THEN a ELSE IF j = s THEN b ELSE 0

LEMMA SumTo ==
  ASSUME NEW m \in Nat, NEW s \in 1..(m + 1), NEW a \in Nat, NEW b \in Nat, NEW f \in Numbers(m), StepAt(m, s, a, b, f)
  PROVE  SumOf(f) = (s - 1) * a + (IF s <= m THEN b ELSE 0)
<1> DEFINE h == [j \in 0..m |-> IF j < s THEN j * a ELSE (s - 1) * a + b]
<1>1. s - 1 \in Nat /\ (s - 1) * a \in Nat
  OBVIOUS
<1>2. h[0] = 0
  BY <1>1
<1>3. ASSUME NEW j \in 1..m PROVE h[j] = h[j - 1] + f[j]
  <2>1. j \in 0..m /\ j - 1 \in 0..m /\ j - 1 \in Nat /\ (j - 1) + 1 = j
    OBVIOUS
  <2>2. (j - 1) * a \in Nat /\ j * a = (j - 1) * a + a
    BY <2>1, OneMore
  <2>3. /\ h[j] = IF j < s THEN j * a ELSE (s - 1) * a + b
        /\ h[j - 1] = IF j - 1 < s THEN (j - 1) * a ELSE (s - 1) * a + b
        /\ f[j] = IF j < s THEN a ELSE IF j = s THEN b ELSE 0
    BY <2>1 DEF StepAt
  <2> HIDE DEF h
  <2>4. CASE j < s
    BY <2>1, <2>2, <2>3, <2>4
  <2>5. CASE j = s
    <3>1. h[j] = (j - 1) * a + b /\ h[j - 1] = (j - 1) * a /\ f[j] = b
      BY <2>1, <2>3, <2>5
    <3> QED
      BY <3>1
  <2>6. CASE j > s
    BY <1>1, <2>1, <2>3, <2>6
  <2> QED
    BY <2>1, <2>4, <2>5, <2>6
<1>4. h[m] = (s - 1) * a + (IF s <= m THEN b ELSE 0)
  <2>1. CASE s <= m
    BY <1>1, <2>1
  <2>2. CASE s = m + 1
    <3>1. s - 1 = m
      BY <2>2
    <3>2. h[m] = m * a /\ ~(s <= m)
      BY <2>2
    <3> QED
      BY <1>1, <3>1, <3>2
  <2> QED
    BY <2>1, <2>2
<1> HIDE DEF h
<1>5. SumOf(f) = h[m]
  BY <1>1, <1>2, <1>3, SumEquals
<1> QED
  BY <1>4, <1>5

\* c[k][s]: the samples of line s from the k-th task.
SampleLines(m) == [1..m -> Seq(Samples)]
AllOf(n, c) == FlattenSeq([k \in 1..n |-> FlattenSeq(c[k])])
Sampled(n, m, c) == { e \in Samples : \E k \in 1..n, s \in 1..m, i \in 1..n : e = c[k][s][i] }

LEMMA AllSamples ==
  ASSUME NEW n \in Nat \ {0}, NEW m \in Nat, NEW c, \A k \in 1..n : c[k] \in SampleLines(m),
         \A k \in 1..n : \A s \in 1..m : Len(c[k][s]) = n
  PROVE  AllOf(n, c) \in Seq(Sampled(n, m, c))
<1> DEFINE X == Sampled(n, m, c)
           d == [k \in 1..n |-> FlattenSeq(c[k])]
<1>1. ASSUME NEW k \in 1..n, NEW s \in 1..m PROVE c[k][s] \in Seq(X)
  <2>0. c[k] \in SampleLines(m)
    OBVIOUS
  <2>1. c[k][s] \in Seq(Samples) /\ Len(c[k][s]) = n
    BY <2>0 DEF SampleLines
  <2>2. c[k][s] \in [1..n -> Samples]
    BY <2>1, LenProperties
  <2>3. c[k][s] \in [1..n -> X]
    BY <2>2 DEF Sampled
  <2> QED
    BY <2>3, NumbersAreSequences
<1>2. ASSUME NEW k \in 1..n PROVE FlattenSeq(c[k]) \in Seq(X)
  <2> HIDE DEF X
  <2>1. c[k] \in [1..m -> Seq(Samples)]
    BY DEF SampleLines
  <2>2. IsSequence(c[k]) /\ Len(c[k]) = m
    BY <2>1, NumbersAreSequences
  <2> QED
    BY <1>1, <2>2, FlattenType
<1>3. d \in [1..n -> Seq(X)]
  BY <1>2, Zenon
<1>4. AllOf(n, c) = FlattenSeq(d)
  BY DEF AllOf
<1> HIDE DEF d, X
<1>5. IsSequence(d) /\ Len(d) = n /\ \A k \in 1..n : d[k] \in Seq(X)
  BY <1>3, NumbersAreSequences
<1>6. FlattenSeq(d) \in Seq(X)
  BY <1>5, FlattenType
<1> QED
  BY <1>4, <1>6 DEF X

LEMMA AllCounted ==
  ASSUME NEW n \in Nat \ {0}, NEW m \in Nat, NEW c, \A k \in 1..n : c[k] \in SampleLines(m), NEW W,
         NEW f, \A k \in 1..n : f[k] \in Numbers(m) /\ CountsOf(m, c[k], W, f[k]), NEW g \in Numbers(n), SumsOf(n, f, g)
  PROVE  CountIn(AllOf(n, c), W) = SumOf(g)
<1> DEFINE d == [k \in 1..n |-> FlattenSeq(c[k])]
<1>1. ASSUME NEW k \in 1..n PROVE FlattenSeq(c[k]) \in Seq(Samples) /\ CountIn(FlattenSeq(c[k]), W) = g[k]
  <2> DEFINE x == c[k]
             y == f[k]
  <2>1. x \in [1..m -> Seq(Samples)] /\ y \in Numbers(m) /\ CountsOf(m, x, W, y)
    BY DEF SampleLines
  <2>2. g[k] = SumOf(y)
    BY DEF SumsOf
  <2> HIDE DEF x, y
  <2>3. IsSequence(x) /\ Len(x) = m /\ \A s \in 1..m : x[s] \in Seq(Samples)
    BY <2>1, NumbersAreSequences
  <2>4. FlattenSeq(x) \in Seq(Samples) /\ CountIn(FlattenSeq(x), W) = SumOf(y)
    BY <2>1, <2>3, FlattenCount
  <2> QED
    BY <2>2, <2>4 DEF x
<1>2. d = [k \in 1..n |-> d[k]] /\ (\A k \in 1..n : d[k] \in Seq(Samples)) /\ CountsOf(n, d, W, g)
  BY <1>1 DEF CountsOf
<1>3. AllOf(n, c) = FlattenSeq(d)
  BY DEF AllOf
<1> HIDE DEF d
<1>4. IsSequence(d) /\ Len(d) = n
  BY <1>2, FunctionIs
<1>5. CountIn(FlattenSeq(d), W) = SumOf(g)
  BY <1>2, <1>4, FlattenCount
<1> QED
  BY <1>3, <1>5

\* What is of a line before s; with the populated samples of s.
Before(s) == { e \in Samples : e.segment < s }
UpToLine(s) == { e \in Samples : e.segment < s \/ (e.segment = s /\ e.rank # -1) }
Populates == { e \in Samples : e.rank # -1 }

\* The n samples t are of line j.
OfLine(n, t, j) == t \in Seq(Samples) /\ Len(t) = n /\ \A i \in 1..n : t[i].segment = j

LEMMA LineBefore ==
  ASSUME NEW n \in Nat \ {0}, NEW j \in Nat, NEW t, OfLine(n, t, j), NEW s \in Nat
  PROVE  /\ j < s => CountIn(t, Before(s)) = n /\ CountIn(t, UpToLine(s)) = n
         /\ j = s => CountIn(t, Before(s)) = 0 /\ CountIn(t, UpToLine(s)) = CountIn(t, Populates)
         /\ j > s => CountIn(t, Before(s)) = 0 /\ CountIn(t, UpToLine(s)) = 0
<1>0. t \in Seq(Samples) /\ Len(t) = n /\ \A i \in 1..n : t[i].segment = j
  BY DEF OfLine
<1>1. DOMAIN t = 1..n /\ \A i \in 1..n : t[i] \in Samples
  BY <1>0, LenProperties, ElementOfSeq
<1>2. Cardinality(1..n) = n /\ Cardinality({}) = 0
  BY IntervalIs, FS_EmptySet
<1>3. \A i \in 1..n : /\ t[i] \in Before(s) <=> j < s
                      /\ t[i] \in UpToLine(s) <=> j < s \/ (j = s /\ t[i] \in Populates)
  BY <1>0, <1>1 DEF Before, UpToLine, Populates
<1>4. ASSUME j < s PROVE CountIn(t, Before(s)) = n /\ CountIn(t, UpToLine(s)) = n
  <2>1. { i \in DOMAIN t : t[i] \in Before(s) } = 1..n /\ { i \in DOMAIN t : t[i] \in UpToLine(s) } = 1..n
    BY <1>1, <1>3, <1>4
  <2> QED
    BY <1>2, <2>1 DEF CountIn
<1>5. ASSUME j = s PROVE CountIn(t, Before(s)) = 0 /\ CountIn(t, UpToLine(s)) = CountIn(t, Populates)
  <2>1. /\ { i \in DOMAIN t : t[i] \in Before(s) } = {}
        /\ { i \in DOMAIN t : t[i] \in UpToLine(s) } = { i \in DOMAIN t : t[i] \in Populates }
    BY <1>1, <1>3, <1>5
  <2> QED
    BY <1>2, <2>1 DEF CountIn
<1>6. ASSUME j > s PROVE CountIn(t, Before(s)) = 0 /\ CountIn(t, UpToLine(s)) = 0
  <2>1. { i \in DOMAIN t : t[i] \in Before(s) } = {} /\ { i \in DOMAIN t : t[i] \in UpToLine(s) } = {}
    BY <1>1, <1>3, <1>6
  <2> QED
    BY <1>2, <2>1 DEF CountIn
<1> QED
  BY <1>4, <1>5, <1>6

\* n tasks have n samples of each of m lines; u[k] of the k-th task's are populated.
SamplesAre(n, m, c, u) ==
  \A k \in 1..n :
    /\ c[k] \in SampleLines(m) /\ u[k] \in 1..n
    /\ \A j \in 1..m : OfLine(n, c[k][j], j) /\ CountIn(c[k][j], Populates) = u[k]

LEMMA SamplesBefore ==
  ASSUME NEW n \in Nat \ {0}, NEW m \in Nat, NEW c, NEW u \in Numbers(n), SamplesAre(n, m, c, u), NEW s \in 1..(m + 1)
  PROVE  /\ CountIn(AllOf(n, c), Before(s)) = (s - 1) * (n * n)
         /\ s <= m => CountIn(AllOf(n, c), UpToLine(s)) = (s - 1) * (n * n) + SumOf(u)
<1>0. /\ s \in Nat /\ s - 1 \in Nat /\ (s - 1) * n \in Nat /\ n * ((s - 1) * n) \in Nat
      /\ (s - 1) * (n * n) = n * ((s - 1) * n)
  OBVIOUS
<1> DEFINE F == [k \in 1..n |-> [j \in 1..m |-> IF j < s THEN n ELSE 0]]
           G == [k \in 1..n |-> [j \in 1..m |-> IF j < s THEN n ELSE IF j = s THEN u[k] ELSE 0]]
           f == [k \in 1..n |-> (s - 1) * n]
           g == [k \in 1..n |-> (s - 1) * n + u[k]]
<1>u. \A k \in 1..n : u[k] \in Nat
  BY DEF SamplesAre
<1>1. ASSUME NEW k \in 1..n, NEW j \in 1..m
      PROVE  CountIn(c[k][j], Before(s)) = F[k][j] /\ CountIn(c[k][j], UpToLine(s)) = G[k][j]
  <2> DEFINE t == c[k][j]
  <2>1. OfLine(n, t, j) /\ CountIn(t, Populates) = u[k]
    BY DEF SamplesAre
  <2>2. j \in Nat
    OBVIOUS
  <2> HIDE DEF t
  <2>3. /\ j < s => CountIn(t, Before(s)) = n /\ CountIn(t, UpToLine(s)) = n
        /\ j = s => CountIn(t, Before(s)) = 0 /\ CountIn(t, UpToLine(s)) = CountIn(t, Populates)
        /\ j > s => CountIn(t, Before(s)) = 0 /\ CountIn(t, UpToLine(s)) = 0
    BY <1>0, <2>1, <2>2, LineBefore
  <2>4. j < s \/ j = s \/ j > s
    BY <1>0, <2>2
  <2>5. F[k][j] = (IF j < s THEN n ELSE 0) /\ G[k][j] = (IF j < s THEN n ELSE IF j = s THEN u[k] ELSE 0)
    OBVIOUS
  <2> HIDE DEF F, G
  <2>6. CountIn(t, Before(s)) = F[k][j] /\ CountIn(t, UpToLine(s)) = G[k][j]
    BY <1>0, <2>1, <2>2, <2>3, <2>4, <2>5
  <2> QED
    BY <2>6 DEF t
<1>2. /\ \A k \in 1..n : F[k] \in Numbers(m) /\ CountsOf(m, c[k], Before(s), F[k])
      /\ \A k \in 1..n : G[k] \in Numbers(m) /\ CountsOf(m, c[k], UpToLine(s), G[k])
  <2>1. \A k \in 1..n : F[k] \in Numbers(m) /\ G[k] \in Numbers(m)
    BY <1>u DEF Numbers
  <2> HIDE DEF F, G
  <2> QED
    BY <1>1, <2>1 DEF CountsOf
<1>3. ASSUME NEW k \in 1..n PROVE StepAt(m, s, n, 0, F[k]) /\ StepAt(m, s, n, u[k], G[k])
  BY DEF StepAt
<1>4. /\ f \in Numbers(n) /\ g \in Numbers(n) /\ AllAre(n, f, (s - 1) * n) /\ Adds(n, f, u, g)
      /\ \A k \in 1..n : f[k] = (s - 1) * n /\ g[k] = (s - 1) * n + u[k]
  BY <1>0, <1>u DEF Numbers, AllAre, Adds
<1> HIDE DEF F, G, f, g
<1>5. SumsOf(n, F, f)
  <2>1. ASSUME NEW k \in 1..n PROVE f[k] = SumOf(F[k])
    <3>1. SumOf(F[k]) = (s - 1) * n + (IF s <= m THEN 0 ELSE 0)
      BY <1>2, <1>3, SumTo
    <3> QED
      BY <1>0, <1>4, <3>1
  <2> QED
    BY <2>1 DEF SumsOf
<1>6. s <= m => SumsOf(n, G, g)
  <2>1. ASSUME NEW k \in 1..n, s <= m PROVE g[k] = SumOf(G[k])
    <3>1. SumOf(G[k]) = (s - 1) * n + (IF s <= m THEN u[k] ELSE 0)
      BY <1>2, <1>3, <1>u, SumTo
    <3> QED
      BY <1>0, <1>4, <2>1, <3>1
  <2> QED
    BY <2>1 DEF SumsOf
<1>7. SumOf(f) = n * ((s - 1) * n)
  BY <1>0, <1>4, SumOfSame
<1>8. \A k \in 1..n : c[k] \in SampleLines(m)
  BY DEF SamplesAre
<1>9. CountIn(AllOf(n, c), Before(s)) = (s - 1) * (n * n)
  <2>1. CountIn(AllOf(n, c), Before(s)) = SumOf(f)
    BY <1>2, <1>4, <1>5, <1>8, AllCounted
  <2> QED
    BY <1>0, <1>7, <2>1
<1>10. ASSUME s <= m PROVE CountIn(AllOf(n, c), UpToLine(s)) = (s - 1) * (n * n) + SumOf(u)
  <2>1. CountIn(AllOf(n, c), UpToLine(s)) = SumOf(g)
    BY <1>2, <1>4, <1>6, <1>8, <1>10, AllCounted
  <2>2. SumOf(g) = SumOf(f) + SumOf(u)
    BY <1>4, SumOfSums
  <2> QED
    BY <1>0, <1>7, <2>1, <2>2
<1> QED
  BY <1>9, <1>10

---------------------------------------------------------------------------
(* The splitters *)

\* W holds what comes before the others in the order of samples.
ComesFirst(W) == W \subseteq Samples /\ \A a \in W, b \in Samples : ~Precedes(a, b) => b \in W

LEMMA BeforeComesFirst ==
  ASSUME NEW s \in Nat
  PROVE  ComesFirst(Before(s)) /\ ComesFirst(UpToLine(s))
BY DEF ComesFirst, Before, UpToLine, Precedes, Samples

LEMMA PrefixCount ==
  ASSUME NEW t, SamplesInOrder(t), NEW W, ComesFirst(W), NEW c, CountIn(t, W) = c
  PROVE  c \in 0..Len(t) /\ \A x \in 1..Len(t) : t[x] \in W <=> x <= c
<1> DEFINE D == { k \in DOMAIN t : t[k] \in W }
<1>1. Len(t) \in Nat /\ DOMAIN t = 1..Len(t) /\ \A x \in 1..Len(t) : t[x] \in Samples
  BY LenProperties, ElementOfSeq DEF SamplesInOrder
<1>2. D \subseteq 1..Len(t)
  BY <1>1
<1>3. ASSUME NEW k \in D, NEW j \in 1..k PROVE j \in D
  <2>1. CASE j = k
    BY <2>1
  <2>2. CASE j # k
    <3>1. k \in 1..Len(t) /\ t[k] \in W
      BY <1>1
    <3>2. j \in 1..Len(t) /\ j < k
      BY <1>1, <2>2, <3>1
    <3>3. ~Precedes(t[k], t[j])
      BY <3>1, <3>2 DEF SamplesInOrder
    <3>4. t[j] \in W
      BY <1>1, <3>1, <3>2, <3>3 DEF ComesFirst
    <3> QED
      BY <1>1, <3>2, <3>4
  <2> QED
    BY <2>1, <2>2
<1>4. \A x \in 1..Len(t) : x \in D <=> t[x] \in W
  BY <1>1
<1>5. Cardinality(D) = c
  BY DEF CountIn
<1> HIDE DEF D
<1>6. PICK b \in 0..Len(t) : D = 1..b
  BY <1>1, <1>2, <1>3, PrefixIs
<1>7. b = c
  <2>1. b \in Nat
    BY <1>1
  <2> QED
    BY <1>5, <1>6, <2>1, IntervalIs
<1> QED
  BY <1>1, <1>4, <1>6, <1>7

\* Line s of the sorted samples t of m lines, p to a line, u of them populated.
LineIs(t, m, p, u) ==
  \A s \in 1..m : \A x \in 1..p :
    /\ (s - 1) * p + x \in 1..Len(t)
    /\ t[(s - 1) * p + x].segment = s
    /\ t[(s - 1) * p + x].rank # -1 <=> x <= u

LEMMA LinesSorted ==
  ASSUME NEW n \in Nat \ {0}, NEW m \in Nat, NEW c, NEW u \in Numbers(n), SamplesAre(n, m, c, u),
         NEW t, SamplesInOrder(t), SameCounts(AllOf(n, c), t)
  PROVE  LineIs(t, m, n * n, SumOf(u)) /\ SumOf(u) \in Nat /\ n <= SumOf(u) /\ (m > 0 => SumOf(u) <= n * n)
<1> DEFINE p == n * n
           U == SumOf(u)
<1>1. p \in Nat \ {0} /\ n <= p
  OBVIOUS
<1>2. U \in Nat /\ n <= U
  <2>1. u \in [1..n -> Nat \ {0}]
    BY DEF SamplesAre, Numbers
  <2> QED
    BY <2>1, SumAtLeast
<1>3. ASSUME NEW s \in 1..(m + 1)
      PROVE  (s - 1) * p \in 0..Len(t) /\ \A x \in 1..Len(t) : t[x] \in Before(s) <=> x <= (s - 1) * p
  <2>1. CountIn(t, Before(s)) = (s - 1) * p
    BY SamplesBefore DEF SameCounts
  <2>2. ComesFirst(Before(s))
    BY BeforeComesFirst
  <2> HIDE DEF p
  <2> QED
    BY <2>1, <2>2, PrefixCount
<1>4. ASSUME NEW s \in 1..m
      PROVE  (s - 1) * p + U \in 0..Len(t) /\ \A x \in 1..Len(t) : t[x] \in UpToLine(s) <=> x <= (s - 1) * p + U
  <2>0. s \in 1..(m + 1) /\ s <= m /\ s \in Nat
    OBVIOUS
  <2>1. CountIn(t, UpToLine(s)) = (s - 1) * p + U
    BY <2>0, SamplesBefore DEF SameCounts
  <2>2. ComesFirst(UpToLine(s))
    BY <2>0, BeforeComesFirst
  <2> HIDE DEF p, U
  <2> QED
    BY <2>1, <2>2, PrefixCount
<1>5. Len(t) \in Nat /\ \A x \in 1..Len(t) : t[x] \in Samples
  BY LenProperties, ElementOfSeq DEF SamplesInOrder
<1> HIDE DEF p, U
<1>6. ASSUME NEW s \in 1..m
      PROVE  /\ s \in 1..(m + 1) /\ s + 1 \in 1..(m + 1) /\ s - 1 \in Nat
             /\ (s - 1) * p \in Nat /\ (s + 1 - 1) * p = (s - 1) * p + p
  <2>1. s \in 1..(m + 1) /\ s + 1 \in 1..(m + 1) /\ s - 1 \in Nat /\ s + 1 - 1 = s - 1 + 1
    OBVIOUS
  <2> QED
    BY <1>1, <2>1, OneMore
<1>7. LineIs(t, m, p, U)
  <2> SUFFICES ASSUME NEW s \in 1..m, NEW x \in 1..p
               PROVE  LET y == (s - 1) * p + x IN y \in 1..Len(t) /\ t[y].segment = s /\ (t[y].rank # -1 <=> x <= U)
    BY DEF LineIs
  <2> DEFINE b == (s - 1) * p
             y == b + x
  <2> HIDE DEF y
  <2>1. b \in Nat /\ (s + 1 - 1) * p = b + p
    BY <1>6
  <2>1a. b + p \in 0..Len(t) /\ \A z \in 1..Len(t) : t[z] \in Before(s + 1) <=> z <= b + p
    <3>1. PICK w \in 1..(m + 1) : w = s + 1
      OBVIOUS
    <3>2. (w - 1) * p \in 0..Len(t) /\ \A z \in 1..Len(t) : t[z] \in Before(w) <=> z <= (w - 1) * p
      BY <1>3
    <3>3. (w - 1) * p = b + p
      BY <2>1, <3>1
    <3> QED
      BY <3>1, <3>2, <3>3
  <2>1b. \A z \in 1..Len(t) : t[z] \in Before(s) <=> z <= b
    BY <1>3, <1>6
  <2>1c. \A z \in 1..Len(t) : t[z] \in UpToLine(s) <=> z <= b + U
    BY <1>4
  <2> HIDE DEF b
  <2>2. y \in 1..Len(t)
    BY <1>1, <1>5, <2>1, <2>1a DEF y
  <2>3. t[y] \in Before(s + 1) /\ t[y] \notin Before(s) /\ (t[y] \in UpToLine(s) <=> x <= U)
    <3>1. y <= b + p /\ ~(y <= b) /\ (y <= b + U <=> x <= U)
      BY <1>1, <1>2, <2>1 DEF y
    <3> QED
      BY <2>1a, <2>1b, <2>1c, <2>2, <3>1
  <2>4. t[y] \in Samples
    BY <1>5, <2>2
  <2>5. t[y].segment = s /\ (t[y].rank # -1 <=> x <= U)
    BY <2>3, <2>4 DEF Before, UpToLine, Samples
  <2> QED
    BY <2>2, <2>5 DEF y, b
<1>8. ASSUME m > 0 PROVE U <= p
  <2>1. 1 \in 1..m /\ 1 \in 1..(m + 1) /\ 1 + 1 \in 1..(m + 1)
    BY <1>8
  <2>2. (1 - 1) * p = 0 /\ (1 + 1 - 1) * p = p
    BY <1>1
  <2>3. U \in 1..Len(t)
    <3>1. (1 - 1) * p + U \in 0..Len(t)
      BY <1>4, <2>1
    <3> QED
      BY <1>2, <1>5, <2>2, <3>1
  <2>4. t[U] \in UpToLine(1)
    <3>1. \A x \in 1..Len(t) : t[x] \in UpToLine(1) <=> x <= (1 - 1) * p + U
      BY <1>4, <2>1
    <3> QED
      BY <1>2, <2>2, <2>3, <3>1
  <2>5. t[U] \in Before(1 + 1)
    BY <2>4 DEF UpToLine, Before, Samples
  <2>6. \A x \in 1..Len(t) : t[x] \in Before(1 + 1) <=> x <= (1 + 1 - 1) * p
    BY <1>3, <2>1
  <2> QED
    BY <2>2, <2>3, <2>5, <2>6
<1> QED
  BY <1>2, <1>7, <1>8 DEF p, U

LEMMA UsableIs ==
  ASSUME NEW t, NEW m \in Nat \ {0}, NEW p \in Nat, NEW u \in 0..p, LineIs(t, m, p, u)
  PROVE  Usable(t, p) = u
<1>1. 1 \in 1..m /\ (1 - 1) * p = 0 /\ \A x \in 1..p : 0 + x = x
  OBVIOUS
<1>2. \A x \in 1..p : t[x].rank # -1 <=> x <= u
  <2>1. \A x \in 1..p : t[(1 - 1) * p + x].rank # -1 <=> x <= u
    BY <1>1 DEF LineIs
  <2> QED
    BY <1>1, <2>1
<1>3. { k \in 1..p : t[k].rank # -1 } = 1..u
  BY <1>2
<1>4. u \in Nat
  OBVIOUS
<1>5. Cardinality(1..u) = u
  BY <1>4, IntervalIs
<1> QED
  BY <1>3, <1>5 DEF Usable

LEMMA Quotient ==
  ASSUME NEW n \in Nat \ {0}, NEW k \in Nat
  PROVE  /\ k \div n \in Nat
         /\ \A g \in Nat : g * n <= k => g <= k \div n
         /\ \A g \in Nat : k < g * n => k \div n < g
<1>1. PICK g \in Nat, j \in 0..(n - 1) : k = g * n + j
  BY Divide
<1>2. k \div n = g
  BY <1>1, DivideIs
<1>3. ASSUME NEW h \in Nat, h * n <= k PROVE h <= g
  <2> SUFFICES ASSUME h > g PROVE FALSE
    OBVIOUS
  <2>1. PICK i \in Nat : h = g + 1 + i
    <3>1. h - g - 1 \in Nat /\ h = g + 1 + (h - g - 1)
      OBVIOUS
    <3> QED
      BY <3>1
  <2>2. h * n = g * n + n + i * n /\ i * n \in Nat /\ g * n \in Nat
    BY <2>1
  <2> QED
    BY <1>1, <1>3, <2>2
<1>4. ASSUME NEW h \in Nat, k < h * n PROVE g < h
  <2> SUFFICES ASSUME h <= g PROVE FALSE
    OBVIOUS
  <2>1. PICK i \in Nat : g = h + i
    <3>1. g - h \in Nat /\ g = h + (g - h)
      OBVIOUS
    <3> QED
      BY <3>1
  <2>2. g * n = h * n + i * n /\ i * n \in Nat /\ h * n \in Nat
    BY <2>1
  <2> QED
    BY <1>1, <1>4, <2>2
<1> QED
  BY <1>2, <1>3, <1>4

\* Splitters are usable samples, in order.
LEMMA SplitterPlace ==
  ASSUME NEW n \in Nat \ {0}, NEW U \in Nat, n <= U, NEW d \in 1..n
  PROVE  /\ (d * U) \div n \in 1..U
         /\ \A e \in 1..n : d < e => (d * U) \div n <= (e * U) \div n
<1>1. d * U \in Nat /\ d * n \in Nat /\ d * n <= d * U
  OBVIOUS
<1>2. (d * U) \div n \in Nat /\ 1 <= (d * U) \div n
  <2>1. 1 * n <= d * U
    <3>1. 1 * n <= d * n
      OBVIOUS
    <3> QED
      BY <1>1, <3>1
  <2> QED
    BY <1>1, <2>1, Quotient
<1>3. (d * U) \div n <= U
  <2>1. d * U <= n * U
    OBVIOUS
  <2>2. U + 1 \in Nat /\ (U + 1) * n = n * U + n /\ n * U \in Nat
    OBVIOUS
  <2>3. d * U < (U + 1) * n
    BY <1>1, <2>1, <2>2
  <2> QED
    BY <1>1, <1>2, <2>2, <2>3, Quotient
<1>4. ASSUME NEW e \in 1..n, d < e PROVE (d * U) \div n <= (e * U) \div n
  <2>1. e * U \in Nat /\ d * U <= e * U
    BY <1>4
  <2>2. ((d * U) \div n) * n <= d * U
    <3>1. PICK g \in Nat, j \in 0..(n - 1) : d * U = g * n + j
      BY <1>1, Divide
    <3>2. (d * U) \div n = g /\ g * n \in Nat
      BY <3>1, DivideIs
    <3> QED
      BY <3>1, <3>2
  <2>3. ((d * U) \div n) * n <= e * U
    <3>1. ((d * U) \div n) * n \in Nat
      BY <1>2
    <3> QED
      BY <1>1, <2>1, <2>2, <3>1
  <2> QED
    BY <1>2, <2>1, <2>3, Quotient
<1> QED
  BY <1>2, <1>3, <1>4

\* Task k of the n has the samples c[k][s] of its part of line s, and none that it does not know: those of r's
\* rank are elements of its line.
Knows(n, c, s, me, line) ==
  \A k \in 1..n, i \in 1..n :
    c[k][s][i].rank = me => c[k][s][i].position \in 1..Len(line) /\ line[c[k][s][i].position].v = c[k][s][i].value

\* The splitters of line s.
SplittersOf(t, s, p, u, n) == [d \in 1..(n - 1) |-> t[(s - 1) * p + (d * u) \div n]]

LEMMA SplittersAre ==
  ASSUME NEW n \in Nat \ {0}, NEW m \in Nat, NEW t, SamplesInOrder(t), NEW u \in n..(n * n), LineIs(t, m, n * n, u),
         NEW s \in 1..m
  PROVE  /\ SplittersOf(t, s, n * n, u, n) \in [1..(n - 1) -> Samples]
         /\ \A d \in 1..(n - 1) :
              /\ SplittersOf(t, s, n * n, u, n)[d].segment = s /\ SplittersOf(t, s, n * n, u, n)[d].rank # -1
              /\ \E y \in 1..Len(t) : SplittersOf(t, s, n * n, u, n)[d] = t[y]
         /\ \A d, e \in 1..(n - 1) : d < e =>
              ~Precedes(SplittersOf(t, s, n * n, u, n)[e], SplittersOf(t, s, n * n, u, n)[d])
<1> DEFINE p == n * n
           b == (s - 1) * p
           at(d) == (d * u) \div n
           sp == SplittersOf(t, s, p, u, n)
<1>1. p \in Nat /\ u \in Nat /\ n <= u /\ u <= p /\ b \in Nat
  OBVIOUS
<1>2. ASSUME NEW d \in 1..(n - 1) PROVE at(d) \in 1..u /\ \A e \in 1..(n - 1) : d < e => at(d) <= at(e)
  <2>1. d \in 1..n /\ \A e \in 1..(n - 1) : e \in 1..n
    OBVIOUS
  <2> QED
    BY <1>1, <2>1, SplitterPlace
<1>3. \A d \in 1..(n - 1) : sp[d] = t[b + at(d)]
  BY DEF SplittersOf
<1>3a. sp = [d \in 1..(n - 1) |-> sp[d]]
  BY DEF SplittersOf
<1> HIDE DEF p, at, sp
<1>4. ASSUME NEW d \in 1..(n - 1)
      PROVE  b + at(d) \in 1..Len(t) /\ sp[d] \in Samples /\ sp[d].segment = s /\ sp[d].rank # -1
  <2>1. at(d) \in 1..p /\ at(d) <= u
    BY <1>1, <1>2
  <2>2. b + at(d) \in 1..Len(t) /\ t[b + at(d)].segment = s /\ t[b + at(d)].rank # -1
    BY <2>1 DEF LineIs, p
  <2> HIDE DEF b
  <2> QED
    BY <1>3, <2>2, ElementOfSeq DEF SamplesInOrder
<1> HIDE DEF b
<1>5. ASSUME NEW d \in 1..(n - 1), NEW e \in 1..(n - 1), d < e PROVE ~Precedes(sp[e], sp[d])
  <2>1. at(d) <= at(e) /\ at(d) \in Int /\ at(e) \in Int
    BY <1>2, <1>5
  <2>2. CASE at(d) = at(e)
    BY <1>3, <1>4, <2>2, PrecedesIsOrder
  <2>3. CASE at(d) # at(e)
    <3>1. b + at(d) < b + at(e)
      BY <1>1, <2>1, <2>3
    <3> QED
      BY <1>3, <1>4, <3>1 DEF SamplesInOrder
  <2> QED
    BY <2>2, <2>3
<1> QED
  BY <1>3, <1>3a, <1>4, <1>5 DEF sp, p

\* The splitters of line s, from the samples c of n tasks.
Splitters(n, t, s) == SplittersOf(t, s, n * n, Usable(t, n * n), n)
Cutters(n, c, s) == Splitters(n, Arranged(AllOf(n, c)), s)
\* A line of a task is cut at F, at these splitters.
CutAt(n, c, s, me, line, F) ==
  CutsAre(n, line, F) /\ CutBelow(n, me, line, Cutters(n, c, s), F) /\ Cutters(n, c, s) \in [1..(n - 1) -> Samples]

\* With the sorted samples of n tasks, each line of a task is cut in order.
LEMMA LineCut ==
  ASSUME NEW n \in Nat \ {0}, NEW m \in Nat, NEW c, NEW u \in Numbers(n), SamplesAre(n, m, c, u), NEW s \in 1..m,
         NEW line \in Seq(Elements), InOrderOfValues(line), NEW r, sort_rank(r) \in Nat, Knows(n, c, s, sort_rank(r), line)
  PROVE  CutAt(n, c, s, sort_rank(r), line, Ends(r, s, line, Arranged(AllOf(n, c)), n))
<1> DEFINE a == AllOf(n, c)
           t == Arranged(a)
           U == SumOf(u)
           sp == SplittersOf(t, s, n * n, U, n)
           me == sort_rank(r)
<1>1. a \in Seq(Sampled(n, m, c)) /\ a \in Seq(Samples)
  <2>1. a \in Seq(Sampled(n, m, c))
    BY AllSamples DEF SamplesAre, OfLine
  <2>2. Sampled(n, m, c) \subseteq Samples
    BY DEF Sampled
  <2> QED
    BY <2>1, <2>2, SeqMonotonic
<1>1a. t = Arranged(a)
  OBVIOUS
<1> HIDE DEF a, t
<1>2. SamplesInOrder(t) /\ SameCounts(a, t) /\ ComeFrom(a, t)
  BY <1>1, <1>1a, SamplesSorted
<1>3. LineIs(t, m, n * n, U) /\ U \in n..(n * n)
  <2>1. SameCounts(AllOf(n, c), t)
    BY <1>2 DEF a
  <2>2. LineIs(t, m, n * n, U) /\ U \in Nat /\ n <= U /\ U <= n * n
    BY <1>2, <2>1, LinesSorted
  <2> QED
    BY <2>2
<1> HIDE DEF U
<1>4. Usable(t, n * n) = U
  <2>1. m \in Nat \ {0} /\ n * n \in Nat /\ U \in 0..(n * n)
    BY <1>3
  <2> QED
    BY <1>3, <2>1, UsableIs
<1>5. /\ sp \in [1..(n - 1) -> Samples]
      /\ \A d \in 1..(n - 1) : sp[d].segment = s /\ sp[d].rank # -1 /\ \E y \in 1..Len(t) : sp[d] = t[y]
      /\ \A d, e \in 1..(n - 1) : d < e => ~Precedes(sp[e], sp[d])
  BY <1>2, <1>3, SplittersAre
<1>6. \A d \in 1..(n - 1) : sp[d] = t[(s - 1) * (n * n) + (d * Usable(t, n * n)) \div n]
  BY <1>4 DEF SplittersOf
<1>6a. sp = Splitters(n, t, s)
  BY <1>4 DEF Splitters
<1> HIDE DEF sp
<1>7. ASSUME NEW d \in 1..(n - 1), sp[d].rank = me PROVE sp[d].position \in 1..Len(line) /\ line[sp[d].position].v = sp[d].value
  <2>1. PICK k \in 1..Len(a) : sp[d] = a[k]
    BY <1>2, <1>5, ZenonT(40) DEF ComeFrom
  <2>2. sp[d] \in Sampled(n, m, c)
    BY <1>1, <2>1, ElementOfSeq
  <2>3. PICK k2 \in 1..n, s2 \in 1..m, i \in 1..n : sp[d] = c[k2][s2][i]
    BY <2>2 DEF Sampled
  <2>4. c[k2][s2][i].segment = s2
    BY DEF SamplesAre, OfLine
  <2>5. s2 = s
    BY <1>5, <2>3, <2>4
  <2>6. sp[d] = c[k2][s][i]
    BY <2>3, <2>5
  <2> HIDE DEF me
  <2> QED
    BY <1>7, <2>6 DEF Knows, me
<1>8. SplittersFit(n, s, me, line, t, sp)
  <2> HIDE DEF me
  <2> QED
    BY <1>5, <1>6, <1>7 DEF SplittersFit
<1>9. CutsAre(n, line, Ends(r, s, line, t, n)) /\ CutBelow(n, me, line, sp, Ends(r, s, line, t, n))
  BY <1>8, EndsAre
<1>10. sp = Cutters(n, c, s)
  BY <1>6a DEF Cutters, t, a
<1>11. CutAt(n, c, s, me, line, Ends(r, s, line, t, n))
  BY <1>5, <1>9, <1>10 DEF CutAt
<1> QED
  BY <1>11 DEF t, a, me

\* The samples of a line that has elements.
PopulatedOf(n, line) == IF n < Len(line) THEN n ELSE Len(line)
\* The populated ones among the n samples t are of the rank me, and are elements of its line.
Remembers(n, me, line, t) ==
  \A i \in 1..n : /\ t[i].rank \in {-1, me}
                  /\ t[i].rank # -1 => t[i].position \in 1..Len(line) /\ line[t[i].position].v = t[i].value

LEMMA LineSampled ==
  ASSUME NEW r, NEW s \in Nat, sort_rank(r) \in Nat, NEW n \in Nat \ {0}, NEW line \in Seq(Elements), Len(line) > 0,
         NEW t, t = SamplesOf(r, s, line, n)
  PROVE  OfLine(n, t, s) /\ CountIn(t, Populates) = PopulatedOf(n, line) /\ Remembers(n, sort_rank(r), line, t)
<1> DEFINE l == Len(line)
           me == sort_rank(r)
<1>1. l \in Nat \ {0} /\ \A k \in 1..l : line[k] \in Elements
  BY LenProperties, ElementOfSeq
<1>1a. \A k \in 1..l : line[k].v \in Int
  BY <1>1 DEF Elements
<1>2. t = [k \in 1..n |-> t[k]]
  BY DEF SamplesOf
<1>3. Len(t) = n /\ DOMAIN t = 1..n
  BY <1>2, FunctionIs
<1>4. CASE n < l
  <2>1. ASSUME NEW k \in 1..n PROVE (k * l) \div n \in 1..l
    BY <1>1, <1>4, SplitterPlace
  <2>2. \A k \in 1..n : t[k] = [segment |-> s, rank |-> me, value |-> line[(k * l) \div n].v, position |-> (k * l) \div n]
    BY <1>4 DEF SamplesOf
  <2>3. ASSUME NEW k \in 1..n
        PROVE  t[k] \in Samples /\ t[k].segment = s /\ t[k].rank = me /\ t[k].position \in 1..l /\ line[t[k].position].v = t[k].value
    <3>1. PICK at \in 1..l : at = (k * l) \div n
      BY <2>1
    <3>2. t[k] = [segment |-> s, rank |-> me, value |-> line[at].v, position |-> at]
      BY <2>2, <3>1
    <3>3. line[at].v \in Int /\ me \in Nat /\ at \in Int
      BY <1>1a
    <3> HIDE DEF me
    <3> QED
      BY <3>1, <3>2, <3>3 DEF Samples
  <2>4. t \in [1..n -> Samples]
    BY <1>2, <2>3
  <2>5. { k \in DOMAIN t : t[k] \in Populates } = 1..n
    BY <1>3, <2>3 DEF Populates
  <2>6. CountIn(t, Populates) = n
    BY <2>5, IntervalIs DEF CountIn
  <2> QED
    BY <1>3, <1>4, <2>3, <2>4, <2>6, SeqDef DEF OfLine, PopulatedOf, Remembers
<1>5. CASE ~(n < l)
  <2>2. \A k \in 1..n : t[k] = IF k <= l THEN [segment |-> s, rank |-> me, value |-> line[k].v, position |-> k]
                               ELSE [segment |-> s, rank |-> -1, value |-> 0, position |-> 0]
    BY <1>5 DEF SamplesOf
  <2>3. ASSUME NEW k \in 1..n
        PROVE  /\ t[k] \in Samples /\ t[k].segment = s /\ t[k].rank = (IF k <= l THEN me ELSE -1)
               /\ k <= l => t[k].position \in 1..l /\ line[t[k].position].v = t[k].value
    <3>1. me \in Nat /\ (k <= l => k \in 1..l /\ line[k].v \in Int)
      BY <1>1, <1>1a
    <3>2. CASE k <= l
      <4>1. t[k] = [segment |-> s, rank |-> me, value |-> line[k].v, position |-> k]
        BY <2>2, <3>2
      <4> HIDE DEF me
      <4> QED
        BY <3>1, <3>2, <4>1 DEF Samples
    <3>3. CASE ~(k <= l)
      <4>1. t[k] = [segment |-> s, rank |-> -1, value |-> 0, position |-> 0]
        BY <2>2, <3>3
      <4> HIDE DEF me
      <4> QED
        BY <3>3, <4>1 DEF Samples
    <3> QED
      BY <3>2, <3>3
  <2>4. t \in [1..n -> Samples]
    BY <1>2, <2>3
  <2>5. { k \in DOMAIN t : t[k] \in Populates } = 1..l
    BY <1>1, <1>3, <1>5, <2>3 DEF Populates
  <2>6. CountIn(t, Populates) = l
    BY <1>1, <2>5, IntervalIs DEF CountIn
  <2> QED
    BY <1>3, <1>5, <2>3, <2>4, <2>6, SeqDef DEF OfLine, PopulatedOf, Remembers
<1> QED
  BY <1>4, <1>5

---------------------------------------------------------------------------
(* The cuts of a task *)

\* The n parts of a line that end at F.
PartOf(line, F, d) == SubSeq(line, IF d = 1 THEN 1 ELSE F[d - 1] + 1, F[d])

PartsFill(n, line, F, size) ==
  /\ \A d \in 1..n : PartOf(line, F, d) \in Seq(Elements)
  /\ \A l \in Numbers(n) : (\A d \in 1..n : l[d] = Len(PartOf(line, F, d))) => SumOf(l) = size

LEMMA PartsOfLine ==
  ASSUME NEW n \in Nat \ {0}, NEW line \in Seq(Elements), NEW F, CutsAre(n, line, F)
  PROVE  PartsFill(n, line, F, Len(line))
<1>0. /\ Len(line) \in Nat /\ F[n] = Len(line)
      /\ \A d \in 1..n : F[d] \in 0..Len(line)
      /\ \A d \in 2..n : F[d - 1] <= F[d]
  BY LenProperties DEF CutsAre
<1> DEFINE h == [d \in 0..n |-> IF d = 0 THEN 0 ELSE F[d]]
<1>1. /\ h[0] = 0 /\ h[n] = Len(line)
      /\ \A d \in 1..n : h[d] = F[d] /\ h[d] \in 0..Len(line) /\ h[d - 1] \in 0..Len(line) /\ h[d - 1] <= h[d]
                         /\ h[d - 1] = IF d = 1 THEN 0 ELSE F[d - 1]
  <2>1. h[0] = 0 /\ h[n] = Len(line)
    BY <1>0
  <2>2. ASSUME NEW d \in 1..n
        PROVE  h[d] = F[d] /\ h[d] \in 0..Len(line) /\ h[d - 1] \in 0..Len(line) /\ h[d - 1] <= h[d]
               /\ h[d - 1] = IF d = 1 THEN 0 ELSE F[d - 1]
    <3>1. h[d] = F[d] /\ h[d] \in 0..Len(line)
      BY <1>0
    <3>2. CASE d = 1
      BY <1>0, <3>1, <3>2
    <3>3. CASE d # 1
      <4>1. d \in 2..n /\ d - 1 \in 1..n /\ d - 1 \in 0..n /\ d - 1 # 0
        BY <3>3
      <4>2. h[d - 1] = F[d - 1]
        BY <4>1
      <4> QED
        BY <1>0, <3>1, <3>3, <4>1, <4>2
    <3> QED
      BY <3>2, <3>3
  <2> HIDE DEF h
  <2> QED
    BY <2>1, <2>2
<1> HIDE DEF h
<1>2. ASSUME NEW d \in 1..n PROVE PartOf(line, F, d) \in Seq(Elements) /\ Len(PartOf(line, F, d)) = h[d] - h[d - 1]
  <2>1. PICK a \in 1..(Len(line) + 1), b \in 0..Len(line) : a = h[d - 1] + 1 /\ b = h[d] /\ a <= b + 1
    <3>1. h[d] \in 0..Len(line) /\ h[d - 1] \in 0..Len(line) /\ h[d - 1] <= h[d]
      BY <1>1
    <3>2. h[d - 1] + 1 \in 1..(Len(line) + 1) /\ h[d - 1] + 1 <= h[d] + 1
      BY <1>0, <3>1
    <3> QED
      BY <3>1, <3>2
  <2>2. PartOf(line, F, d) = SubSeq(line, a, b)
    <3>1. (IF d = 1 THEN 1 ELSE F[d - 1] + 1) = a /\ F[d] = b
      BY <1>1, <2>1
    <3> QED
      BY <3>1 DEF PartOf
  <2>3. SubSeq(line, a, b) \in Seq(Elements) /\ Len(SubSeq(line, a, b)) = b - a + 1
    <3>1. CASE a <= b
      BY <1>0, <3>1, SubSeqProperties
    <3>2. CASE ~(a <= b)
      <4>1. a = b + 1
        BY <1>0, <2>1, <3>2
      <4>2. SubSeq(line, a, b) = << >>
        BY <1>0, <4>1, SubSeqEmpty
      <4> QED
        BY <1>0, <4>1, <4>2, EmptySeq
    <3> QED
      BY <3>1, <3>2
  <2>4. h[d - 1] \in Int /\ h[d] \in Int
    BY <1>1
  <2>5. b - a + 1 = h[d] - h[d - 1]
    BY <2>1, <2>4, SMTT(30)
  <2> QED
    BY <2>2, <2>3, <2>5
<1>3. ASSUME NEW l \in Numbers(n), \A d \in 1..n : l[d] = Len(PartOf(line, F, d)) PROVE SumOf(l) = Len(line)
  <2>1. \A d \in 1..n : h[d] = h[d - 1] + l[d]
    BY <1>0, <1>1, <1>2, <1>3, SMTT(30)
  <2>2. SumOf(l) = h[n]
    BY <1>1, <2>1, SumEquals
  <2> QED
    BY <1>1, <2>2
<1> QED
  BY <1>2, <1>3 DEF PartsFill

\* n parts of m lines of a size each take the lines apart.
Lengths(n, part, s) == [d \in 1..n |-> Len(part[d][s])]
TakenApart(n, m, size, part) ==
  /\ part \in [1..n -> [1..m -> Seq(Elements)]]
  /\ \A s \in 1..m : SumOf(Lengths(n, part, s)) = size
\* A task's m lines of a size, in order.
SortedLines(m, size, lines) ==
  /\ lines \in [1..m -> Seq(Elements)]
  /\ \A s \in 1..m : InOrderOfValues(lines[s]) /\ Len(lines[s]) = size

LEMMA LengthsAre ==
  ASSUME NEW n \in Nat, NEW m \in Nat, NEW part \in [1..n -> [1..m -> Seq(Elements)]], NEW s \in 1..m
  PROVE  Lengths(n, part, s) \in Numbers(n) /\ \A d \in 1..n : Lengths(n, part, s)[d] \in Nat
<1>1. \A d \in 1..n : part[d][s] \in Seq(Elements)
  OBVIOUS
<1>2. \A d \in 1..n : Len(part[d][s]) \in Nat
  BY <1>1, LenProperties
<1> QED
  BY <1>2 DEF Lengths, Numbers

LinesCut(n, m, lines, ends) == \A s \in 1..m : CutsAre(n, lines[s], ends[s])
PartsOfLines(n, m, lines, ends) == [d \in 1..n |-> [s \in 1..m |-> PartOf(lines[s], ends[s], d)]]

\* part are m lines, cut at the splitters from the samples c.
CutRight(n, m, me, c, lines, part) ==
  \E F : part = PartsOfLines(n, m, lines, F) /\ \A s \in 1..m : CutAt(n, c, s, me, lines[s], F[s])

LEMMA LinesTakenApart ==
  ASSUME NEW n \in Nat \ {0}, NEW m \in Nat, NEW size \in Nat, NEW lines, SortedLines(m, size, lines),
         NEW ends, LinesCut(n, m, lines, ends), NEW part, part = PartsOfLines(n, m, lines, ends)
  PROVE  TakenApart(n, m, size, part)
<1>1. ASSUME NEW s \in 1..m
      PROVE  /\ lines[s] \in Seq(Elements) /\ Len(lines[s]) = size
             /\ \A d \in 1..n : PartOf(lines[s], ends[s], d) \in Seq(Elements)
             /\ \A l \in Numbers(n) : (\A d \in 1..n : l[d] = Len(PartOf(lines[s], ends[s], d))) => SumOf(l) = size
  <2>1. lines[s] \in Seq(Elements) /\ Len(lines[s]) = size
    BY DEF SortedLines
  <2>2. PartsFill(n, lines[s], ends[s], size)
    BY <2>1, PartsOfLine DEF LinesCut
  <2> QED
    BY <2>1, <2>2 DEF PartsFill
<1>2. part \in [1..n -> [1..m -> Seq(Elements)]]
  BY <1>1 DEF PartsOfLines
<1>3. \A d \in 1..n, s \in 1..m : part[d][s] = PartOf(lines[s], ends[s], d)
  BY DEF PartsOfLines
<1>4. ASSUME NEW s \in 1..m PROVE SumOf(Lengths(n, part, s)) = size
  <2>1. Lengths(n, part, s) \in Numbers(n)
    BY <1>2, LengthsAre
  <2>2. \A d \in 1..n : Lengths(n, part, s)[d] = Len(PartOf(lines[s], ends[s], d))
    BY <1>3 DEF Lengths
  <2> QED
    BY <1>1, <2>1, <2>2
<1> QED
  BY <1>2, <1>4 DEF TakenApart

---------------------------------------------------------------------------
(* The members of a group *)

Mates(r) == Group(r, Exchangers(r))
Mate(r, k) == group(r) * SortRanks + k - 1

LEMMA RowFits ==
  ASSUME NEW n \in Nat \ {0}, NEW l \in Nat, NEW g \in 0..(l - 1), NEW k \in 1..n
  PROVE  g * n + k - 1 \in 0..(l * n - 1) /\ g * n + k - 1 = g * n + (k - 1)
<1>1. PICK d \in Nat : l = g + 1 + d
  <2>1. l - g - 1 \in Nat /\ l = g + 1 + (l - g - 1)
    OBVIOUS
  <2> QED
    BY <2>1
<1>2. l * n = g * n + n + d * n /\ g * n \in Nat /\ d * n \in Nat
  BY <1>1
<1> QED
  BY <1>2

LEMMA MateIs ==
  ASSUME input \in Problems, NEW r \in Ranks, ~Alone(r), NEW k \in 1..Exchangers(r), Exchangers(r) \in 0..SortRanks
  PROVE  /\ Mate(r, k) \in Ranks /\ Mate(r, k) \in Mates(r) /\ r \in Mates(Mate(r, k))
         /\ sort_rank(Mate(r, k)) = k - 1 /\ group(Mate(r, k)) = group(r) /\ ~Alone(Mate(r, k))
         /\ Exchangers(Mate(r, k)) = Exchangers(r) /\ num_segments_l(Mate(r, k)) = num_segments_l(r)
         /\ \A j : Mate(Mate(r, k), j) = Mate(r, j)
<1> DEFINE q == Mate(r, k)
<1>1. /\ SortRanks \in Nat \ {0} /\ group(r) \in Nat /\ Len(input.lines) \in Nat
      /\ group(r) \in 0..(Len(input.lines) - 1) /\ k \in 1..SortRanks /\ k - 1 \in 0..(SortRanks - 1)
  <2>1. /\ SortRanks \in Nat \ {0} /\ group(r) \in Nat /\ group(r) + 1 \in 1..Len(input.lines) /\ Len(input.lines) \in Nat
    BY RankFacts, RankParts
  <2> QED
    BY <2>1
<1>2. q \in Ranks /\ q = group(r) * SortRanks + (k - 1)
  BY <1>1, RowFits DEF Mate, Ranks
<1> HIDE DEF q
<1>3. group(q) = group(r) /\ sort_rank(q) = k - 1
  <2>1. (group(r) * SortRanks + (k - 1)) \div SortRanks = group(r) /\ (group(r) * SortRanks + (k - 1)) % SortRanks = k - 1
    BY <1>1, DivideIs
  <2>2. q \div SortRanks = group(r) /\ q % SortRanks = k - 1
    BY <1>2, <2>1
  <2> QED
    BY <2>2 DEF group, sort_rank
<1>4. q \in Mates(r)
  <2>1. k - 1 < Exchangers(r)
    BY <1>1
  <2> QED
    BY <1>2, <1>3, <2>1, GroupIs DEF Mates
<1>5. r \in Mates(q) /\ Exchangers(q) = Exchangers(r) /\ num_segments_l(q) = num_segments_l(r)
  BY <1>2, <1>4, MembersFind DEF Mates
<1>6. ~Alone(q)
  BY <1>2, AloneTogether
<1>7. \A j : Mate(q, j) = Mate(r, j)
  BY <1>3 DEF Mate
<1> QED
  BY <1>2, <1>3, <1>4, <1>5, <1>6, <1>7 DEF q

LEMMA MateOf ==
  ASSUME input \in Problems, NEW r \in Ranks, Exchangers(r) \in 0..SortRanks, NEW q \in Ranks
  PROVE  q \in Mates(r) <=> sort_rank(q) + 1 \in 1..Exchangers(r) /\ q = Mate(r, sort_rank(q) + 1)
<1>1. /\ sort_rank(q) \in 0..(SortRanks - 1) /\ q = group(q) * SortRanks + sort_rank(q) /\ group(q) \in Nat /\ group(r) \in Nat
      /\ SortRanks \in Nat \ {0} /\ Exchangers(r) \in Nat
  BY RankFacts, RankParts
<1>2. q \in Mates(r) <=> group(q) = group(r) /\ sort_rank(q) < Exchangers(r)
  BY GroupIs DEF Mates
<1>3. sort_rank(q) < Exchangers(r) <=> sort_rank(q) + 1 \in 1..Exchangers(r)
  BY <1>1
<1>4. q = Mate(r, sort_rank(q) + 1) <=> group(q) = group(r)
  <2>1. Mate(r, sort_rank(q) + 1) = group(r) * SortRanks + sort_rank(q)
    <3>1. group(r) * SortRanks \in Nat
      BY <1>1
    <3> QED
      BY <1>1, <3>1 DEF Mate
  <2>2. ASSUME q = Mate(r, sort_rank(q) + 1) PROVE group(q) = group(r)
    <3>1. q \div SortRanks = group(r)
      BY <1>1, <2>1, <2>2, DivideIs
    <3> QED
      BY <3>1 DEF group
  <2> QED
    BY <1>1, <2>1, <2>2
<1> QED
  BY <1>2, <1>3, <1>4

LEMMA MembersAre ==
  ASSUME input \in Problems, NEW r \in Ranks, ~Alone(r)
  PROVE  /\ Exchangers(r) \in 0..SortRanks /\ num_segments_l(r) \in Nat /\ segment_size_l(r) \in Nat
         /\ Exchangers(r) = 0 => num_segments_l(r) = 0
         /\ Exchangers(r) # 0 => r \in Mates(r) /\ sort_rank(r) + 1 \in 1..Exchangers(r) /\ Mate(r, sort_rank(r) + 1) = r
<1>1. Exchangers(r) \in 0..SortRanks /\ num_segments_l(r) \in Nat /\ segment_size_l(r) \in Nat /\ Populated \in 1..SortRanks
  <2>1. SortRanks \in Nat /\ Populated \in 1..SortRanks
    BY RankFacts, PopulatedFirst
  <2> QED
    BY <2>1, RankFacts, RankParts DEF Exchangers
<1>2. ASSUME Exchangers(r) = 0 PROVE num_segments_l(r) = 0
  <2>1. volume(r) = 0
    BY <1>1, <1>2 DEF Exchangers
  <2>2. segment_size_l(r) * num_segments_l(r) = 0
    BY <2>1 DEF volume
  <2>3. CASE segment_size_l(r) = 0
    BY <2>3 DEF num_segments_l
  <2>4. CASE segment_size_l(r) # 0
    BY <1>1, <2>2, <2>4
  <2> QED
    BY <2>3, <2>4
<1>3. ASSUME Exchangers(r) # 0 PROVE r \in Mates(r)
  <2>1. 1 \in 1..Exchangers(r)
    BY <1>1, <1>3, RankFacts
  <2>2. Mate(r, 1) \in Ranks /\ r \in Mates(Mate(r, 1)) /\ Exchangers(Mate(r, 1)) = Exchangers(r) /\ group(Mate(r, 1)) = group(r)
    BY <1>1, <2>1, MateIs
  <2>3. r \in Group(Mate(r, 1), Exchangers(r))
    BY <2>2 DEF Mates
  <2>4. sort_rank(r) < Exchangers(r)
    BY <1>1, <2>2, <2>3, GroupIs
  <2> QED
    BY <1>1, <2>4, GroupIs DEF Mates
<1> QED
  BY <1>1, <1>2, <1>3, MateOf

---------------------------------------------------------------------------
(* The exchanges, inductively *)

\* What is known of a task's piece, of its samples, of what it cuts off and says of it, of the elements it
\* exchanges, of its surplus and of the shift, once it posted so many contributions.
PieceFact(r) == SortedLines(num_segments_l(r), segment_size_l(r), piece[r])

Sampling(r) == [s \in 1..num_segments_l(r) |-> SamplesOf(r, s, piece[r][s], Exchangers(r))]
SamplesFact(r) == \A q \in Ranks : q \in Mates(r) => posted[r][2].send[q] = FlattenSeq(Sampling(r))

CutFact(r) ==
  /\ TakenApart(Exchangers(r), num_segments_l(r), segment_size_l(r), cut[r])
  /\ \A q \in Ranks : q \in Mates(r) => posted[r][3].send[q] = WithTotal(cut[r][sort_rank(q) + 1])

ElementsFact(r, n) ==
  \A q \in Ranks :
    /\ Len(posted[r][n].send[q]) = IF q \in Mates(r) THEN Last(posted[r][3].send[q]) ELSE 0
    /\ posted[r][n].recv[q] = IF q \in Mates(r) THEN Last(posted[q][3].send[r]) ELSE 0

\* What task r got of line s from each member.
Got(r, s) == [k \in 1..Exchangers(r) |-> posted[Mate(r, k)][3].send[r][s]]
SurplusFact(r) ==
  /\ DOMAIN merged[r] = 1..num_segments_l(r) /\ \A s \in 1..num_segments_l(r) : Len(merged[r][s]) \in Nat
  /\ \A q \in Ranks : q \in Mates(r) => \A s \in 1..num_segments_l(r) :
       posted[r][Exchanges + 1].send[q][s] = SumOf(Got(r, s)) - segment_size_l(r)

\* The surplus of n members behind the first ones, as task r knows it.
Surpluses(r, s, first, n) == [k \in 1..n |-> posted[Mate(r, first + k)][Exchanges + 1].send[r][s]]
ToLeft(r, s) == SumOf(Surpluses(r, s, sort_rank(r), Exchangers(r) - sort_rank(r)))
ToRight(r, s) == SumOf(Surpluses(r, s, 0, sort_rank(r) + 1))
ShiftFact(r) ==
  \A q \in Ranks :
    /\ Len(posted[r][Exchanges + 2].send[q]) =
         IF q = r - 1 THEN SumOf([s \in 1..num_segments_l(r) |-> Positive(ToLeft(r, s))])
         ELSE IF q = r + 1 THEN SumOf([s \in 1..num_segments_l(r) |-> Positive(ToRight(r, s))]) ELSE 0
    /\ posted[r][Exchanges + 2].recv[q] =
         IF q = r - 1 THEN SumOf([s \in 1..num_segments_l(r) |-> Positive(-ToLeft(r, s))])
         ELSE IF q = r + 1 THEN SumOf([s \in 1..num_segments_l(r) |-> Positive(-ToRight(r, s))]) ELSE 0

Fact(r, n) ==
  /\ n = 1 => PieceFact(r)
  /\ n = 2 => SamplesFact(r)
  /\ n = 3 => CutFact(r)
  /\ n \in 4..Exchanges => ElementsFact(r, n)
  /\ n = Exchanges + 1 => SurplusFact(r)
  /\ n = Exchanges + 2 => ShiftFact(r)

Close == \A r, q \in Ranks : Len(posted[q]) + 1 >= Len(posted[r])
InExchanges ==
  /\ InCounts /\ Close /\ DOMAIN cut = Ranks /\ DOMAIN merged = Ranks
  /\ \A r \in Ranks : \A n \in 1..Len(posted[r]) : Fact(r, n)

\* What a step leaves alone: the contributions so far, and what is known of a task behind them.
Grown(q) ==
  /\ Len(posted'[q]) >= Len(posted[q])
  /\ \A n \in 1..Len(posted[q]) : posted'[q][n] = posted[q][n]
  /\ Len(posted[q]) >= 1 => piece'[q] = piece[q]
  /\ Len(posted[q]) >= 3 => cut'[q] = cut[q]
  /\ Len(posted[q]) >= Exchanges + 1 => merged'[q] = merged[q]
Grows == input' = input /\ \A q \in Ranks : Grown(q)

LEMMA SameExchange ==
  ASSUME input' = input, NEW r
  PROVE  /\ SortRanks' = SortRanks /\ Ranks' = Ranks /\ Exchanges' = Exchanges /\ Collectives' = Collectives
         /\ sort_rank(r)' = sort_rank(r) /\ group(r)' = group(r) /\ segment_size_l(r)' = segment_size_l(r)
         /\ num_segments_l(r)' = num_segments_l(r) /\ Exchangers(r)' = Exchangers(r) /\ Mates(r)' = Mates(r)
         /\ \A k : Mate(r, k)' = Mate(r, k)
<1>1. SortRanks' = SortRanks /\ Ranks' = Ranks /\ Exchanges' = Exchanges /\ Collectives' = Collectives
  BY DEF SortRanks, Ranks, Exchanges, Collectives
<1>2. sort_rank(r)' = sort_rank(r) /\ group(r)' = group(r)
  BY <1>1 DEF sort_rank, group
<1>3. segment_size_l(r)' = segment_size_l(r)
  BY <1>2 DEF segment_size_l
<1>4. num_segments_l(r)' = num_segments_l(r) /\ Exchangers(r)' = Exchangers(r)
  BY SameLayout
<1>5. Mates(r)' = Mates(r)
  BY <1>1, <1>2, <1>4 DEF Mates, Group
<1>6. \A k : Mate(r, k)' = Mate(r, k)
  BY <1>1, <1>2 DEF Mate
<1> QED
  BY <1>1, <1>2, <1>3, <1>4, <1>5, <1>6

\* How far the tasks are apart.
LEMMA Behind ==
  ASSUME InExchanges, NEW r \in Ranks
  PROVE  /\ Len(posted[r]) \in Nat /\ Len(posted[r]) <= Collectives /\ (posted[r] = << >> <=> Len(posted[r]) = 0)
         /\ \A q \in Ranks : Len(posted[q]) \in Nat /\ Len(posted[q]) + 1 >= Len(posted[r])
         /\ input \in Problems /\ (posted[r] # << >> => ~Alone(r))
BY SequenceFacts DEF InExchanges, InCounts, InStep, Followed, Close

LEMMA PieceKept ==
  ASSUME Grows, NEW r \in Ranks, Len(posted[r]) >= 1, PieceFact(r) PROVE PieceFact(r)'
<1>1. piece'[r] = piece[r]
  BY DEF Grows, Grown
<1> QED
  BY <1>1, SameExchange DEF PieceFact, Grows

LEMMA SamplingKept ==
  ASSUME Grows, NEW r \in Ranks, Len(posted[r]) >= 1 PROVE Sampling(r)' = Sampling(r)
<1>1. piece'[r] = piece[r] /\ input' = input
  BY DEF Grows, Grown
<1> QED
  BY <1>1, SameExchange DEF Sampling, SamplesOf

LEMMA SamplesKept ==
  ASSUME Grows, NEW r \in Ranks, Len(posted[r]) \in Nat, Len(posted[r]) >= 2, SamplesFact(r) PROVE SamplesFact(r)'
<1>1. posted'[r][2] = posted[r][2] /\ input' = input
  BY DEF Grows, Grown
<1>2. Sampling(r)' = Sampling(r)
  BY SamplingKept
<1> QED
  BY <1>1, <1>2, SameExchange DEF SamplesFact

LEMMA CutKept ==
  ASSUME Grows, NEW r \in Ranks, Len(posted[r]) \in Nat, Len(posted[r]) >= 3, CutFact(r) PROVE CutFact(r)'
<1>1. posted'[r][3] = posted[r][3] /\ cut'[r] = cut[r] /\ input' = input
  BY DEF Grows, Grown
<1> QED
  BY <1>1, SameExchange DEF CutFact

LEMMA ElementsKept ==
  ASSUME InExchanges, Grows, NEW r \in Ranks, NEW n \in 4..Len(posted[r]), ElementsFact(r, n) PROVE ElementsFact(r, n)'
<1>1. input' = input /\ Len(posted[r]) \in Nat
  BY Behind DEF Grows
<1>2. posted'[r][n] = posted[r][n] /\ posted'[r][3] = posted[r][3]
  BY <1>1 DEF Grows, Grown
<1>3. \A q \in Ranks : posted'[q][3] = posted[q][3]
  <2>1. \A q \in Ranks : 3 \in 1..Len(posted[q])
    BY <1>1, Behind
  <2> QED
    BY <2>1 DEF Grows, Grown
<1> QED
  BY <1>1, <1>2, <1>3, SameExchange DEF ElementsFact

LEMMA GotKept ==
  ASSUME InExchanges, Grows, NEW r \in Ranks, Len(posted[r]) >= 4, NEW s
  PROVE  Got(r, s)' = Got(r, s)
<1>1. input' = input /\ input \in Problems /\ ~Alone(r) /\ Len(posted[r]) \in Nat
  BY Behind DEF Grows
<1>2. Exchangers(r) \in 0..SortRanks
  BY <1>1, MembersAre
<1>3. ASSUME NEW k \in 1..Exchangers(r) PROVE posted'[Mate(r, k)][3] = posted[Mate(r, k)][3]
  <2>1. Mate(r, k) \in Ranks
    BY <1>1, <1>2, MateIs
  <2>2. 3 \in 1..Len(posted[Mate(r, k)])
    BY <1>1, <2>1, Behind
  <2> QED
    BY <2>1, <2>2 DEF Grows, Grown
<1>4. Exchangers(r)' = Exchangers(r) /\ \A k : Mate(r, k)' = Mate(r, k)
  BY <1>1, SameExchange
<1> QED
  BY <1>3, <1>4 DEF Got

LEMMA SurplusKept ==
  ASSUME InExchanges, Grows, NEW r \in Ranks, Len(posted[r]) >= Exchanges + 1, SurplusFact(r) PROVE SurplusFact(r)'
<1>1. input' = input /\ Len(posted[r]) \in Nat /\ Exchanges \in 4..5
  BY Behind DEF Grows, Exchanges
<1>2. posted'[r][Exchanges + 1] = posted[r][Exchanges + 1] /\ merged'[r] = merged[r]
  BY <1>1 DEF Grows, Grown
<1>3. \A s : Got(r, s)' = Got(r, s)
  BY <1>1, GotKept
<1> QED
  BY <1>1, <1>2, <1>3, SameExchange DEF SurplusFact

LEMMA SurplusesKept ==
  ASSUME InExchanges, Grows, NEW r \in Ranks, ~Alone(r), \A q \in Ranks : Len(posted[q]) >= Exchanges + 1,
         NEW s \in 1..num_segments_l(r)
  PROVE  ToLeft(r, s)' = ToLeft(r, s) /\ ToRight(r, s)' = ToRight(r, s)
<1>1. input' = input /\ input \in Problems /\ ~Alone(r) /\ Len(posted[r]) \in Nat /\ Exchanges \in 4..5
  <2>1. Exchanges \in 4..5
    BY DEF Exchanges
  <2> QED
    BY <2>1, Behind DEF Grows
<1>2. Exchangers(r) \in 0..SortRanks /\ Exchangers(r) # 0 /\ sort_rank(r) + 1 \in 1..Exchangers(r) /\ sort_rank(r) \in Nat
      /\ SortRanks \in Nat
  <2>1. num_segments_l(r) # 0
    OBVIOUS
  <2> QED
    BY <1>1, <2>1, MembersAre, RankFacts
<1>3. ASSUME NEW k \in 1..Exchangers(r) PROVE posted'[Mate(r, k)][Exchanges + 1] = posted[Mate(r, k)][Exchanges + 1]
  <2>1. Mate(r, k) \in Ranks
    BY <1>1, <1>2, MateIs
  <2>2. Exchanges + 1 \in 1..Len(posted[Mate(r, k)])
    BY <1>1, <2>1, Behind
  <2> QED
    BY <2>1, <2>2 DEF Grows, Grown
<1>4. /\ Exchangers(r)' = Exchangers(r) /\ sort_rank(r)' = sort_rank(r) /\ Exchanges' = Exchanges
      /\ \A k : Mate(r, k)' = Mate(r, k)
  BY <1>1, SameExchange
<1>5. ASSUME NEW first \in Nat, NEW n \in Int, first + n <= Exchangers(r)
      PROVE  [k \in 1..n |-> posted'[Mate(r, first + k)][Exchanges + 1].send[r][s]] = Surpluses(r, s, first, n)
  <2>1. \A k \in 1..n : first + k \in 1..Exchangers(r)
    BY <1>2, <1>5
  <2>2. \A k \in 1..n : posted'[Mate(r, first + k)][Exchanges + 1] = posted[Mate(r, first + k)][Exchanges + 1]
    BY <1>3, <2>1
  <2> QED
    BY <2>2 DEF Surpluses
<1>6. Surpluses(r, s, sort_rank(r), Exchangers(r) - sort_rank(r))' = Surpluses(r, s, sort_rank(r), Exchangers(r) - sort_rank(r))
  <2>1. sort_rank(r) + (Exchangers(r) - sort_rank(r)) <= Exchangers(r) /\ Exchangers(r) - sort_rank(r) \in Int
    BY <1>2
  <2>2. [k \in 1..(Exchangers(r) - sort_rank(r)) |-> posted'[Mate(r, sort_rank(r) + k)][Exchanges + 1].send[r][s]]
          = Surpluses(r, s, sort_rank(r), Exchangers(r) - sort_rank(r))
    BY <1>2, <1>5, <2>1
  <2> QED
    BY <1>4, <2>2 DEF Surpluses
<1>7. Surpluses(r, s, 0, sort_rank(r) + 1)' = Surpluses(r, s, 0, sort_rank(r) + 1)
  <2>1. 0 + (sort_rank(r) + 1) <= Exchangers(r) /\ sort_rank(r) + 1 \in Int /\ 0 \in Nat
    BY <1>2
  <2>2. [k \in 1..(sort_rank(r) + 1) |-> posted'[Mate(r, 0 + k)][Exchanges + 1].send[r][s]]
          = Surpluses(r, s, 0, sort_rank(r) + 1)
    BY <1>5, <2>1
  <2> QED
    BY <1>4, <2>2 DEF Surpluses
<1> QED
  BY <1>6, <1>7 DEF ToLeft, ToRight

LEMMA ShiftKept ==
  ASSUME InExchanges, Grows, NEW r \in Ranks, Len(posted[r]) >= Exchanges + 2, ShiftFact(r) PROVE ShiftFact(r)'
<1>1. input' = input /\ Len(posted[r]) \in Nat /\ Exchanges \in 4..5
  <2>1. Exchanges \in 4..5
    BY DEF Exchanges
  <2> QED
    BY <2>1, Behind DEF Grows
<1>2. posted'[r][Exchanges + 2] = posted[r][Exchanges + 2]
  BY <1>1 DEF Grows, Grown
<1>3. \A s \in 1..num_segments_l(r) : ToLeft(r, s)' = ToLeft(r, s) /\ ToRight(r, s)' = ToRight(r, s)
  <2>1. ~Alone(r) /\ \A q \in Ranks : Len(posted[q]) >= Exchanges + 1
    BY <1>1, Behind
  <2> QED
    BY <2>1, SurplusesKept
<1>4. Ranks' = Ranks /\ num_segments_l(r)' = num_segments_l(r) /\ Exchanges' = Exchanges
  BY <1>1, SameExchange
<1>5. /\ [s \in 1..num_segments_l(r) |-> Positive(ToLeft(r, s))]' = [s \in 1..num_segments_l(r) |-> Positive(ToLeft(r, s))]
      /\ [s \in 1..num_segments_l(r) |-> Positive(-ToLeft(r, s))]' = [s \in 1..num_segments_l(r) |-> Positive(-ToLeft(r, s))]
      /\ [s \in 1..num_segments_l(r) |-> Positive(ToRight(r, s))]' = [s \in 1..num_segments_l(r) |-> Positive(ToRight(r, s))]
      /\ [s \in 1..num_segments_l(r) |-> Positive(-ToRight(r, s))]' = [s \in 1..num_segments_l(r) |-> Positive(-ToRight(r, s))]
  BY <1>3, <1>4
<1> QED
  BY <1>2, <1>4, <1>5 DEF ShiftFact

LEMMA FactKept ==
  ASSUME InExchanges, Grows, NEW r \in Ranks, NEW n \in 1..Len(posted[r]) PROVE Fact(r, n)'
<1>1. Fact(r, n) /\ Len(posted[r]) \in Nat
  BY Behind DEF InExchanges
<1>2. Exchanges' = Exchanges /\ Exchanges \in 4..5
  BY SameExchange DEF Grows, Exchanges
<1>3. n = 1 => PieceFact(r)'
  BY <1>1, PieceKept DEF Fact
<1>4. n = 2 => SamplesFact(r)'
  BY <1>1, SamplesKept DEF Fact
<1>5. n = 3 => CutFact(r)'
  BY <1>1, CutKept DEF Fact
<1>6. n \in 4..Exchanges => ElementsFact(r, n)'
  BY <1>1, <1>2, ElementsKept DEF Fact
<1>7. n = Exchanges + 1 => SurplusFact(r)'
  BY <1>1, SurplusKept DEF Fact
<1>8. n = Exchanges + 2 => ShiftFact(r)'
  BY <1>1, ShiftKept DEF Fact
<1> QED
  BY <1>2, <1>3, <1>4, <1>5, <1>6, <1>7, <1>8 DEF Fact

\* A step adds a contribution to those of its task, when all the others have as many, and leaves the rest alone.
LEMMA PostedGrows ==
  ASSUME InExchanges, NEW r \in Ranks, Step(r)
  PROVE  /\ input' = input /\ \A q \in Ranks : q # r => posted'[q] = posted[q]
         /\ \A n \in 1..Len(posted[r]) : posted'[r][n] = posted[r][n]
         /\ \/ posted' = posted
            \/ /\ Len(posted'[r]) = Len(posted[r]) + 1
               /\ \A q \in Ranks : Len(posted[q]) >= Len(posted[r])
<1>0. InStep /\ DOMAIN posted = Ranks /\ IsSequence(posted[r])
  BY DEF InExchanges, InCounts, InStep, Followed
<1>1. Joins(r) \/ Returns(r)
  BY <1>0, StepsFollow
<1>2. CASE Joins(r)
  <2>1. PICK x : posted' = [posted EXCEPT ![r] = Append(@, x)]
    BY <1>2 DEF Joins
  <2>2. posted'[r] = Append(posted[r], x) /\ \A q \in Ranks : q # r => posted'[q] = posted[q]
    BY <1>0, <2>1
  <2> QED
    BY <1>0, <1>2, <2>2, AppendFacts DEF Joins
<1>3. CASE Returns(r)
  BY <1>3 DEF Returns
<1> QED
  BY <1>1, <1>2, <1>3

\* A step writes down a result of its task, once.
LEMMA ResultsKept ==
  ASSUME InExchanges, NEW r \in Ranks, Step(r)
  PROVE  /\ \A q \in Ranks : q # r => piece'[q] = piece[q] /\ cut'[q] = cut[q] /\ merged'[q] = merged[q]
         /\ Len(posted[r]) >= 1 => piece'[r] = piece[r]
         /\ Len(posted[r]) >= 3 => cut'[r] = cut[r]
         /\ Len(posted[r]) >= Exchanges + 1 => merged'[r] = merged[r]
         /\ DOMAIN cut' = Ranks /\ DOMAIN merged' = Ranks
<1>1. DOMAIN piece = Ranks /\ DOMAIN cut = Ranks /\ DOMAIN merged = Ranks /\ Len(<< >>) = 0 /\ Exchanges \in 4..5
  BY EmptySeq DEF InExchanges, InCounts, Exchanges
<1>2. \/ UNCHANGED << piece, cut, merged >>
      \/ (\E x : piece' = [piece EXCEPT ![r] = x]) /\ posted[r] = << >> /\ UNCHANGED << cut, merged >>
      \/ (\E x : cut' = [cut EXCEPT ![r] = x]) /\ Len(posted[r]) = 2 /\ UNCHANGED << piece, merged >>
      \/ (\E x : merged' = [merged EXCEPT ![r] = x]) /\ Len(posted[r]) = Exchanges /\ UNCHANGED << piece, cut >>
  <2>1. CASE ReturnEarly(r) \/ SortAlone(r) \/ SelectSamples(r) \/ SendValues(r) \/ SendIndices(r) \/ Balance(r) \/ Finish(r)
    BY <2>1 DEF ReturnEarly, SortAlone, SelectSamples, SendValues, SendIndices, Balance, Finish
  <2>2. CASE LocalSort(r)
    BY <2>2 DEF LocalSort
  <2>3. CASE SelectSplitters(r)
    BY <2>3 DEF SelectSplitters, Returned
  <2>4. CASE Merge(r)
    BY <2>4 DEF Merge, Returned
  <2> QED
    BY <2>1, <2>2, <2>3, <2>4 DEF Step
<1>3. CASE UNCHANGED << piece, cut, merged >>
  BY <1>1, <1>3
<1>4. CASE (\E x : piece' = [piece EXCEPT ![r] = x]) /\ posted[r] = << >> /\ UNCHANGED << cut, merged >>
  <2>1. PICK x : piece' = [piece EXCEPT ![r] = x]
    BY <1>4
  <2>2. Len(posted[r]) = 0
    BY <1>1, <1>4
  <2> QED
    BY <1>1, <1>4, <2>1, <2>2
<1>5. CASE (\E x : cut' = [cut EXCEPT ![r] = x]) /\ Len(posted[r]) = 2 /\ UNCHANGED << piece, merged >>
  <2>1. PICK x : cut' = [cut EXCEPT ![r] = x]
    BY <1>5
  <2> QED
    BY <1>1, <1>5, <2>1
<1>6. CASE (\E x : merged' = [merged EXCEPT ![r] = x]) /\ Len(posted[r]) = Exchanges /\ UNCHANGED << piece, cut >>
  <2>1. PICK x : merged' = [merged EXCEPT ![r] = x]
    BY <1>6
  <2> QED
    BY <1>1, <1>6, <2>1
<1> QED
  BY <1>2, <1>3, <1>4, <1>5, <1>6

LEMMA StepGrows ==
  ASSUME InExchanges, NEW r \in Ranks, Step(r)
  PROVE  /\ Grows /\ Close' /\ DOMAIN cut' = Ranks /\ DOMAIN merged' = Ranks
         /\ \A q \in Ranks : q # r => Len(posted'[q]) = Len(posted[q])
         /\ Len(posted'[r]) = Len(posted[r]) \/ Len(posted'[r]) = Len(posted[r]) + 1
<1>1. /\ input' = input /\ \A q \in Ranks : q # r => posted'[q] = posted[q]
      /\ \A n \in 1..Len(posted[r]) : posted'[r][n] = posted[r][n]
      /\ \/ posted' = posted
         \/ /\ Len(posted'[r]) = Len(posted[r]) + 1
            /\ \A q \in Ranks : Len(posted[q]) >= Len(posted[r])
  BY PostedGrows
<1>2. \A q \in Ranks : Len(posted[q]) \in Nat /\ \A p \in Ranks : Len(posted[p]) + 1 >= Len(posted[q])
  BY Behind
<1>3. Grows
  BY <1>1, <1>2, ResultsKept DEF Grows, Grown
<1>4. Close'
  <2>1. Ranks' = Ranks
    BY <1>1, SameExchange
  <2> QED
    BY <1>1, <1>2, <2>1, SMTT(30) DEF Close
<1> QED
  BY <1>1, <1>3, <1>4, ResultsKept

---------------------------------------------------------------------------
(* What a step says of its task *)

LEMMA TermsAre ==
  ASSUME NEW s \in Seq(Nat), NEW i \in 0..Len(s), NEW j \in i..Len(s), NEW f, f = [k \in 1..(j - i) |-> s[i + k]]
  PROVE  f \in Seq(Nat) /\ f \in Numbers(j - i) /\ SumOf(f) \in Nat /\ Len(f) = j - i
<1>1. Len(s) \in Nat /\ j - i \in Nat
  BY LenProperties
<1>2. ASSUME NEW k \in 1..(j - i) PROVE s[i + k] \in Nat
  <2>1. i + k \in 1..Len(s)
    BY <1>1
  <2> QED
    BY <2>1, ElementOfSeq
<1>3. f \in [1..(j - i) -> Nat]
  BY <1>2
<1>4. f \in Seq(Nat) /\ Len(f) = j - i
  BY <1>1, <1>3, NumbersAreSequences
<1>5. f \in Numbers(j - i)
  BY <1>3 DEF Numbers
<1>6. SumOf(f) \in Nat
  BY <1>4, SumBounds
<1> QED
  BY <1>4, <1>5, <1>6

LEMMA OffsetFits ==
  ASSUME input \in Problems, NEW r \in Ranks
  PROVE  /\ Offset(r) \in Nat /\ segment_size_l(r) \in Nat /\ segment_size_g \in Nat
         /\ Offset(r) + segment_size_l(r) <= segment_size_g
<1> DEFINE s == input.sizes
           j == sort_rank(r)
<1>1. /\ s \in Seq(Nat) /\ Len(s) \in Nat /\ j \in Nat /\ j + 1 \in 1..Len(s) /\ j \in 0..Len(s)
      /\ segment_size_l(r) = s[j + 1] /\ segment_size_l(r) \in Nat /\ segment_size_g = SumOf(s)
  <2>1. WellFormed(input) /\ SortRanks \in Nat /\ sort_rank(r) \in 0..(SortRanks - 1) /\ segment_size_l(r) \in Nat
    BY RankFacts
  <2>2. s \in Seq(Nat)
    BY <2>1 DEF WellFormed
  <2>3. Len(s) = SortRanks
    BY DEF SortRanks
  <2>4. segment_size_l(r) = s[j + 1] /\ segment_size_g = SumOf(s)
    BY DEF segment_size_l, segment_size_g
  <2> HIDE DEF s, j
  <2>5. j \in 0..(SortRanks - 1)
    BY <2>1 DEF j
  <2> QED
    BY <2>1, <2>2, <2>3, <2>4, <2>5
<1>2. Offset(r) = SumOf(SubSeq(s, 1, j))
  BY DEF Offset
<1> HIDE DEF s, j
<1> DEFINE a == [k \in 1..(j - 0) |-> s[0 + k]]
           b == [k \in 1..((j + 1) - 0) |-> s[0 + k]]
           c == [k \in 1..(Len(s) - (j + 1)) |-> s[(j + 1) + k]]
<1>3. SubSeq(s, 1, j) = a
  <2>1. SubSeq(s, 1, j) = [k \in 1..j |-> s[k]]
    <3>1. CASE j = 0
      <4>1. SubSeq(s, 1, j) = << >>
        BY <1>1, <3>1, SubSeqEmpty
      <4> QED
        BY <3>1, <4>1
    <3>2. CASE j # 0
      <4>1. /\ SubSeq(s, 1, j) \in Seq(Nat) /\ Len(SubSeq(s, 1, j)) = j
            /\ \A i \in 1..j : SubSeq(s, 1, j)[i] = s[i]
        BY <1>1, <3>2, SubSeqProperties
      <4>2. SubSeq(s, 1, j) \in [1..j -> Nat]
        BY <4>1, LenProperties
      <4> QED
        BY <4>1, <4>2
    <3> QED
      BY <3>1, <3>2
  <2> QED
    BY <1>1, <2>1
<1>4. a \in Numbers(j) /\ SumOf(a) \in Nat /\ SameTo(j, b, a)
  <2>1. 0 \in 0..Len(s) /\ j \in 0..Len(s) /\ j - 0 = j
    BY <1>1
  <2>2. a \in Numbers(j - 0) /\ SumOf(a) \in Nat
    BY <1>1, <2>1, TermsAre
  <2>3. SameTo(j, b, a)
    BY <1>1 DEF SameTo
  <2> QED
    BY <2>1, <2>2, <2>3
<1>5. b \in Numbers(j + 1) /\ b[j + 1] = s[j + 1] /\ SameTo(j + 1, s, b)
  <2>1. 0 \in 0..Len(s) /\ j + 1 \in 0..Len(s) /\ (j + 1) - 0 = j + 1
    BY <1>1
  <2>2. b \in Numbers((j + 1) - 0)
    BY <1>1, <2>1, TermsAre
  <2>3. b[j + 1] = s[j + 1] /\ SameTo(j + 1, s, b)
    BY <1>1 DEF SameTo
  <2> QED
    BY <2>1, <2>2, <2>3
<1>6. c \in Numbers(Len(s) - (j + 1)) /\ SumOf(c) \in Nat /\ SameBehind(Len(s), j + 1, s, c)
  <2>1. j + 1 \in 0..Len(s) /\ Len(s) \in (j + 1)..Len(s)
    BY <1>1
  <2>2. c \in Numbers(Len(s) - (j + 1)) /\ SumOf(c) \in Nat
    BY <1>1, <2>1, TermsAre
  <2>3. SameBehind(Len(s), j + 1, s, c)
    BY DEF SameBehind
  <2> QED
    BY <2>2, <2>3
<1>7. s \in Numbers(Len(s))
  BY <1>1, NumbersAreIntegers, LenProperties DEF Numbers
<1> HIDE DEF a, b, c
<1>8. SumOf(b) = SumOf(a) + s[j + 1]
  <2>1. j + 1 \in Nat \ {0} /\ (j + 1) - 1 = j
    BY <1>1
  <2> QED
    BY <1>4, <1>5, <2>1, SumOneMore
<1>9. SumOf(s) = SumOf(b) + SumOf(c)
  <2>1. j + 1 \in 0..Len(s)
    BY <1>1
  <2> QED
    BY <1>1, <1>5, <1>6, <1>7, <2>1, SumSplit
<1>10. SumOf(s) = (SumOf(a) + s[j + 1]) + SumOf(c) /\ Offset(r) = SumOf(a)
  BY <1>2, <1>3, <1>8, <1>9
<1>11. PICK x \in Nat, y \in Nat, z \in Nat : x = SumOf(a) /\ y = s[j + 1] /\ z = SumOf(c)
  BY <1>1, <1>4, <1>6
<1>12. Offset(r) = x /\ segment_size_l(r) = y /\ segment_size_g = (x + y) + z
  BY <1>1, <1>10, <1>11
<1> QED
  BY <1>12

\* The part of a task has the size that the layout gives it.
LEMMA PartIs ==
  ASSUME input \in Problems, NEW r \in Ranks, NEW s \in 1..num_segments_l(r)
  PROVE  Part(r, s) \in Seq(Elements) /\ Len(Part(r, s)) = segment_size_l(r)
<1>1. /\ Offset(r) \in Nat /\ segment_size_l(r) \in Nat /\ Offset(r) + segment_size_l(r) <= segment_size_g /\ segment_size_g \in Nat
  BY OffsetFits
<1> DEFINE line == input.lines[group(r) + 1][s]
<1>2. line \in Seq(Values) /\ Len(line) = segment_size_g
  <2>1. WellFormed(input) /\ group(r) + 1 \in 1..Len(input.lines) /\ segment_size_l(r) \in Nat
    BY RankFacts, RankParts
  <2>2. num_segments_l(r) = Len(input.lines[group(r) + 1])
    BY <2>1 DEF num_segments_l
  <2>3. input.lines \in Seq(Seq(Seq(Values)))
    BY <2>1 DEF WellFormed
  <2>4. input.lines[group(r) + 1] \in Seq(Seq(Values))
    BY <2>1, <2>3, ElementOfSeq
  <2>5. s \in 1..Len(input.lines[group(r) + 1]) /\ group(r) + 1 \in DOMAIN input.lines /\ s \in DOMAIN input.lines[group(r) + 1]
    BY <2>1, <2>2, <2>3, <2>4, LenProperties
  <2>6. input.lines[group(r) + 1][s] \in Seq(Values)
    BY <2>4, <2>5, ElementOfSeq
  <2>7. Len(input.lines[group(r) + 1][s]) = SumOf(input.sizes)
    BY <2>1, <2>5 DEF WellFormed
  <2> QED
    BY <2>6, <2>7 DEF segment_size_g
<1> HIDE DEF line
<1>3. ASSUME NEW k \in 1..segment_size_l(r)
      PROVE  [v |-> line[Offset(r) + k], i |-> IF input.argsort THEN Offset(r) + k - 1 ELSE 0] \in Elements
  <2>1. Offset(r) + k \in 1..Len(line) /\ Offset(r) + k - 1 \in Int
    BY <1>1, <1>2
  <2>2. line[Offset(r) + k] \in Int
    BY <1>2, <2>1, ElementOfSeq, ValuesAssumption
  <2> QED
    BY <2>1, <2>2 DEF Elements
<1>4. Part(r, s) = [k \in 1..segment_size_l(r) |-> [v |-> line[Offset(r) + k], i |-> IF input.argsort THEN Offset(r) + k - 1 ELSE 0]]
  BY DEF Part, line
<1>5. Part(r, s) \in [1..segment_size_l(r) -> Elements]
  BY <1>3, <1>4
<1> QED
  BY <1>1, <1>5, NumbersAreSequences

\* Whatever sort it is, a line stays as long as it was.
LEMMA LocalSortsAre ==
  ASSUME NEW line \in Seq(Elements), NEW t \in LocalSorts(line)
  PROVE  t \in Seq(Elements) /\ Len(t) = Len(line) /\ InOrderOfValues(t)
<1>1. CASE input.stable
  <2>1. t = StableSort(line)
    BY <1>1 DEF LocalSorts
  <2> QED
    BY <2>1, StableSortIs
<1>2. CASE ~input.stable
  <2>1. PICK f \in Bijection(DOMAIN line, DOMAIN line) : t = StableSort([k \in DOMAIN line |-> line[f[k]]])
    BY <1>2 DEF LocalSorts
  <2> DEFINE u == [k \in DOMAIN line |-> line[f[k]]]
  <2>2. DOMAIN line = 1..Len(line) /\ Len(line) \in Nat /\ \A k \in 1..Len(line) : line[k] \in Elements
    BY LenProperties, ElementOfSeq
  <2>3. f \in [DOMAIN line -> DOMAIN line]
    BY <2>1 DEF Bijection, Injection, Surjection
  <2>4. u \in [1..Len(line) -> Elements]
    BY <2>2, <2>3
  <2> HIDE DEF u
  <2>5. u \in Seq(Elements) /\ Len(u) = Len(line)
    BY <2>2, <2>4, NumbersAreSequences
  <2>6. t = StableSort(u)
    BY <2>1 DEF u
  <2> QED
    BY <2>5, <2>6, StableSortIs
<1> QED
  BY <1>1, <1>2

LEMMA LocalSortSays ==
  ASSUME InExchanges, NEW r \in Ranks, LocalSort(r) PROVE PieceFact(r)'
<1>1. input \in Problems /\ DOMAIN piece = Ranks /\ input' = input
  BY DEF InExchanges, InCounts, InStep, LocalSort
<1>2. PICK sorted \in [1..num_segments_l(r) -> UNION { LocalSorts(Part(r, s)) : s \in 1..num_segments_l(r) }] :
        /\ \A s \in DOMAIN sorted : sorted[s] \in LocalSorts(Part(r, s))
        /\ piece' = [piece EXCEPT ![r] = sorted]
  BY DEF LocalSort
<1>3. piece'[r] = sorted
  BY <1>1, <1>2
<1>4. DOMAIN sorted = 1..num_segments_l(r) /\ sorted = [s \in 1..num_segments_l(r) |-> sorted[s]]
  BY <1>2
<1>5. ASSUME NEW s \in 1..num_segments_l(r)
      PROVE  sorted[s] \in Seq(Elements) /\ Len(sorted[s]) = segment_size_l(r) /\ InOrderOfValues(sorted[s])
  <2>1. Part(r, s) \in Seq(Elements) /\ Len(Part(r, s)) = segment_size_l(r)
    BY <1>1, PartIs
  <2>2. sorted[s] \in LocalSorts(Part(r, s))
    BY <1>2, <1>4
  <2> QED
    BY <2>1, <2>2, LocalSortsAre
<1>6. SortedLines(num_segments_l(r), segment_size_l(r), sorted)
  <2>1. sorted \in [1..num_segments_l(r) -> Seq(Elements)]
    BY <1>4, <1>5
  <2> QED
    BY <1>5, <2>1 DEF SortedLines
<1> QED
  BY <1>1, <1>3, <1>6, SameExchange DEF PieceFact

\* What a task has when it returns from a collective.
LEMMA ReturnedFrom ==
  ASSUME InExchanges, NEW r \in Ranks, NEW n \in Nat \ {0}, Returned(r, n)
  PROVE  /\ input \in Problems /\ ~Alone(r) /\ Len(posted[r]) = n /\ IsSequence(posted[r]) /\ DOMAIN posted = Ranks
         /\ \A q \in Ranks : Len(posted[q]) \in Nat /\ Len(posted[q]) >= n
         /\ \A q \in Ranks : \A k \in 1..n : Fact(q, k)
         /\ DOMAIN piece[r] = 1..num_segments_l(r) /\ num_segments_l(r) \in Nat /\ segment_size_l(r) \in Nat
         /\ Exchangers(r) \in 0..SortRanks /\ (n >= 2 => num_sort_ranks[r] = Exchangers(r))
<1>1. InCounts /\ InStep /\ input \in Problems /\ DOMAIN posted = Ranks /\ IsSequence(posted[r])
  BY DEF InExchanges, InCounts, InStep, Followed
<1>2. /\ Len(posted[r]) = n /\ ~Alone(r) /\ DOMAIN piece[r] = 1..num_segments_l(r) /\ num_segments_l(r) \in Nat
      /\ Exchangers(r) \in 0..SortRanks /\ (n >= 2 => num_sort_ranks[r] = Exchangers(r))
  BY <1>1, KnownAt
<1>3. \A q \in Ranks : Len(posted[q]) \in Nat /\ Len(posted[q]) >= n
  BY Behind DEF Returned
<1>4. \A q \in Ranks : \A k \in 1..n : Fact(q, k)
  BY <1>3 DEF InExchanges
<1>5. segment_size_l(r) \in Nat
  BY <1>1, RankFacts
<1> QED
  BY <1>1, <1>2, <1>3, <1>4, <1>5

\* The contribution that a task makes then.
LEMMA PostedNext ==
  ASSUME InExchanges, NEW r \in Ranks, NEW op, NEW send, NEW recv, Post(r, op, send, recv)
  PROVE  posted'[r][Len(posted[r]) + 1].send = send /\ posted'[r][Len(posted[r]) + 1].recv = recv
<1>1. InCounts /\ IsSequence(posted[r])
  BY DEF InExchanges, InCounts, InStep, Followed
<1> DEFINE x == [op |-> op, send |-> send, recv |-> recv]
<1>2. posted'[r] = Append(posted[r], x)
  BY <1>1, PostedIs
<1>3. x.send = send /\ x.recv = recv
  OBVIOUS
<1> HIDE DEF x
<1>4. posted'[r][Len(posted[r]) + 1] = x
  BY <1>1, <1>2, AppendFacts
<1> QED
  BY <1>3, <1>4

LEMMA SelectSamplesSays ==
  ASSUME InExchanges, NEW r \in Ranks, SelectSamples(r) PROVE SamplesFact(r)'
<1> DEFINE W == SumOf([k \in 1..Cardinality(Ranks) |-> FromTask(r, 1, k - 1)[1]])
           n == sort_ranks_of(r, W)
           S == [s \in DOMAIN piece[r] |-> SamplesOf(r, s, piece[r][s], n)]
<1>1. /\ Returned(r, 1) /\ UNCHANGED << input, piece >>
      /\ Post(r, "samples", ToEach(Group(r, n), FlattenSeq(S)), CountFrom(Group(r, n), Len(FlattenSeq(S))))
  BY DEF SelectSamples
<1>2. n = Exchangers(r)
  BY <1>1, WorkersCounted DEF InExchanges
<1> HIDE DEF n, W
<1>3. DOMAIN piece[r] = 1..num_segments_l(r) /\ Len(posted[r]) = 1
  <2>1. 1 \in Nat \ {0}
    OBVIOUS
  <2> QED
    BY <1>1, <2>1, ReturnedFrom
<1>4. S = Sampling(r)
  BY <1>2, <1>3 DEF Sampling
<1> HIDE DEF S
<1>5. posted'[r][1 + 1].send = ToEach(Mates(r), FlattenSeq(Sampling(r)))
  <2>1. posted'[r][1 + 1].send = ToEach(Group(r, n), FlattenSeq(S))
    <3>2. PICK send, recv : send = ToEach(Group(r, n), FlattenSeq(S)) /\ Post(r, "samples", send, recv)
      BY <1>1
    <3>3. posted'[r][Len(posted[r]) + 1].send = send
      BY <3>2, PostedNext
    <3> QED
      BY <1>3, <3>2, <3>3
  <2> QED
    BY <1>2, <1>4, <2>1 DEF Mates
<1>6. Sampling(r)' = Sampling(r)
  BY <1>1, SameExchange DEF Sampling, SamplesOf
<1>7. \A q \in Ranks : q \in Mates(r) => posted'[r][2].send[q] = FlattenSeq(Sampling(r))
  BY <1>5 DEF ToEach
<1> QED
  BY <1>1, <1>6, <1>7, SameExchange DEF SamplesFact

\* The samples that a task got from its group.
SamplesGot(r) == [k \in 1..Exchangers(r) |-> Sampling(Mate(r, k))]
SampledOf(r) == [k \in 1..Exchangers(r) |-> IF Exchangers(r) < segment_size_l(Mate(r, k)) THEN Exchangers(r) ELSE segment_size_l(Mate(r, k))]

LEMMA SamplesGotAre ==
  ASSUME InExchanges, NEW r \in Ranks, Returned(r, 2), NEW k \in 1..Exchangers(r)
  PROVE  /\ SamplesGot(r)[k] \in SampleLines(num_segments_l(r)) /\ SampledOf(r)[k] \in 1..Exchangers(r)
         /\ FromTask(r, 2, group(r) * SortRanks + k - 1) = FlattenSeq(SamplesGot(r)[k])
         /\ \A s \in 1..num_segments_l(r) :
              /\ OfLine(Exchangers(r), SamplesGot(r)[k][s], s)
              /\ CountIn(SamplesGot(r)[k][s], Populates) = SampledOf(r)[k]
              /\ Remembers(Exchangers(r), k - 1, piece[Mate(r, k)][s], SamplesGot(r)[k][s])
<1> DEFINE q == Mate(r, k)
           n == Exchangers(r)
           m == num_segments_l(r)
<1>1. /\ input \in Problems /\ ~Alone(r) /\ n \in 0..SortRanks /\ SortRanks \in Nat /\ m \in Nat
      /\ \A p \in Ranks : \A j \in 1..2 : Fact(p, j)
  <2>1. 2 \in Nat \ {0}
    OBVIOUS
  <2> QED
    BY <2>1, ReturnedFrom, RankFacts
<1>2. /\ q \in Ranks /\ r \in Mates(q) /\ sort_rank(q) = k - 1 /\ ~Alone(q)
      /\ Exchangers(q) = n /\ num_segments_l(q) = m
  BY <1>1, MateIs
<1> HIDE DEF q
<1>3. n \in Nat \ {0} /\ k - 1 \in Nat
  BY <1>1
<1>4. segment_size_l(q) \in Nat \ {0}
  <2>1. Populated \in 1..SortRanks /\ (segment_size_l(q) > 0 <=> sort_rank(q) < Populated) /\ segment_size_l(q) \in Nat
    BY <1>1, <1>2, PopulatedFirst, RankFacts
  <2>2. n = Populated
    BY <1>3 DEF Exchangers
  <2> QED
    BY <1>1, <1>2, <2>1, <2>2
<1>5. PieceFact(q) /\ SamplesFact(q)
  <2>1. Fact(q, 1) /\ Fact(q, 2)
    BY <1>1, <1>2
  <2> QED
    BY <2>1 DEF Fact
<1>6. SortedLines(m, segment_size_l(q), piece[q])
  BY <1>2, <1>5 DEF PieceFact
<1>7. SamplesGot(r)[k] = [s \in 1..m |-> SamplesOf(q, s, piece[q][s], n)] /\ SamplesGot(r)[k] = Sampling(q)
  BY <1>2 DEF SamplesGot, Sampling, q
<1>8. SampledOf(r)[k] = IF n < segment_size_l(q) THEN n ELSE segment_size_l(q)
  BY DEF SampledOf, q
<1>9. FromTask(r, 2, group(r) * SortRanks + k - 1) = FlattenSeq(Sampling(q))
  BY <1>2, <1>5 DEF SamplesFact, FromTask, q, Mate
<1> DEFINE g == SamplesGot(r)[k]
<1> HIDE DEF n, m
<1>10. ASSUME NEW s \in 1..m
       PROVE  /\ OfLine(n, g[s], s) /\ CountIn(g[s], Populates) = SampledOf(r)[k]
              /\ Remembers(n, k - 1, piece[q][s], g[s])
  <2>1. piece[q][s] \in Seq(Elements) /\ Len(piece[q][s]) = segment_size_l(q)
    BY <1>6 DEF SortedLines
  <2>2. g[s] = SamplesOf(q, s, piece[q][s], n)
    BY <1>7
  <2>3. s \in Nat /\ sort_rank(q) \in Nat /\ Len(piece[q][s]) > 0
    BY <1>2, <1>3, <1>4, <2>1
  <2> HIDE DEF g
  <2>4. OfLine(n, g[s], s) /\ CountIn(g[s], Populates) = PopulatedOf(n, piece[q][s]) /\ Remembers(n, sort_rank(q), piece[q][s], g[s])
    <3>1. PICK line, t : line = piece[q][s] /\ t = g[s] /\ t = SamplesOf(q, s, line, n) /\ line \in Seq(Elements)
      BY <2>1, <2>2
    <3>2. Len(line) > 0
      BY <2>3, <3>1
    <3>3. OfLine(n, t, s) /\ CountIn(t, Populates) = PopulatedOf(n, line) /\ Remembers(n, sort_rank(q), line, t)
      BY <1>3, <2>3, <3>1, <3>2, LineSampled
    <3> QED
      BY <3>1, <3>3
  <2>5. PopulatedOf(n, piece[q][s]) = SampledOf(r)[k]
    BY <1>8, <2>1 DEF PopulatedOf
  <2> QED
    BY <1>2, <2>4, <2>5
<1>11. g \in SampleLines(m)
  <2>1. \A s \in 1..m : g[s] \in Seq(Samples)
    BY <1>10 DEF OfLine
  <2>2. g = [s \in 1..m |-> g[s]]
    BY <1>7
  <2> HIDE DEF g
  <2> QED
    BY <2>1, <2>2 DEF SampleLines
<1>12. SampledOf(r)[k] \in 1..n
  BY <1>3, <1>4, <1>8
<1> QED
  BY <1>7, <1>9, <1>10, <1>11, <1>12 DEF n, m, q

LEMMA SamplesHave ==
  ASSUME InExchanges, NEW r \in Ranks, Returned(r, 2), Exchangers(r) # 0
  PROVE  SamplesAre(Exchangers(r), num_segments_l(r), SamplesGot(r), SampledOf(r)) /\ SampledOf(r) \in Numbers(Exchangers(r))
<1>1. \A k \in 1..Exchangers(r) : SampledOf(r)[k] \in 1..Exchangers(r)
  BY SamplesGotAre
<1>2. SamplesAre(Exchangers(r), num_segments_l(r), SamplesGot(r), SampledOf(r))
  BY SamplesGotAre DEF SamplesAre
<1>3. SampledOf(r) = [k \in 1..Exchangers(r) |-> SampledOf(r)[k]]
  BY DEF SampledOf
<1> QED
  BY <1>1, <1>2, <1>3 DEF Numbers

\* A task knows the samples of its own part.
LEMMA OwnSamples ==
  ASSUME InExchanges, NEW r \in Ranks, Returned(r, 2), NEW s \in 1..num_segments_l(r)
  PROVE  Knows(Exchangers(r), SamplesGot(r), s, sort_rank(r), piece[r][s])
<1> SUFFICES ASSUME NEW k \in 1..Exchangers(r), NEW i \in 1..Exchangers(r), SamplesGot(r)[k][s][i].rank = sort_rank(r)
             PROVE  /\ SamplesGot(r)[k][s][i].position \in 1..Len(piece[r][s])
                    /\ piece[r][s][SamplesGot(r)[k][s][i].position].v = SamplesGot(r)[k][s][i].value
  BY DEF Knows
<1>1. input \in Problems /\ ~Alone(r) /\ Exchangers(r) \in 0..SortRanks /\ sort_rank(r) \in Nat /\ SortRanks \in Nat
  <2>1. 2 \in Nat \ {0}
    OBVIOUS
  <2>2. input \in Problems /\ ~Alone(r) /\ Exchangers(r) \in 0..SortRanks
    BY <2>1, ReturnedFrom
  <2> QED
    BY <2>2, RankFacts
<1>2. Remembers(Exchangers(r), k - 1, piece[Mate(r, k)][s], SamplesGot(r)[k][s])
  BY SamplesGotAre
<1> DEFINE e == SamplesGot(r)[k][s][i]
<1>2a. e.rank \in {-1, k - 1} /\ (e.rank # -1 => e.position \in 1..Len(piece[Mate(r, k)][s]) /\ piece[Mate(r, k)][s][e.position].v = e.value)
  <2>1. PICK t : t = SamplesGot(r)[k][s]
    OBVIOUS
  <2>2. PICK line : line = piece[Mate(r, k)][s]
    OBVIOUS
  <2>3. Remembers(Exchangers(r), k - 1, line, t)
    BY <1>2, <2>1, <2>2
  <2>4. t[i].rank \in {-1, k - 1} /\ (t[i].rank # -1 => t[i].position \in 1..Len(line) /\ line[t[i].position].v = t[i].value)
    BY ONLY <2>3, i \in 1..Exchangers(r) DEF Remembers
  <2> QED
    BY <2>1, <2>2, <2>4
<1>2b. e.rank = sort_rank(r)
  OBVIOUS
<1> HIDE DEF e
<1>3. sort_rank(r) = k - 1 /\ e.rank # -1
  BY <1>1, <1>2a, <1>2b
<1>4. Mate(r, k) = r
  <2>1. Mate(r, sort_rank(r) + 1) = r
    BY <1>1, MembersAre
  <2>2. k = sort_rank(r) + 1
    BY <1>1, <1>3
  <2> QED
    BY <2>1, <2>2
<1>5. e.position \in 1..Len(piece[r][s]) /\ piece[r][s][e.position].v = e.value
  BY <1>2a, <1>3, <1>4
<1> QED
  BY <1>5 DEF e

LEMMA PiecesAre ==
  ASSUME InExchanges, NEW r \in Ranks, NEW n \in Nat \ {0}, Returned(r, n)
  PROVE  SortedLines(num_segments_l(r), segment_size_l(r), piece[r])
<1>1. Fact(r, 1)
  <2>1. 1 \in 1..n
    OBVIOUS
  <2> QED
    BY <2>1, ReturnedFrom
<1> QED
  BY <1>1 DEF Fact, PieceFact

\* What a task cuts off for each member of its group takes its lines apart.
LEMMA PartsAre ==
  ASSUME InExchanges, NEW r \in Ranks, Returned(r, 2), NEW all, all = AllOf(Exchangers(r), SamplesGot(r)),
         NEW part, part = Parts(r, [s \in DOMAIN piece[r] |-> Ends(r, s, piece[r][s], Arranged(all), Exchangers(r))], Exchangers(r))
  PROVE  /\ TakenApart(Exchangers(r), num_segments_l(r), segment_size_l(r), part)
         /\ Exchangers(r) # 0 => CutRight(Exchangers(r), num_segments_l(r), sort_rank(r), SamplesGot(r), piece[r], part)
<1> DEFINE n == Exchangers(r)
           m == num_segments_l(r)
           ends == [s \in 1..m |-> Ends(r, s, piece[r][s], Arranged(all), n)]
<1>0. 2 \in Nat \ {0}
  OBVIOUS
<1>1. /\ input \in Problems /\ ~Alone(r) /\ n \in 0..SortRanks /\ m \in Nat /\ SortRanks \in Nat /\ sort_rank(r) \in Nat
      /\ DOMAIN piece[r] = 1..m /\ segment_size_l(r) \in Nat /\ (n = 0 => m = 0)
  <2>1. input \in Problems /\ ~Alone(r) /\ n \in 0..SortRanks /\ m \in Nat /\ DOMAIN piece[r] = 1..m /\ segment_size_l(r) \in Nat
    BY <1>0, ReturnedFrom
  <2> QED
    BY <2>1, MembersAre, RankFacts
<1>2. SortedLines(m, segment_size_l(r), piece[r])
  BY <1>0, PiecesAre
<1>3. CASE n = 0
  <2>1. m = 0 /\ 1..0 = {}
    BY <1>1, <1>3
  <2>2. part = [d \in 1..0 |-> part[d]]
    BY <1>3 DEF Parts
  <2> HIDE DEF n, m
  <2>3. part \in [1..n -> [1..m -> Seq(Elements)]]
    BY <1>3, <2>1, <2>2
  <2>4. TakenApart(n, m, segment_size_l(r), part)
    BY <2>1, <2>3 DEF TakenApart
  <2> QED
    BY <1>3, <2>4 DEF n, m
<1>4. CASE n # 0
  <2>1. n \in Nat \ {0}
    BY <1>1, <1>4
  <2>2. ASSUME NEW s \in 1..m PROVE CutAt(n, SamplesGot(r), s, sort_rank(r), piece[r][s], ends[s])
    <3>1. PICK line \in Seq(Elements) : line = piece[r][s] /\ InOrderOfValues(line)
      BY <1>2 DEF SortedLines
    <3>2. SamplesAre(n, m, SamplesGot(r), SampledOf(r)) /\ SampledOf(r) \in Numbers(n)
      BY <1>4, SamplesHave
    <3>3. Knows(n, SamplesGot(r), s, sort_rank(r), line)
      BY <3>1, OwnSamples
    <3> HIDE DEF n, m
    <3>4. PICK c, u : c = SamplesGot(r) /\ u = SampledOf(r)
      OBVIOUS
    <3>5. SamplesAre(n, m, c, u) /\ u \in Numbers(n) /\ Knows(n, c, s, sort_rank(r), line)
      BY <3>2, <3>3, <3>4
    <3>6. CutAt(n, c, s, sort_rank(r), line, Ends(r, s, line, Arranged(AllOf(n, c)), n))
      BY <1>1, <2>1, <3>1, <3>5, LineCut
    <3>7. all = AllOf(n, c)
      BY <3>4 DEF n
    <3>8. ends[s] = Ends(r, s, line, Arranged(AllOf(n, c)), n)
      BY <3>1, <3>7
    <3> QED
      BY <3>1, <3>4, <3>6, <3>8
  <2>3. part = [d \in 1..n |-> [s \in 1..m |-> PartOf(piece[r][s], ends[s], d)]]
    <3> DEFINE E == [s \in DOMAIN piece[r] |-> Ends(r, s, piece[r][s], Arranged(all), n)]
    <3>1. E = ends
      BY <1>1
    <3>2. part = Parts(r, ends, n)
      BY <3>1
    <3>3. DOMAIN ends = 1..m
      OBVIOUS
    <3> HIDE DEF ends, n, m
    <3> QED
      BY <3>2, <3>3 DEF Parts, PartOf
  <2> HIDE DEF ends, n, m
  <2>4. TakenApart(n, m, segment_size_l(r), part)
    <3>1. PICK lines, size : lines = piece[r] /\ size = segment_size_l(r) /\ size \in Nat
      BY <1>1
    <3>2. SortedLines(m, size, lines) /\ LinesCut(n, m, lines, ends)
      BY <1>2, <2>2, <3>1 DEF LinesCut, CutAt
    <3>3. part = PartsOfLines(n, m, lines, ends)
      BY <2>3, <3>1 DEF PartsOfLines
    <3>4. TakenApart(n, m, size, part)
      BY <1>1, <2>1, <3>1, <3>2, <3>3, LinesTakenApart
    <3> QED
      BY <3>1, <3>4
  <2>5. CutRight(n, m, sort_rank(r), SamplesGot(r), piece[r], part)
    <3>1. PICK lines, c : lines = piece[r] /\ c = SamplesGot(r)
      OBVIOUS
    <3>2. part = PartsOfLines(n, m, lines, ends) /\ \A s \in 1..m : CutAt(n, c, s, sort_rank(r), lines[s], ends[s])
      BY <2>2, <2>3, <3>1 DEF PartsOfLines
    <3>3. CutRight(n, m, sort_rank(r), c, lines, part)
      BY <3>2 DEF CutRight
    <3> QED
      BY <3>1, <3>3
  <2> QED
    BY <2>4, <2>5 DEF n, m
<1> QED
  BY <1>3, <1>4

LEMMA SelectSplittersSays ==
  ASSUME InExchanges, NEW r \in Ranks, SelectSplitters(r)
  PROVE  /\ CutFact(r)'
         /\ Exchangers(r) # 0 => CutRight(Exchangers(r), num_segments_l(r), sort_rank(r), SamplesGot(r), piece[r], cut'[r])
<1> DEFINE n == num_sort_ranks[r]
           all == FlattenSeq([k \in 1..n |-> FromTask(r, 2, group(r) * SortRanks + k - 1)])
           ends == [s \in DOMAIN piece[r] |-> Ends(r, s, piece[r][s], Arranged(all), n)]
           part == Parts(r, ends, n)
           send == [q \in Ranks |-> IF q \in Members(r) THEN WithTotal(part[sort_rank(q) + 1]) ELSE << >>]
<1>0. 2 \in Nat \ {0} /\ 2 >= 2
  OBVIOUS
<1>1. /\ Returned(r, 2) /\ UNCHANGED << input, piece >> /\ cut' = [cut EXCEPT ![r] = part]
      /\ Post(r, "sizes", send, CountFrom(Members(r), num_segments_l(r) + 1))
  BY DEF SelectSplitters, Arranged
<1>2. n = Exchangers(r) /\ Len(posted[r]) = 2 /\ input \in Problems /\ ~Alone(r)
  BY <1>0, <1>1, ReturnedFrom
<1>3. all = AllOf(Exchangers(r), SamplesGot(r))
  <2>1. \A k \in 1..Exchangers(r) : FromTask(r, 2, group(r) * SortRanks + k - 1) = FlattenSeq(SamplesGot(r)[k])
    BY <1>1, SamplesGotAre
  <2>2. [k \in 1..n |-> FromTask(r, 2, group(r) * SortRanks + k - 1)] = [k \in 1..Exchangers(r) |-> FlattenSeq(SamplesGot(r)[k])]
    BY <1>2, <2>1
  <2> QED
    BY <2>2 DEF AllOf
<1> HIDE DEF all
<1>4. /\ TakenApart(Exchangers(r), num_segments_l(r), segment_size_l(r), part)
      /\ Exchangers(r) # 0 => CutRight(Exchangers(r), num_segments_l(r), sort_rank(r), SamplesGot(r), piece[r], part)
  <2>1. part = Parts(r, [s \in DOMAIN piece[r] |-> Ends(r, s, piece[r][s], Arranged(all), Exchangers(r))], Exchangers(r))
    BY <1>2
  <2> HIDE DEF part
  <2> QED
    BY <1>1, <1>3, <2>1, PartsAre
<1> HIDE DEF part, n
<1>5. cut'[r] = part
  BY <1>1 DEF InExchanges
<1>6. posted'[r][3].send = send
  <2>1. PICK recv : Post(r, "sizes", send, recv)
    BY <1>1
  <2> HIDE DEF send
  <2>2. posted'[r][Len(posted[r]) + 1].send = send
    BY <2>1, PostedNext
  <2> QED
    BY <1>2, <2>2
<1>7. Members(r) = Mates(r)
  BY <1>2 DEF Members, Mates, n
<1>8. \A q \in Ranks : q \in Mates(r) => posted'[r][3].send[q] = WithTotal(cut'[r][sort_rank(q) + 1])
  BY <1>5, <1>6, <1>7
<1>9. \A q : sort_rank(q)' = sort_rank(q)
  BY <1>1, SameExchange
<1> QED
  BY <1>1, <1>4, <1>5, <1>8, <1>9, SameExchange DEF CutFact

\* The sizes of the m lines of a part, and their sum.
SizesOf(m, part) == [s \in 1..m |-> Len(part[s])]

LEMMA TotalIs ==
  ASSUME NEW m \in Nat, NEW part \in [1..m -> Seq(Elements)]
  PROVE  /\ SizesOf(m, part) \in Numbers(m) /\ LengthsOf(m, part, SizesOf(m, part)) /\ IsSequence(part) /\ Len(part) = m
         /\ \A s \in 1..m : Len(part[s]) \in Nat /\ WithTotal(part)[s] = Len(part[s])
         /\ Last(WithTotal(part)) = SumOf(SizesOf(m, part))
         /\ FlattenSeq(part) \in Seq(Elements) /\ Len(FlattenSeq(part)) = Last(WithTotal(part))
<1> DEFINE l == SizesOf(m, part)
<1>1. \A s \in 1..m : part[s] \in Seq(Elements) /\ Len(part[s]) \in Nat
  <2>1. \A s \in 1..m : part[s] \in Seq(Elements)
    OBVIOUS
  <2> QED
    BY <2>1, LenProperties
<1>2. l \in Numbers(m) /\ LengthsOf(m, part, l) /\ \A s \in 1..m : l[s] = Len(part[s])
  BY <1>1 DEF Numbers, LengthsOf, SizesOf
<1>3. IsSequence(l) /\ Len(l) = m
  BY <1>2, NumbersAreSequences DEF Numbers
<1>4. IsSequence(part) /\ Len(part) = m
  BY NumbersAreSequences
<1>5. WithTotal(part) = Append(l, SumOf(l))
  <2>1. DOMAIN part = 1..m
    OBVIOUS
  <2> QED
    BY <2>1 DEF WithTotal, SizesOf
<1> HIDE DEF l
<1>6. /\ Len(Append(l, SumOf(l))) = m + 1 /\ Append(l, SumOf(l))[m + 1] = SumOf(l)
      /\ \A s \in 1..m : Append(l, SumOf(l))[s] = l[s]
  BY <1>3, AppendFacts
<1>7. Last(WithTotal(part)) = SumOf(l)
  BY <1>5, <1>6 DEF Last
<1>8. FlattenSeq(part) \in Seq(Elements) /\ Len(FlattenSeq(part)) = SumOf(l)
  BY <1>1, <1>2, <1>4, FlattenSum
<1> QED
  BY <1>1, <1>2, <1>4, <1>5, <1>6, <1>7, <1>8 DEF l

\* What a member of the group gets, at the latest.
LEMMA PartSent ==
  ASSUME InExchanges, NEW r \in Ranks, NEW n \in Nat \ {0}, n >= 3, Returned(r, n), NEW q \in Ranks, q \in Mates(r)
  PROVE  /\ cut[r][sort_rank(q) + 1] \in [1..num_segments_l(r) -> Seq(Elements)] /\ num_segments_l(r) \in Nat
         /\ FlattenSeq(cut[r][sort_rank(q) + 1]) \in Seq(Elements)
         /\ Len(FlattenSeq(cut[r][sort_rank(q) + 1])) = Last(posted[r][3].send[q])
<1>1. input \in Problems /\ Exchangers(r) \in 0..SortRanks /\ num_segments_l(r) \in Nat /\ Fact(r, 3)
  <2>1. 3 \in 1..n
    OBVIOUS
  <2> QED
    BY <2>1, ReturnedFrom
<1>2. CutFact(r)
  BY <1>1 DEF Fact
<1>3. sort_rank(q) + 1 \in 1..Exchangers(r)
  BY <1>1, MateOf
<1>4. cut[r][sort_rank(q) + 1] \in [1..num_segments_l(r) -> Seq(Elements)]
  BY <1>2, <1>3 DEF CutFact, TakenApart
<1>5. posted[r][3].send[q] = WithTotal(cut[r][sort_rank(q) + 1])
  BY <1>2 DEF CutFact
<1> QED
  BY <1>1, <1>4, <1>5, TotalIs

\* Elements to each member of the group, one for each that was cut off for it.
Carries(r, send) ==
  \A q \in Ranks :
    IF q \in Members(r)
    THEN DOMAIN send[q] = DOMAIN FlattenSeq(cut[r][sort_rank(q) + 1]) /\ send[q] = [k \in DOMAIN send[q] |-> send[q][k]]
    ELSE send[q] = << >>
Expects(r, recv) == \A q \in Ranks : recv[q] = IF q \in Members(r) THEN Last(Sizes(r, q)) ELSE 0

LEMMA ElementsSent ==
  ASSUME InExchanges, NEW r \in Ranks, Step(r), NEW n \in Nat \ {0}, n >= 3, Returned(r, n),
         NEW op, NEW send, NEW recv, Post(r, op, send, recv), Carries(r, send), Expects(r, recv)
  PROVE  ElementsFact(r, n + 1)'
<1>1. Grows /\ input' = input
  BY StepGrows DEF Grows
<1>2. Len(posted[r]) = n /\ Members(r) = Mates(r) /\ \A q \in Ranks : Len(posted[q]) \in Nat /\ Len(posted[q]) >= n
  <2>1. n >= 2
    OBVIOUS
  <2> QED
    BY <2>1, ReturnedFrom DEF Members, Mates
<1>3. posted'[r][n + 1].send = send /\ posted'[r][n + 1].recv = recv
  BY <1>2, PostedNext
<1>4. \A q \in Ranks : posted'[q][3] = posted[q][3]
  <2>1. \A q \in Ranks : 3 \in 1..Len(posted[q])
    BY <1>2
  <2> QED
    BY <1>1, <2>1 DEF Grows, Grown
<1>5. ASSUME NEW q \in Ranks PROVE Len(send[q]) = IF q \in Mates(r) THEN Last(posted[r][3].send[q]) ELSE 0
  <2>1. CASE q \in Mates(r)
    <3>1. PICK t, x : t = FlattenSeq(cut[r][sort_rank(q) + 1]) /\ x = send[q]
      OBVIOUS
    <3>2. t \in Seq(Elements) /\ Len(t) = Last(posted[r][3].send[q])
      BY <2>1, <3>1, PartSent
    <3>3. DOMAIN x = DOMAIN t /\ x = [k \in DOMAIN x |-> x[k]]
      BY <1>2, <2>1, <3>1 DEF Carries
    <3>4. x = [k \in 1..Len(t) |-> x[k]] /\ Len(t) \in Nat
      BY <3>2, <3>3, LenProperties
    <3>5. Len(x) = Len(t)
      BY <3>4, FunctionIs
    <3> QED
      BY <2>1, <3>1, <3>2, <3>5
  <2>2. CASE q \notin Mates(r)
    <3>1. send[q] = << >>
      BY <1>2, <2>2 DEF Carries
    <3> QED
      BY <2>2, <3>1, EmptySeq
  <2> QED
    BY <2>1, <2>2
<1>6. \A q \in Ranks : recv[q] = IF q \in Mates(r) THEN Last(posted[q][3].send[r]) ELSE 0
  BY <1>2 DEF Expects, Sizes, FromTask
<1> QED
  BY <1>1, <1>3, <1>4, <1>5, <1>6, SameExchange DEF ElementsFact

LEMMA SendValuesSays ==
  ASSUME InExchanges, NEW r \in Ranks, SendValues(r) PROVE ElementsFact(r, 4)'
<1>1. Step(r) /\ Returned(r, 3)
  BY DEF Step, SendValues
<1> DEFINE send == [q \in Ranks |-> IF q \in Members(r) THEN LET line == FlattenSeq(cut[r][sort_rank(q) + 1])
                                                         IN [k \in DOMAIN line |-> line[k].v] ELSE << >>]
           recv == [q \in Ranks |-> IF q \in Members(r) THEN Last(Sizes(r, q)) ELSE 0]
<1>2. Post(r, "values", send, recv)
  BY DEF SendValues, SendParts
<1>3. Carries(r, send)
  BY DEF Carries
<1>4. Expects(r, recv)
  BY DEF Expects
<1> HIDE DEF send, recv
<1>5. 3 \in Nat \ {0} /\ 3 >= 3 /\ 3 + 1 = 4
  OBVIOUS
<1>6. ElementsFact(r, 3 + 1)'
  BY <1>1, <1>2, <1>3, <1>4, <1>5, ElementsSent
<1> QED
  BY <1>5, <1>6

LEMMA SendIndicesSays ==
  ASSUME InExchanges, NEW r \in Ranks, SendIndices(r) PROVE ElementsFact(r, 5)'
<1>1. Step(r) /\ Returned(r, 4)
  BY DEF Step, SendIndices
<1> DEFINE send == [q \in Ranks |-> IF q \in Members(r) THEN LET line == FlattenSeq(cut[r][sort_rank(q) + 1])
                                                         IN [k \in DOMAIN line |-> line[k].i] ELSE << >>]
           recv == [q \in Ranks |-> IF q \in Members(r) THEN Last(Sizes(r, q)) ELSE 0]
<1>2. Post(r, "indices", send, recv)
  BY DEF SendIndices, SendParts
<1>3. Carries(r, send)
  BY DEF Carries
<1>4. Expects(r, recv)
  BY DEF Expects
<1> HIDE DEF send, recv
<1>5. 4 \in Nat \ {0} /\ 4 >= 3 /\ 4 + 1 = 5
  OBVIOUS
<1>6. ElementsFact(r, 4 + 1)'
  BY <1>1, <1>2, <1>3, <1>4, <1>5, ElementsSent
<1> QED
  BY <1>5, <1>6

\* What is cut off for a task is what it gets.
LEMMA GotIs ==
  ASSUME InExchanges, NEW r \in Ranks, ~Alone(r), \A q \in Ranks : Len(posted[q]) >= 3,
         NEW s \in 1..num_segments_l(r), NEW k \in 1..Exchangers(r)
  PROVE  Got(r, s)[k] = Len(cut[Mate(r, k)][sort_rank(r) + 1][s]) /\ Got(r, s)[k] \in Nat
<1>1. input \in Problems /\ Exchangers(r) \in 0..SortRanks /\ num_segments_l(r) \in Nat
  <2>1. input \in Problems
    BY Behind
  <2> QED
    BY <2>1, MembersAre
<1>2. PICK q \in Ranks : q = Mate(r, k) /\ r \in Mates(q) /\ Exchangers(q) = Exchangers(r) /\ num_segments_l(q) = num_segments_l(r)
  BY <1>1, MateIs
<1>3. CutFact(q)
  <2>1. 3 \in 1..Len(posted[q])
    BY Behind
  <2>2. Fact(q, 3)
    BY <2>1 DEF InExchanges
  <2> QED
    BY <2>2 DEF Fact
<1>4. sort_rank(r) + 1 \in 1..Exchangers(q)
  BY <1>1, <1>2, MateOf
<1>5. PICK part : part = cut[q][sort_rank(r) + 1]
  OBVIOUS
<1>6. part \in [1..num_segments_l(r) -> Seq(Elements)]
  BY <1>2, <1>3, <1>4, <1>5 DEF CutFact, TakenApart
<1>7. WithTotal(part)[s] = Len(part[s]) /\ Len(part[s]) \in Nat
  <2>1. PICK m \in Nat : m = num_segments_l(r)
    BY <1>1
  <2>2. part \in [1..m -> Seq(Elements)] /\ s \in 1..m
    BY <1>6, <2>1
  <2>3. \A t \in 1..m : Len(part[t]) \in Nat /\ WithTotal(part)[t] = Len(part[t])
    BY <2>2, TotalIs
  <2> QED
    BY <2>2, <2>3
<1>8. posted[q][3].send[r] = WithTotal(part)
  BY <1>2, <1>3, <1>5 DEF CutFact
<1>9. Got(r, s)[k] = posted[q][3].send[r][s]
  BY <1>2 DEF Got
<1> QED
  BY <1>2, <1>5, <1>7, <1>8, <1>9

LEMMA GotType ==
  ASSUME InExchanges, NEW r \in Ranks, ~Alone(r), \A q \in Ranks : Len(posted[q]) >= 3, NEW s \in 1..num_segments_l(r)
  PROVE  Got(r, s) \in [1..Exchangers(r) -> Nat] /\ Got(r, s) \in Numbers(Exchangers(r)) /\ SumOf(Got(r, s)) \in Int
<1>1. Exchangers(r) \in Nat
  <2>1. input \in Problems /\ SortRanks \in Nat
    BY Behind, RankFacts
  <2> QED
    BY <2>1, MembersAre
<1>2. \A k \in 1..Exchangers(r) : Got(r, s)[k] \in Nat
  BY GotIs
<1>3. Got(r, s) = [k \in 1..Exchangers(r) |-> Got(r, s)[k]]
  BY DEF Got
<1>4. Got(r, s) \in [1..Exchangers(r) -> Nat]
  BY <1>2, <1>3
<1>5. Got(r, s) \in Numbers(Exchangers(r))
  BY <1>4 DEF Numbers
<1> QED
  BY <1>1, <1>4, <1>5, SumType

LEMMA MergedLengths ==
  ASSUME InExchanges, NEW r \in Ranks, Returned(r, Exchanges), NEW s \in 1..num_segments_l(r)
  PROVE  Len(MergedLine(r, s)) = SumOf(Got(r, s)) /\ Len(MergedLine(r, s)) \in Nat
<1> DEFINE n == Exchangers(r)
           got == [k \in 1..n |-> Received(r, group(r) * SortRanks + k - 1, s)]
           X == UNION { { got[k][i] : i \in 1..Got(r, s)[k] } : k \in 1..n }
<1>1. Exchanges \in Nat \ {0} /\ Exchanges >= 3
  BY DEF Exchanges
<1>2. /\ ~Alone(r) /\ num_sort_ranks[r] = n /\ n \in Nat /\ \A q \in Ranks : Len(posted[q]) >= 3
  <2>1. /\ ~Alone(r) /\ num_sort_ranks[r] = n /\ n \in 0..SortRanks /\ input \in Problems
        /\ \A q \in Ranks : Len(posted[q]) \in Nat /\ Len(posted[q]) >= Exchanges
    BY <1>1, ReturnedFrom
  <2> QED
    BY <1>1, <2>1, RankFacts
<1>3. Got(r, s) \in [1..n -> Nat] /\ Got(r, s) \in Numbers(n)
  BY <1>2, GotType
<1>4. ASSUME NEW k \in 1..n PROVE Len(got[k]) = Got(r, s)[k] /\ got[k] \in Seq(X)
  <2>1. Got(r, s)[k] = Sizes(r, Mate(r, k))[s]
    BY DEF Got, Sizes, FromTask
  <2>2. got[k] = Received(r, Mate(r, k), s)
    BY DEF Mate
  <2>3. got[k] = [i \in 1..Got(r, s)[k] |-> got[k][i]]
    BY <2>1, <2>2 DEF Received
  <2>4. \A i \in 1..Got(r, s)[k] : got[k][i] \in X
    OBVIOUS
  <2>5. Got(r, s)[k] \in Nat
    BY <1>3
  <2> HIDE DEF X, got, n
  <2>6. got[k] \in [1..Got(r, s)[k] -> X]
    BY <2>3, <2>4
  <2> QED
    BY <2>5, <2>6, NumbersAreSequences
<1>5. IsSequence(got) /\ Len(got) = n
  <2>1. got = [k \in 1..n |-> got[k]]
    OBVIOUS
  <2> HIDE DEF got, n
  <2> QED
    BY <1>2, <2>1, FunctionIs
<1>6. MergedLine(r, s) = StableSort(FlattenSeq(got))
  BY <1>2 DEF MergedLine
<1> HIDE DEF got, X, n
<1>7. LengthsOf(n, got, Got(r, s))
  BY <1>4 DEF LengthsOf
<1>8. FlattenSeq(got) \in Seq(X) /\ Len(FlattenSeq(got)) = SumOf(Got(r, s))
  BY <1>2, <1>3, <1>4, <1>5, <1>7, FlattenSum
<1>9. IsSequence(FlattenSeq(got)) /\ Len(FlattenSeq(got)) \in Nat
  BY <1>8, LenProperties DEF IsSequence
<1>10. Len(StableSort(FlattenSeq(got))) = Len(FlattenSeq(got))
  BY <1>9, StableSortLength
<1> QED
  BY <1>6, <1>8, <1>9, <1>10

LEMMA MergeSays ==
  ASSUME InExchanges, NEW r \in Ranks, Merge(r), posted' # posted PROVE SurplusFact(r)'
<1> DEFINE m == num_segments_l(r)
           lines == [s \in 1..m |-> MergedLine(r, s)]
<1>1. /\ Returned(r, Exchanges) /\ input' = input /\ merged' = [merged EXCEPT ![r] = lines] /\ Exchanges \in Nat \ {0} /\ Exchanges >= 4
      /\ Post(r, "surplus", ToEach(Members(r), Surplus(r, lines)), CountFrom(Members(r), m))
  <2>1. input.bound
    BY DEF Merge
  <2>2. Exchanges \in Nat \ {0} /\ Exchanges >= 4
    BY DEF Exchanges
  <2>3. Returned(r, Exchanges) /\ input' = input /\ merged' = [merged EXCEPT ![r] = lines]
    BY DEF Merge
  <2> HIDE DEF lines, m
  <2>4. Post(r, "surplus", ToEach(Members(r), Surplus(r, lines)), CountFrom(Members(r), m))
    BY <2>1 DEF Merge, lines, m
  <2> QED
    BY <2>2, <2>3, <2>4
<1>2. /\ Len(posted[r]) = Exchanges /\ num_sort_ranks[r] = Exchangers(r)
  BY <1>1, ReturnedFrom
<1>3. ASSUME NEW s \in 1..m PROVE Len(lines[s]) = SumOf(Got(r, s)) /\ Len(lines[s]) \in Nat
  BY <1>1, MergedLengths
<1>4. DOMAIN lines = 1..m
  OBVIOUS
<1>5. merged'[r] = lines
  BY <1>1 DEF InExchanges
<1> HIDE DEF lines, m
<1>6. posted'[r][Exchanges + 1].send = ToEach(Members(r), Surplus(r, lines))
  <2>1. PICK send, recv : Post(r, "surplus", send, recv) /\ send = ToEach(Members(r), Surplus(r, lines))
    BY <1>1
  <2>2. posted'[r][Len(posted[r]) + 1].send = send
    BY <2>1, PostedNext
  <2> QED
    BY <1>2, <2>1, <2>2
<1>7. Members(r) = Mates(r)
  BY <1>2 DEF Members, Mates
<1>8. ASSUME NEW q \in Ranks, q \in Mates(r), NEW s \in 1..m
      PROVE  posted'[r][Exchanges + 1].send[q][s] = SumOf(Got(r, s)) - segment_size_l(r)
  <2>1. posted'[r][Exchanges + 1].send[q] = Surplus(r, lines)
    BY <1>6, <1>7, <1>8 DEF ToEach
  <2> QED
    BY <1>3, <1>4, <2>1 DEF Surplus
<1>9. \A s : Got(r, s)' = Got(r, s)
  <2>1. Grows
    <3>1. Step(r)
      BY DEF Step
    <3> QED
      BY <3>1, StepGrows
  <2> QED
    BY <1>1, <1>2, <2>1, GotKept
<1>10. /\ Ranks' = Ranks /\ Exchanges' = Exchanges /\ Mates(r)' = Mates(r) /\ segment_size_l(r)' = segment_size_l(r)
       /\ num_segments_l(r)' = m
  BY <1>1, SameExchange DEF m
<1> QED
  BY <1>3, <1>4, <1>5, <1>8, <1>9, <1>10 DEF SurplusFact

\* What members of a group say of their surplus are numbers, and which.
LEMMA SurplusIs ==
  ASSUME InExchanges, NEW r \in Ranks, ~Alone(r), \A q \in Ranks : Len(posted[q]) >= Exchanges + 1,
         NEW s \in 1..num_segments_l(r), NEW k \in 1..Exchangers(r)
  PROVE  /\ posted[Mate(r, k)][Exchanges + 1].send[r][s] = SumOf(Got(Mate(r, k), s)) - segment_size_l(Mate(r, k))
         /\ posted[Mate(r, k)][Exchanges + 1].send[r][s] \in Int
<1>1. /\ input \in Problems /\ Exchangers(r) \in 0..SortRanks /\ Exchanges \in 4..5
      /\ \A q \in Ranks : Len(posted[q]) \in Nat /\ Len(posted[q]) >= 3
  <2>1. input \in Problems /\ Exchanges \in 4..5 /\ \A q \in Ranks : Len(posted[q]) \in Nat
    BY Behind DEF Exchanges
  <2> QED
    BY <2>1, MembersAre
<1>2. PICK q \in Ranks : q = Mate(r, k) /\ r \in Mates(q) /\ ~Alone(q) /\ num_segments_l(q) = num_segments_l(r)
  BY <1>1, MateIs
<1>3. SurplusFact(q)
  <2>1. Exchanges + 1 \in 1..Len(posted[q])
    BY <1>1
  <2>2. Fact(q, Exchanges + 1)
    BY <2>1 DEF InExchanges
  <2> QED
    BY <2>2 DEF Fact
<1>4. posted[q][Exchanges + 1].send[r][s] = SumOf(Got(q, s)) - segment_size_l(q)
  BY <1>2, <1>3 DEF SurplusFact
<1>5. SumOf(Got(q, s)) \in Int /\ segment_size_l(q) \in Nat
  BY <1>1, <1>2, GotType, RankFacts
<1> QED
  BY <1>2, <1>4, <1>5

LEMMA SurplusesAre ==
  ASSUME InExchanges, NEW r \in Ranks, ~Alone(r), \A q \in Ranks : Len(posted[q]) >= Exchanges + 1,
         NEW s \in 1..num_segments_l(r), NEW first \in Nat, NEW n \in Int, first + n <= Exchangers(r)
  PROVE  /\ Surpluses(r, s, first, n) \in Numbers(n)
         /\ \A k \in 1..n : Surpluses(r, s, first, n)[k] = SumOf(Got(Mate(r, first + k), s)) - segment_size_l(Mate(r, first + k))
<1>1. Exchangers(r) \in Nat
  <2>1. input \in Problems /\ SortRanks \in Nat
    BY Behind, RankFacts
  <2> QED
    BY <2>1, MembersAre
<1>2. \A k \in 1..n : first + k \in 1..Exchangers(r)
  BY <1>1
<1>3. ASSUME NEW k \in 1..n
      PROVE  /\ Surpluses(r, s, first, n)[k] = SumOf(Got(Mate(r, first + k), s)) - segment_size_l(Mate(r, first + k))
             /\ Surpluses(r, s, first, n)[k] \in Int
  <2>1. PICK j \in 1..Exchangers(r) : j = first + k
    BY <1>2
  <2>2. Surpluses(r, s, first, n)[k] = posted[Mate(r, j)][Exchanges + 1].send[r][s]
    BY <2>1 DEF Surpluses
  <2> QED
    BY <2>1, <2>2, SurplusIs
<1>4. Surpluses(r, s, first, n) = [k \in 1..n |-> Surpluses(r, s, first, n)[k]]
  BY DEF Surpluses
<1> QED
  BY <1>3, <1>4 DEF Numbers

\* The places of a member.
LEMMA PlaceIs ==
  ASSUME InExchanges, NEW r \in Ranks, ~Alone(r), num_segments_l(r) # 0
  PROVE  /\ Exchangers(r) \in Nat /\ sort_rank(r) \in Nat /\ sort_rank(r) + 1 <= Exchangers(r)
         /\ Exchangers(r) - sort_rank(r) \in Nat /\ group(r) * SortRanks \in Nat
<1>1. input \in Problems /\ SortRanks \in Nat /\ sort_rank(r) \in Nat /\ group(r) \in Nat
  BY Behind, RankFacts, RankParts
<1>2. Exchangers(r) \in 0..SortRanks /\ sort_rank(r) + 1 \in 1..Exchangers(r)
  BY <1>1, MembersAre
<1>3. group(r) * SortRanks \in Nat
  BY <1>1
<1> QED
  BY <1>1, <1>2, <1>3

\* What goes to the neighbours, as the task works it out.
LEMMA ShiftsAre ==
  ASSUME InExchanges, NEW r \in Ranks, ~Alone(r), num_sort_ranks[r] = Exchangers(r),
         \A q \in Ranks : Len(posted[q]) >= Exchanges + 1, NEW s \in 1..num_segments_l(r)
  PROVE  send_left(r, s) = ToLeft(r, s) /\ send_right(r, s) = ToRight(r, s) /\ ToLeft(r, s) \in Int /\ ToRight(r, s) \in Int
<1> DEFINE n == Exchangers(r)
           j == sort_rank(r)
           b == group(r) * SortRanks
<1>1. n \in Nat /\ j \in Nat /\ j + 1 <= n /\ n - j \in Nat /\ b \in Nat
  <2>1. num_segments_l(r) # 0
    OBVIOUS
  <2> QED
    BY <2>1, PlaceIs
<1>2. \A k : Mate(r, k) = b + k - 1
  BY DEF Mate
<1>3. send_left(r, s) = SumOf([k \in 1..((n - 1) - j + 1) |-> posted[b + j + k - 1][Exchanges + 1].send[r][s]])
  BY DEF send_left, surplus, FromTask
<1>4. send_right(r, s) = SumOf([k \in 1..(j - 0 + 1) |-> posted[b + 0 + k - 1][Exchanges + 1].send[r][s]])
  BY DEF send_right, surplus, FromTask
<1> HIDE DEF b
<1>5. [k \in 1..((n - 1) - j + 1) |-> posted[b + j + k - 1][Exchanges + 1].send[r][s]] = Surpluses(r, s, j, n - j)
  <2> HIDE DEF n, j
  <2>1. (n - 1) - j + 1 = n - j /\ \A k \in 1..(n - j) : b + j + k - 1 = b + (j + k) - 1
    BY <1>1
  <2> QED
    BY <1>2, <2>1 DEF Surpluses
<1>6. [k \in 1..(j - 0 + 1) |-> posted[b + 0 + k - 1][Exchanges + 1].send[r][s]] = Surpluses(r, s, 0, j + 1)
  <2> HIDE DEF n, j
  <2>1. j - 0 + 1 = j + 1 /\ \A k \in 1..(j + 1) : b + 0 + k - 1 = b + (0 + k) - 1
    BY <1>1
  <2> QED
    BY <1>2, <2>1 DEF Surpluses
<1>7. Surpluses(r, s, j, n - j) \in Numbers(n - j) /\ Surpluses(r, s, 0, j + 1) \in Numbers(j + 1)
  <2>1. j + (n - j) <= n /\ 0 + (j + 1) <= n /\ 0 \in Nat /\ n - j \in Int /\ j + 1 \in Int
    BY <1>1
  <2> QED
    BY <1>1, <2>1, SurplusesAre
<1>8. SumOf(Surpluses(r, s, j, n - j)) \in Int /\ SumOf(Surpluses(r, s, 0, j + 1)) \in Int
  <2>1. n - j \in Nat /\ j + 1 \in Nat
    BY <1>1
  <2> HIDE DEF n, j
  <2> QED
    BY <1>7, <2>1, SumType
<1> QED
  BY <1>3, <1>4, <1>5, <1>6, <1>8 DEF ToLeft, ToRight

\* t is a sequence of n elements; f are m sequences, of so many elements.
SequenceOf(n, t) == t = [k \in 1..n |-> t[k]]
SequencesOf(m, f, c) ==
  /\ f = [s \in 1..m |-> f[s]] /\ c \in Numbers(m)
  /\ \A s \in 1..m : c[s] \in Nat /\ SequenceOf(c[s], f[s])

LEMMA LinesLength ==
  ASSUME NEW m \in Nat, NEW f, NEW c, SequencesOf(m, f, c)
  PROVE  Len(FlattenSeq(f)) = SumOf(c)
<1> DEFINE X == UNION { { f[s][k] : k \in 1..c[s] } : s \in 1..m }
<1>1. ASSUME NEW s \in 1..m PROVE f[s] \in Seq(X) /\ Len(f[s]) = c[s]
  <2>1. c[s] \in Nat /\ f[s] = [k \in 1..c[s] |-> f[s][k]]
    BY DEF SequencesOf, SequenceOf
  <2>2. \A k \in 1..c[s] : f[s][k] \in X
    OBVIOUS
  <2> HIDE DEF X
  <2>3. f[s] \in [1..c[s] -> X]
    BY <2>1, <2>2
  <2> QED
    BY <2>1, <2>3, NumbersAreSequences
<1> HIDE DEF X
<1>2. IsSequence(f) /\ Len(f) = m
  BY FunctionIs DEF SequencesOf
<1>3. LengthsOf(m, f, c) /\ c \in Numbers(m)
  BY <1>1 DEF LengthsOf, SequencesOf
<1> QED
  BY <1>1, <1>2, <1>3, FlattenSum

LEMMA ReadIs ==
  ASSUME NEW line, NEW from \in Int, NEW to \in Int, NEW n \in Int, n = to - from + 1, NEW t, t = Read(line, from, to)
  PROVE  Positive(n) \in Nat /\ SequenceOf(Positive(n), t)
<1>1. Positive(n) \in Nat
  BY DEF Positive
<1> QED
  BY <1>1 DEF Read, SequenceOf

LEMMA LeftmostIs ==
  ASSUME NEW r, NEW s, send_left(r, s) \in Int
  PROVE  Positive(send_left(r, s)) \in Nat /\ SequenceOf(Positive(send_left(r, s)), Leftmost(r, s))
<1>1. PICK x \in Int : x = send_left(r, s)
  OBVIOUS
<1>2. 1 \in Int /\ x - 1 + 1 = x
  OBVIOUS
<1>3. PICK line : line = merged[r][s]
  OBVIOUS
<1>4. Leftmost(r, s) = Read(line, 1, x)
  BY <1>1, <1>3 DEF Leftmost
<1>5. PICK t : t = Read(line, 1, x)
  OBVIOUS
<1>6. Positive(x) \in Nat /\ SequenceOf(Positive(x), t)
  BY <1>2, <1>5, ReadIs
<1> QED
  BY <1>1, <1>4, <1>5, <1>6

LEMMA RightmostIs ==
  ASSUME NEW r, NEW s, send_right(r, s) \in Int, Len(merged[r][s]) \in Nat
  PROVE  Positive(send_right(r, s)) \in Nat /\ SequenceOf(Positive(send_right(r, s)), Rightmost(r, s))
<1>1. PICK p \in Nat : p = Positive(send_right(r, s))
  BY DEF Positive
<1>2. PICK l \in Nat : l = Len(merged[r][s])
  OBVIOUS
<1>3. l - p + 1 \in Int /\ l - (l - p + 1) + 1 = p /\ l \in Int
  OBVIOUS
<1>4. PICK line, from : line = merged[r][s] /\ from = l - p + 1
  OBVIOUS
<1>5. Rightmost(r, s) = Read(line, from, l)
  BY <1>1, <1>2, <1>4 DEF Rightmost
<1>6. from \in Int /\ l - from + 1 = p
  BY <1>3, <1>4
<1>7. PICK t : t = Read(line, from, l)
  OBVIOUS
<1>8. Positive(p) \in Nat /\ SequenceOf(Positive(p), t)
  <2>1. p = l - from + 1 /\ p \in Int
    BY <1>6
  <2> QED
    BY <1>3, <1>6, <1>7, <2>1, ReadIs
<1>9. Positive(p) = p
  BY DEF Positive
<1> QED
  BY <1>1, <1>5, <1>7, <1>8, <1>9

LEMMA BalanceSays ==
  ASSUME InExchanges, NEW r \in Ranks, Balance(r) PROVE ShiftFact(r)'
<1> DEFINE m == num_segments_l(r)
           left == [s \in DOMAIN merged[r] |-> Leftmost(r, s)]
           right == [s \in DOMAIN merged[r] |-> Rightmost(r, s)]
           fromLeft == [s \in DOMAIN merged[r] |-> Positive(-send_left(r, s))]
           fromRight == [s \in DOMAIN merged[r] |-> Positive(-send_right(r, s))]
           send == [q \in Ranks |-> IF q = r - 1 THEN FlattenSeq(left) ELSE IF q = r + 1 THEN FlattenSeq(right) ELSE << >>]
           recv == [q \in Ranks |-> IF q = r - 1 THEN SumOf(fromLeft) ELSE IF q = r + 1 THEN SumOf(fromRight) ELSE 0]
<1>1. Returned(r, Exchanges + 1) /\ input' = input /\ Exchanges \in 4..5 /\ Post(r, "neighbours", send, recv)
  <2>1. Exchanges \in 4..5
    BY DEF Exchanges
  <2> QED
    BY <2>1 DEF Balance, OverLines
<1>2. /\ input \in Problems /\ ~Alone(r) /\ Len(posted[r]) = Exchanges + 1 /\ num_sort_ranks[r] = Exchangers(r)
      /\ m \in Nat /\ Fact(r, Exchanges + 1)
      /\ \A q \in Ranks : Len(posted[q]) \in Nat /\ Len(posted[q]) >= Exchanges + 1
  <2>1. Exchanges + 1 \in Nat \ {0} /\ Exchanges + 1 >= 2 /\ Exchanges + 1 \in 1..(Exchanges + 1)
    BY <1>1
  <2> QED
    BY <1>1, <2>1, ReturnedFrom
<1>3. DOMAIN merged[r] = 1..m /\ \A s \in 1..m : Len(merged[r][s]) \in Nat
  BY <1>2 DEF Fact, SurplusFact
<1>4. \A s \in 1..m : send_left(r, s) = ToLeft(r, s) /\ send_right(r, s) = ToRight(r, s) /\ ToLeft(r, s) \in Int /\ ToRight(r, s) \in Int
  BY <1>2, ShiftsAre
<1> DEFINE ToL == [s \in 1..m |-> Positive(ToLeft(r, s))]
           ToR == [s \in 1..m |-> Positive(ToRight(r, s))]
           FromL == [s \in 1..m |-> Positive(-ToLeft(r, s))]
           FromR == [s \in 1..m |-> Positive(-ToRight(r, s))]
<1>5. fromLeft = FromL /\ fromRight = FromR
  BY <1>3, <1>4
<1> HIDE DEF m
<1>6. Len(FlattenSeq(left)) = SumOf(ToL)
  <2>1. left = [s \in 1..m |-> left[s]]
    BY <1>3
  <2>2. ASSUME NEW s \in 1..m PROVE ToL[s] \in Nat /\ SequenceOf(ToL[s], left[s])
    <3>1. Positive(send_left(r, s)) \in Nat /\ SequenceOf(Positive(send_left(r, s)), Leftmost(r, s))
      BY <1>4, LeftmostIs
    <3>2. left[s] = Leftmost(r, s) /\ ToL[s] = Positive(send_left(r, s))
      BY <1>3, <1>4
    <3> HIDE DEF left, ToL
    <3> QED
      BY <3>1, <3>2
  <2>3. ToL \in Numbers(m)
    <3>1. ToL = [s \in 1..m |-> ToL[s]]
      OBVIOUS
    <3>2. \A s \in 1..m : ToL[s] \in Int
      <4>1. \A s \in 1..m : ToL[s] \in Nat
        BY <2>2
      <4> HIDE DEF ToL
      <4> QED
        BY <4>1
    <3> HIDE DEF ToL
    <3> QED
      BY <3>1, <3>2 DEF Numbers
  <2> HIDE DEF left, ToL
  <2>4. SequencesOf(m, left, ToL)
    BY <2>1, <2>2, <2>3 DEF SequencesOf
  <2> QED
    BY <1>2, <2>4, LinesLength DEF m
<1>7. Len(FlattenSeq(right)) = SumOf(ToR)
  <2>1. right = [s \in 1..m |-> right[s]]
    BY <1>3
  <2>2. ASSUME NEW s \in 1..m PROVE ToR[s] \in Nat /\ SequenceOf(ToR[s], right[s])
    <3>1. Positive(send_right(r, s)) \in Nat /\ SequenceOf(Positive(send_right(r, s)), Rightmost(r, s))
      BY <1>3, <1>4, RightmostIs
    <3>2. right[s] = Rightmost(r, s) /\ ToR[s] = Positive(send_right(r, s))
      BY <1>3, <1>4
    <3> HIDE DEF right, ToR
    <3> QED
      BY <3>1, <3>2
  <2>3. ToR \in Numbers(m)
    <3>1. ToR = [s \in 1..m |-> ToR[s]]
      OBVIOUS
    <3>2. \A s \in 1..m : ToR[s] \in Int
      <4>1. \A s \in 1..m : ToR[s] \in Nat
        BY <2>2
      <4> HIDE DEF ToR
      <4> QED
        BY <4>1
    <3> HIDE DEF ToR
    <3> QED
      BY <3>1, <3>2 DEF Numbers
  <2> HIDE DEF right, ToR
  <2>4. SequencesOf(m, right, ToR)
    BY <2>1, <2>2, <2>3 DEF SequencesOf
  <2> QED
    BY <1>2, <2>4, LinesLength DEF m
<1>8. posted'[r][Exchanges + 2].send = send /\ posted'[r][Exchanges + 2].recv = recv
  <2> HIDE DEF send, recv
  <2>1. posted'[r][Len(posted[r]) + 1].send = send /\ posted'[r][Len(posted[r]) + 1].recv = recv
    BY <1>1, PostedNext
  <2>2. Len(posted[r]) + 1 = Exchanges + 2
    BY <1>1, <1>2
  <2> QED
    BY <2>1, <2>2
<1>9. \A s \in 1..m : ToLeft(r, s)' = ToLeft(r, s) /\ ToRight(r, s)' = ToRight(r, s)
  <2>1. Grows
    <3>1. Step(r)
      BY DEF Step
    <3> QED
      BY <3>1, StepGrows
  <2> QED
    BY <1>2, <2>1, SurplusesKept DEF m
<1>10. Ranks' = Ranks /\ Exchanges' = Exchanges /\ num_segments_l(r)' = m
  BY <1>1, SameExchange DEF m
<1>11. /\ [s \in 1..m |-> Positive(ToLeft(r, s))]' = ToL
       /\ [s \in 1..m |-> Positive(-ToLeft(r, s))]' = FromL
       /\ [s \in 1..m |-> Positive(ToRight(r, s))]' = ToR
       /\ [s \in 1..m |-> Positive(-ToRight(r, s))]' = FromR
  BY <1>9, <1>10 DEF m
<1>12. ASSUME NEW q \in Ranks
       PROVE  /\ Len(send[q]) = IF q = r - 1 THEN SumOf(ToL) ELSE IF q = r + 1 THEN SumOf(ToR) ELSE 0
              /\ recv[q] = IF q = r - 1 THEN SumOf(FromL) ELSE IF q = r + 1 THEN SumOf(FromR) ELSE 0
  BY <1>5, <1>6, <1>7, EmptySeq
<1> HIDE DEF send, recv, ToL, FromL, ToR, FromR
<1> QED
  BY <1>8, <1>10, <1>11, <1>12 DEF ShiftFact, m

---------------------------------------------------------------------------
(* What is too much for some is what others lack *)

\* All the members of a group together have of a line what its parts are, and nothing is left over.
LEMMA NothingLost ==
  ASSUME InExchanges, NEW r \in Ranks, ~Alone(r), \A q \in Ranks : Len(posted[q]) >= Exchanges + 1,
         NEW s \in 1..num_segments_l(r), NEW n \in Nat, n = Exchangers(r)
  PROVE  Surpluses(r, s, 0, n) \in Numbers(n) /\ SumOf(Surpluses(r, s, 0, n)) = 0
<1> DEFINE a == [k \in 1..n |-> Got(Mate(r, k), s)]
           c == [j \in 1..n |-> Lengths(n, cut[Mate(r, j)], s)]
           x == [k \in 1..n |-> SumOf(Got(Mate(r, k), s))]
           t == [j \in 1..n |-> segment_size_l(Mate(r, j))]
           d == Surpluses(r, s, 0, n)
<1>1. /\ input \in Problems /\ Exchangers(r) \in 0..SortRanks /\ Exchanges \in 4..5
      /\ \A q \in Ranks : Len(posted[q]) \in Nat /\ Len(posted[q]) >= 3
  <2>1. input \in Problems /\ Exchanges \in 4..5 /\ \A q \in Ranks : Len(posted[q]) \in Nat
    BY Behind DEF Exchanges
  <2> QED
    BY <2>1, MembersAre
<1>2. \A k \in 1..n : /\ Mate(r, k) \in Ranks /\ sort_rank(Mate(r, k)) = k - 1 /\ ~Alone(Mate(r, k))
                      /\ Exchangers(Mate(r, k)) = n /\ num_segments_l(Mate(r, k)) = num_segments_l(r)
                      /\ \A j : Mate(Mate(r, k), j) = Mate(r, j)
  BY <1>1, MateIs
<1>3. ASSUME NEW k \in 1..n
      PROVE  /\ Got(Mate(r, k), s) \in Numbers(n) /\ SumOf(Got(Mate(r, k), s)) \in Int
             /\ \A j \in 1..n : Got(Mate(r, k), s)[j] = Len(cut[Mate(r, j)][k][s]) /\ Got(Mate(r, k), s)[j] \in Int
  <2>1. PICK q \in Ranks : q = Mate(r, k)
    BY <1>2
  <2>2. sort_rank(q) + 1 = k /\ ~Alone(q) /\ Exchangers(q) = n /\ s \in 1..num_segments_l(q) /\ \A j : Mate(q, j) = Mate(r, j)
    BY <1>2, <2>1
  <2>3. Got(q, s) \in Numbers(n) /\ SumOf(Got(q, s)) \in Int
    BY <1>1, <2>2, GotType
  <2>4. \A j \in 1..n : Got(q, s)[j] = Len(cut[Mate(r, j)][k][s]) /\ Got(q, s)[j] \in Nat
    <3>1. ASSUME NEW j \in 1..n PROVE Got(q, s)[j] = Len(cut[Mate(r, j)][k][s]) /\ Got(q, s)[j] \in Nat
      <4>1. Got(q, s)[j] = Len(cut[Mate(q, j)][sort_rank(q) + 1][s]) /\ Got(q, s)[j] \in Nat
        BY <1>1, <2>2, GotIs
      <4> QED
        BY <2>2, <4>1
    <3> QED
      BY <3>1
  <2> QED
    BY <2>1, <2>3, <2>4
<1>4. ASSUME NEW j \in 1..n
      PROVE  c[j] \in Numbers(n) /\ SumOf(c[j]) = t[j] /\ t[j] \in Int /\ \A k \in 1..n : c[j][k] = Len(cut[Mate(r, j)][k][s])
  <2>1. PICK q \in Ranks : q = Mate(r, j)
    BY <1>2
  <2>2. Exchangers(q) = n /\ num_segments_l(q) = num_segments_l(r) /\ segment_size_l(q) \in Nat /\ num_segments_l(r) \in Nat
    BY <1>1, <1>2, <2>1, MembersAre
  <2>3. CutFact(q)
    <3>1. 3 \in 1..Len(posted[q])
      BY <1>1
    <3>2. Fact(q, 3)
      BY <3>1 DEF InExchanges
    <3> QED
      BY <3>2 DEF Fact
  <2>4. PICK part : part = cut[q]
    OBVIOUS
  <2>5. TakenApart(n, num_segments_l(r), segment_size_l(q), part)
    BY <2>2, <2>3, <2>4 DEF CutFact
  <2>6. PICK m \in Nat : m = num_segments_l(r) /\ s \in 1..m
    BY <2>2
  <2>7. part \in [1..n -> [1..m -> Seq(Elements)]] /\ SumOf(Lengths(n, part, s)) = segment_size_l(q)
    BY <2>5, <2>6 DEF TakenApart
  <2>8. Lengths(n, part, s) \in Numbers(n)
    BY <2>6, <2>7, LengthsAre
  <2>9. \A k \in 1..n : Lengths(n, part, s)[k] = Len(part[k][s])
    BY DEF Lengths
  <2>10. c[j] = Lengths(n, part, s) /\ t[j] = segment_size_l(q)
    BY <2>1, <2>4
  <2> HIDE DEF c, t
  <2> QED
    BY <2>1, <2>2, <2>4, <2>7, <2>8, <2>9, <2>10
<1>5. Crossed(n, n, a, c)
  <2>1. \A k \in 1..n : a[k] = Got(Mate(r, k), s)
    OBVIOUS
  <2> HIDE DEF a, c
  <2> QED
    BY <1>3, <1>4, <2>1 DEF Crossed
<1>6. SumsOf(n, a, x) /\ SumsOf(n, c, t)
  <2>1. SumsOf(n, a, x)
    BY DEF SumsOf
  <2> HIDE DEF c, t
  <2>2. SumsOf(n, c, t)
    BY <1>4 DEF SumsOf
  <2> QED
    BY <2>1, <2>2
<1>7. x \in Numbers(n) /\ t \in Numbers(n)
  <2>1. x \in Numbers(n)
    BY <1>3 DEF Numbers
  <2>2. t = [j \in 1..n |-> t[j]]
    OBVIOUS
  <2> HIDE DEF t, c
  <2>3. t \in Numbers(n)
    BY <1>4, <2>2 DEF Numbers
  <2> QED
    BY <2>1, <2>3
<1>8. d \in Numbers(n) /\ \A k \in 1..n : d[k] = x[k] - t[k]
  <2>1. 0 \in Nat /\ n \in Int /\ 0 + n <= Exchangers(r)
    OBVIOUS
  <2>2. /\ Surpluses(r, s, 0, n) \in Numbers(n)
        /\ \A k \in 1..n : Surpluses(r, s, 0, n)[k] = SumOf(Got(Mate(r, 0 + k), s)) - segment_size_l(Mate(r, 0 + k))
    BY <2>1, SurplusesAre
  <2>3. \A k \in 1..n : 0 + k = k
    OBVIOUS
  <2> QED
    BY <2>2, <2>3
<1> HIDE DEF a, c, x, t, d
<1>9. SumOf(x) = SumOf(t)
  BY <1>5, <1>6, <1>7, SumSwap
<1>10. Adds(n, d, t, x)
  BY <1>7, <1>8 DEF Adds, Numbers
<1>11. SumOf(d) \in Int /\ SumOf(t) \in Int /\ SumOf(x) = SumOf(d) + SumOf(t)
  BY <1>7, <1>8, <1>10, SumOfSums
<1>12. SumOf(d) = 0
  BY <1>9, <1>11
<1> QED
  BY <1>8, <1>12 DEF d

\* What goes from one member to the next is what is too much up to it, and lacks behind it.
LEMMA NextMember ==
  ASSUME InExchanges, NEW r \in Ranks, NEW q \in Ranks, q = r + 1, ~Alone(r), \A p \in Ranks : Len(posted[p]) >= Exchanges + 1,
         q \in Mates(r), NEW s \in 1..num_segments_l(r)
  PROVE  ToRight(r, s) \in Int /\ ToLeft(q, s) \in Int /\ ToRight(r, s) = -ToLeft(q, s)
<1> DEFINE n == Exchangers(r)
           j == sort_rank(r)
<1>1. n \in Nat /\ j \in Nat /\ j + 1 <= n /\ input \in Problems /\ n \in 0..SortRanks
  <2>1. num_segments_l(r) # 0 /\ input \in Problems
    BY Behind
  <2> QED
    BY <2>1, PlaceIs, MembersAre
<1>2. /\ Exchangers(q) = n /\ num_segments_l(q) = num_segments_l(r) /\ ~Alone(q) /\ r \in Mates(q)
      /\ sort_rank(q) = j + 1 /\ j + 2 <= n /\ \A k : Mate(q, k) = Mate(r, k)
  <2>1. Exchangers(q) = n /\ num_segments_l(q) = num_segments_l(r) /\ ~Alone(q) /\ r \in Mates(q)
    BY <1>1, MembersFind, AloneTogether DEF Mates
  <2>2. group(q) = group(r) /\ sort_rank(q) < n /\ sort_rank(q) \in Nat
    BY <1>1, GroupIs, RankFacts DEF Mates
  <2>3. r = group(r) * SortRanks + sort_rank(r) /\ q = group(q) * SortRanks + sort_rank(q) /\ group(r) * SortRanks \in Nat
    <3>1. group(r) \in Nat /\ SortRanks \in Nat
      BY <1>1, RankParts, RankFacts
    <3>2. group(r) * SortRanks \in Nat
      BY <3>1
    <3> QED
      BY <1>1, <3>2, RankParts
  <2>4. sort_rank(q) = j + 1
    BY <1>1, <2>2, <2>3
  <2> QED
    BY <1>1, <2>1, <2>2, <2>4 DEF Mate
<1> DEFINE f == Surpluses(r, s, 0, n)
           a == Surpluses(r, s, 0, j + 1)
           b == Surpluses(q, s, j + 1, n - (j + 1))
<1>3. f \in Numbers(n) /\ SumOf(f) = 0
  BY <1>1, NothingLost
<1>4. \A k \in 1..n : f[k] = SumOf(Got(Mate(r, 0 + k), s)) - segment_size_l(Mate(r, 0 + k))
  <2>1. 0 \in Nat /\ n \in Int /\ 0 + n <= Exchangers(r)
    BY <1>1
  <2> QED
    BY <2>1, SurplusesAre
<1>5. a \in Numbers(j + 1) /\ \A k \in 1..(j + 1) : a[k] = SumOf(Got(Mate(r, 0 + k), s)) - segment_size_l(Mate(r, 0 + k))
  <2>1. 0 \in Nat /\ j + 1 \in Int /\ 0 + (j + 1) <= Exchangers(r)
    BY <1>1
  <2> QED
    BY <2>1, SurplusesAre
<1>6. /\ b \in Numbers(n - (j + 1))
      /\ \A k \in 1..(n - (j + 1)) : b[k] = SumOf(Got(Mate(r, j + 1 + k), s)) - segment_size_l(Mate(r, j + 1 + k))
  <2>1. PICK i, l : i = j + 1 /\ l = n - (j + 1)
    OBVIOUS
  <2>2. i \in Nat /\ l \in Int /\ i + l <= Exchangers(q)
    BY <1>1, <1>2, <2>1
  <2>3. s \in 1..num_segments_l(q)
    BY <1>2
  <2>4. /\ Surpluses(q, s, i, l) \in Numbers(l)
        /\ \A k \in 1..l : Surpluses(q, s, i, l)[k] = SumOf(Got(Mate(q, i + k), s)) - segment_size_l(Mate(q, i + k))
    BY <1>2, <2>2, <2>3, SurplusesAre
  <2> QED
    BY <1>2, <2>1, <2>4
<1> HIDE DEF f, a, b, n, j
<1>7. SameTo(j + 1, f, a)
  <2>1. \A k \in 1..(j + 1) : k \in 1..n
    BY <1>1
  <2> QED
    BY <1>4, <1>5, <2>1 DEF SameTo
<1>8. SameBehind(n, j + 1, f, b)
  <2>1. ASSUME NEW k \in 1..(n - (j + 1)) PROVE b[k] = f[j + 1 + k]
    <3>1. j + 1 + k \in 1..n /\ 0 + (j + 1 + k) = j + 1 + k
      BY <1>1
    <3> QED
      BY <1>4, <1>6, <3>1
  <2> QED
    BY <2>1 DEF SameBehind
<1>9. SumOf(a) \in Int /\ SumOf(b) \in Int /\ SumOf(f) = SumOf(a) + SumOf(b)
  <2>1. j + 1 \in 0..n
    BY <1>1
  <2> QED
    BY <1>1, <1>3, <1>5, <1>6, <1>7, <1>8, <2>1, SumSplit
<1>10. ToRight(r, s) = SumOf(a) /\ ToLeft(q, s) = SumOf(b)
  BY <1>2 DEF ToRight, ToLeft, a, b, j, n
<1> QED
  BY <1>3, <1>9, <1>10

\* Nothing goes over the ends of a group.
LEMMA LastMember ==
  ASSUME InExchanges, NEW r \in Ranks, NEW q \in Ranks, q = r + 1, ~Alone(r), \A p \in Ranks : Len(posted[p]) >= Exchanges + 1,
         q \notin Mates(r), NEW s \in 1..num_segments_l(r)
  PROVE  ToRight(r, s) = 0
<1> DEFINE n == Exchangers(r)
           j == sort_rank(r)
<1>1. n \in Nat /\ j \in Nat /\ j + 1 <= n /\ input \in Problems /\ n \in 0..SortRanks /\ Mate(r, j + 1) = r /\ group(r) * SortRanks \in Nat
  <2>1. num_segments_l(r) # 0 /\ input \in Problems
    BY Behind
  <2> QED
    BY <2>1, PlaceIs, MembersAre
<1>2. j + 1 = n
  <2>1. SUFFICES ASSUME j + 1 # n PROVE FALSE
    OBVIOUS
  <2>2. j + 2 \in 1..n
    BY <1>1, <2>1
  <2>3. Mate(r, j + 2) \in Mates(r)
    BY <1>1, <2>2, MateIs
  <2>4. Mate(r, j + 2) = r + 1
    BY <1>1 DEF Mate
  <2> QED
    BY <2>3, <2>4
<1>3. SumOf(Surpluses(r, s, 0, n)) = 0
  BY <1>1, NothingLost
<1> QED
  BY <1>2, <1>3 DEF ToRight

LEMMA FirstMember ==
  ASSUME InExchanges, NEW r \in Ranks, NEW q \in Ranks, q = r + 1, ~Alone(q), \A p \in Ranks : Len(posted[p]) >= Exchanges + 1,
         r \notin Mates(q), NEW s \in 1..num_segments_l(q)
  PROVE  ToLeft(q, s) = 0
<1> DEFINE n == Exchangers(q)
           j == sort_rank(q)
<1>1. n \in Nat /\ j \in Nat /\ j + 1 <= n /\ input \in Problems /\ n \in 0..SortRanks /\ Mate(q, j + 1) = q /\ group(q) * SortRanks \in Nat
  <2>1. num_segments_l(q) # 0 /\ input \in Problems
    BY Behind
  <2> QED
    BY <2>1, PlaceIs, MembersAre
<1>2. j = 0
  <2>1. SUFFICES ASSUME j # 0 PROVE FALSE
    OBVIOUS
  <2>2. j \in 1..n
    BY <1>1, <2>1
  <2>3. Mate(q, j) \in Mates(q)
    BY <1>1, <2>2, MateIs
  <2>4. Mate(q, j) = r
    <3>1. r \in Int
      BY <1>1, RankParts, RankFacts
    <3>2. Mate(q, j + 1) = group(q) * SortRanks + (j + 1) - 1 /\ Mate(q, j) = group(q) * SortRanks + j - 1
      BY DEF Mate
    <3> QED
      BY <1>1, <3>1, <3>2
  <2> QED
    BY <2>3, <2>4
<1>3. SumOf(Surpluses(q, s, 0, n)) = 0
  BY <1>1, NothingLost
<1>4. n - 0 = n
  BY <1>1
<1> QED
  BY <1>2, <1>3, <1>4 DEF ToLeft

LEMMA NothingAtAll ==
  ASSUME NEW m \in Nat, NEW f, f = [s \in 1..m |-> f[s]], AllAre(m, f, 0)
  PROVE  SumOf(f) = 0
<1>1. f \in Numbers(m)
  BY DEF AllAre, Numbers
<1>2. SumOf(f) = m * 0
  BY <1>1, SumOfSame
<1> QED
  BY <1>2

\* What a task sends to its right neighbour that one expects, and the other way round.
LEMMA NeighboursAgree ==
  ASSUME InExchanges, NEW r \in Ranks, NEW q \in Ranks, q = r + 1, ~Alone(r), ~Alone(q),
         \A p \in Ranks : Len(posted[p]) >= Exchanges + 1
  PROVE  /\ SumOf([s \in 1..num_segments_l(r) |-> Positive(ToRight(r, s))]) = SumOf([s \in 1..num_segments_l(q) |-> Positive(-ToLeft(q, s))])
         /\ SumOf([s \in 1..num_segments_l(r) |-> Positive(-ToRight(r, s))]) = SumOf([s \in 1..num_segments_l(q) |-> Positive(ToLeft(q, s))])
<1>1. input \in Problems /\ num_segments_l(r) \in Nat /\ num_segments_l(q) \in Nat /\ Exchangers(q) \in 0..SortRanks
  <2>1. input \in Problems
    BY Behind
  <2> QED
    BY <2>1, MembersAre
<1>2. CASE q \in Mates(r)
  <2>1. num_segments_l(q) = num_segments_l(r)
    BY <1>1, <1>2, MembersFind DEF Mates
  <2>2. ASSUME NEW s \in 1..num_segments_l(r)
        PROVE  Positive(ToRight(r, s)) = Positive(-ToLeft(q, s)) /\ Positive(-ToRight(r, s)) = Positive(ToLeft(q, s))
    <3>1. ToRight(r, s) \in Int /\ ToLeft(q, s) \in Int /\ ToRight(r, s) = -ToLeft(q, s)
      BY <1>2, NextMember
    <3>2. -ToRight(r, s) = ToLeft(q, s)
      BY <3>1
    <3> QED
      BY <3>1, <3>2
  <2>3. [s \in 1..num_segments_l(r) |-> Positive(ToRight(r, s))] = [s \in 1..num_segments_l(q) |-> Positive(-ToLeft(q, s))]
    BY <2>1, <2>2
  <2>4. [s \in 1..num_segments_l(r) |-> Positive(-ToRight(r, s))] = [s \in 1..num_segments_l(q) |-> Positive(ToLeft(q, s))]
    BY <2>1, <2>2
  <2> QED
    BY <2>3, <2>4
<1>3. CASE q \notin Mates(r)
  <2>1. r \notin Mates(q)
    BY <1>1, <1>3, MembersFind DEF Mates
  <2>2. \A s \in 1..num_segments_l(r) : ToRight(r, s) = 0
    BY <1>3, LastMember
  <2>3. \A s \in 1..num_segments_l(q) : ToLeft(q, s) = 0
    BY <2>1, FirstMember
  <2>4. Positive(0) = 0 /\ Positive(-0) = 0
    BY DEF Positive
  <2> DEFINE a == [s \in 1..num_segments_l(r) |-> Positive(ToRight(r, s))]
             b == [s \in 1..num_segments_l(q) |-> Positive(-ToLeft(q, s))]
             c == [s \in 1..num_segments_l(r) |-> Positive(-ToRight(r, s))]
             d == [s \in 1..num_segments_l(q) |-> Positive(ToLeft(q, s))]
  <2>5. AllAre(num_segments_l(r), a, 0) /\ AllAre(num_segments_l(r), c, 0)
    BY <2>2, <2>4 DEF AllAre
  <2>6. AllAre(num_segments_l(q), b, 0) /\ AllAre(num_segments_l(q), d, 0)
    BY <2>3, <2>4 DEF AllAre
  <2>7. /\ a = [s \in 1..num_segments_l(r) |-> a[s]] /\ c = [s \in 1..num_segments_l(r) |-> c[s]]
        /\ b = [s \in 1..num_segments_l(q) |-> b[s]] /\ d = [s \in 1..num_segments_l(q) |-> d[s]]
    OBVIOUS
  <2> HIDE DEF a, b, c, d
  <2>8. SumOf(a) = 0 /\ SumOf(c) = 0
    BY <1>1, <2>5, <2>7, NothingAtAll
  <2>9. SumOf(b) = 0 /\ SumOf(d) = 0
    BY <1>1, <2>6, <2>7, NothingAtAll
  <2> QED
    BY <2>8, <2>9 DEF a, b, c, d
<1> QED
  BY <1>2, <1>3

---------------------------------------------------------------------------
(* The theorem *)

LEMMA FactNext ==
  ASSUME InExchanges, NEW r \in Ranks, Step(r), Len(posted'[r]) = Len(posted[r]) + 1, NEW n \in Nat, n = Len(posted[r]) + 1
  PROVE  Fact(r, n)'
<1>1. /\ input' = input /\ Exchanges' = Exchanges /\ Exchanges \in 4..5 /\ Len(posted[r]) \in Nat /\ posted' # posted
      /\ (posted[r] = << >> <=> Len(posted[r]) = 0)
  <2>1. Len(posted[r]) \in Nat /\ (posted[r] = << >> <=> Len(posted[r]) = 0)
    BY Behind
  <2>2. input' = input
    BY PostedGrows
  <2> QED
    BY <2>1, <2>2, SameExchange DEF Exchanges
<1>2. CASE ReturnEarly(r) \/ SortAlone(r) \/ Finish(r)
  <2>1. posted' = posted
    BY <1>2 DEF ReturnEarly, SortAlone, Finish
  <2> QED
    BY <1>1, <2>1
<1>3. CASE LocalSort(r)
  <2>1. PieceFact(r)'
    BY <1>3, LocalSortSays
  <2>2. n = 1
    BY <1>1, <1>3 DEF LocalSort
  <2> QED
    BY <1>1, <2>1, <2>2 DEF Fact
<1>4. CASE SelectSamples(r)
  <2>1. SamplesFact(r)'
    BY <1>4, SelectSamplesSays
  <2>2. n = 2
    BY <1>1, <1>4 DEF SelectSamples, Returned
  <2> QED
    BY <1>1, <2>1, <2>2 DEF Fact
<1>5. CASE SelectSplitters(r)
  <2>1. CutFact(r)'
    BY <1>5, SelectSplittersSays
  <2>2. n = 3
    BY <1>1, <1>5 DEF SelectSplitters, Returned
  <2> QED
    BY <1>1, <2>1, <2>2 DEF Fact
<1>6. CASE SendValues(r)
  <2>1. ElementsFact(r, 4)'
    BY <1>6, SendValuesSays
  <2>2. n = 4
    BY <1>1, <1>6 DEF SendValues, Returned
  <2> QED
    BY <1>1, <2>1, <2>2 DEF Fact
<1>7. CASE SendIndices(r)
  <2>1. ElementsFact(r, 5)'
    BY <1>7, SendIndicesSays
  <2>2. n = 5 /\ Exchanges = 5
    BY <1>1, <1>7 DEF SendIndices, Returned, Exchanges
  <2> QED
    BY <1>1, <2>1, <2>2 DEF Fact
<1>8. CASE Merge(r)
  <2>1. SurplusFact(r)'
    BY <1>1, <1>8, MergeSays
  <2>2. n = Exchanges + 1
    BY <1>1, <1>8 DEF Merge, Returned
  <2> QED
    BY <1>1, <2>1, <2>2 DEF Fact
<1>9. CASE Balance(r)
  <2>1. ShiftFact(r)'
    BY <1>9, BalanceSays
  <2>2. n = Exchanges + 2
    BY <1>1, <1>9 DEF Balance, Returned
  <2> QED
    BY <1>1, <2>1, <2>2 DEF Fact
<1> QED
  BY <1>2, <1>3, <1>4, <1>5, <1>6, <1>7, <1>8, <1>9 DEF Step

LEMMA InExchangesInit ==
  Init => InExchanges
<1> SUFFICES ASSUME Init PROVE InExchanges
  OBVIOUS
<1>1. InCounts
  BY InCountsInit
<1>2. DOMAIN cut = Ranks /\ DOMAIN merged = Ranks /\ Len(<< >>) = 0 /\ \A r \in Ranks : posted[r] = << >>
  BY EmptySeq DEF Init
<1>3. Close
  BY <1>2 DEF Close
<1>4. \A r \in Ranks : 1..Len(posted[r]) = {}
  BY <1>2
<1> QED
  BY <1>1, <1>2, <1>3, <1>4 DEF InExchanges

LEMMA InExchangesKept ==
  InExchanges /\ [Next]_vars => InExchanges'
<1> SUFFICES ASSUME InExchanges, [Next]_vars PROVE InExchanges'
  OBVIOUS
<1>1. InCounts'
  BY InCountsKept DEF InExchanges
<1>2. CASE UNCHANGED vars
  <2>1. UNCHANGED << input, posted, piece, cut, merged >>
    BY <1>2 DEF vars
  <2>2. Ranks' = Ranks
    BY <2>1, SameExchange
  <2>3. \A q \in Ranks : Len(posted[q]) \in Nat
    BY Behind
  <2>4. Grows
    BY <2>1, <2>3 DEF Grows, Grown
  <2>5. \A q \in Ranks : \A n \in 1..Len(posted[q]) : Fact(q, n)'
    BY <2>4, FactKept
  <2>6. Close'
    BY <2>1, <2>2 DEF Close, InExchanges
  <2> QED
    BY <1>1, <2>1, <2>2, <2>5, <2>6 DEF InExchanges
<1>3. ASSUME NEW r \in Ranks, Step(r) PROVE InExchanges'
  <2>1. /\ Grows /\ Close' /\ DOMAIN cut' = Ranks /\ DOMAIN merged' = Ranks
        /\ \A q \in Ranks : q # r => Len(posted'[q]) = Len(posted[q])
        /\ Len(posted'[r]) = Len(posted[r]) \/ Len(posted'[r]) = Len(posted[r]) + 1
    BY <1>3, StepGrows
  <2>2. Ranks' = Ranks
    BY <2>1, SameExchange DEF Grows
  <2>3. \A q \in Ranks : \A n \in 1..Len(posted[q]) : Fact(q, n)'
    BY <2>1, FactKept
  <2>4. Len(posted[r]) \in Nat
    BY Behind
  <2>5. \A n \in Nat : Len(posted'[r]) = Len(posted[r]) + 1 /\ n = Len(posted[r]) + 1 => Fact(r, n)'
    BY <1>3, FactNext
  <2>6. ASSUME NEW q \in Ranks, NEW n \in 1..Len(posted'[q]) PROVE Fact(q, n)'
    <3>1. CASE n \in 1..Len(posted[q])
      BY <2>3, <3>1
    <3>2. CASE n \notin 1..Len(posted[q])
      <4>1. q = r /\ n = Len(posted[r]) + 1 /\ Len(posted'[r]) = Len(posted[r]) + 1
        BY <2>1, <2>4, <3>2
      <4> QED
        BY <2>5, <4>1, <2>4
    <3> QED
      BY <3>1, <3>2
  <2> QED
    BY <1>1, <2>1, <2>2, <2>6 DEF InExchanges
<1> QED
  BY <1>2, <1>3 DEF Next

LEMMA ExchangesFollow ==
  InExchanges => ExchangesFit
<1> SUFFICES ASSUME InExchanges, NEW r \in Ranks, NEW q \in Ranks, NEW n \in DOMAIN posted[r] \intersect DOMAIN posted[q]
             PROVE  posted[r][n].op = posted[q][n].op /\ Len(posted[r][n].send[q]) = posted[q][n].recv[r]
  BY DEF ExchangesFit
<1>1. /\ Len(posted[r]) \in Nat /\ Len(posted[q]) \in Nat /\ n \in 1..Len(posted[r]) /\ n \in 1..Len(posted[q])
      /\ n <= Collectives /\ Exchanges \in 4..5 /\ Collectives \in {Exchanges, Exchanges + 2} /\ input \in Problems
      /\ ~Alone(r) /\ ~Alone(q)
  <2>1. IsSequence(posted[r]) /\ IsSequence(posted[q])
    BY DEF InExchanges, InCounts, InStep, Followed
  <2>2. /\ Len(posted[r]) \in Nat /\ DOMAIN posted[r] = 1..Len(posted[r])
        /\ Len(posted[q]) \in Nat /\ DOMAIN posted[q] = 1..Len(posted[q])
    BY <2>1, SequenceFacts
  <2>3. posted[r] # << >> /\ posted[q] # << >> /\ Len(posted[r]) <= Collectives /\ input \in Problems
    BY <2>2, Behind
  <2>4. ~Alone(r) /\ ~Alone(q)
    BY <2>3, Behind
  <2> QED
    BY <2>2, <2>3, <2>4 DEF Collectives, Exchanges
<1>2. posted[r][n].op = posted[q][n].op
  BY <1>1 DEF InExchanges, InCounts, InStep, Followed
<1>3. Fact(r, n) /\ Fact(q, n)
  BY <1>1 DEF InExchanges
<1>4. CASE n \in Controls
  BY <1>1, <1>2, <1>4, CountsFit DEF ControlsFit, InExchanges
<1>5. CASE n \in 4..Exchanges
  <2>1. ElementsFact(r, n) /\ ElementsFact(q, n)
    BY <1>3, <1>5 DEF Fact
  <2>2. q \in Mates(r) <=> r \in Mates(q)
    BY <1>1, MembersFind DEF Mates
  <2>3. /\ Len(posted[r][n].send[q]) = IF q \in Mates(r) THEN Last(posted[r][3].send[q]) ELSE 0
        /\ posted[q][n].recv[r] = IF r \in Mates(q) THEN Last(posted[r][3].send[q]) ELSE 0
    BY <2>1 DEF ElementsFact
  <2> QED
    BY <1>2, <2>2, <2>3
<1>6. CASE n = Exchanges + 2
  <2>1. \A p \in Ranks : Len(posted[p]) >= Exchanges + 1
    BY <1>1, <1>6, Behind DEF InExchanges, Close
  <2>2. ShiftFact(r) /\ ShiftFact(q)
    BY <1>1, <1>3, <1>6 DEF Fact
  <2>3. r \in Int /\ q \in Int
    BY RankFacts, <1>1 DEF Ranks
  <2>4. CASE q = r + 1
    <3>1. q # r - 1 /\ r = q - 1
      BY <2>3, <2>4
    <3>2. Len(posted[r][n].send[q]) = SumOf([s \in 1..num_segments_l(r) |-> Positive(ToRight(r, s))])
      BY <1>6, <2>2, <2>4, <3>1 DEF ShiftFact
    <3>3. posted[q][n].recv[r] = SumOf([s \in 1..num_segments_l(q) |-> Positive(-ToLeft(q, s))])
      BY <1>6, <2>2, <3>1 DEF ShiftFact
    <3> QED
      BY <1>1, <1>2, <2>1, <2>4, <3>2, <3>3, NeighboursAgree
  <2>5. CASE r = q + 1
    <3>1. r # q - 1 /\ q = r - 1
      BY <2>3, <2>5
    <3>2. Len(posted[r][n].send[q]) = SumOf([s \in 1..num_segments_l(r) |-> Positive(ToLeft(r, s))])
      BY <1>6, <2>2, <3>1 DEF ShiftFact
    <3>3. posted[q][n].recv[r] = SumOf([s \in 1..num_segments_l(q) |-> Positive(-ToRight(q, s))])
      BY <1>6, <2>2, <2>5, <3>1 DEF ShiftFact
    <3> QED
      BY <1>1, <1>2, <2>1, <2>5, <3>2, <3>3, NeighboursAgree
  <2>6. CASE q # r + 1 /\ r # q + 1
    <3>1. q # r - 1 /\ r # q - 1
      BY <2>3, <2>6
    <3>2. Len(posted[r][n].send[q]) = 0 /\ posted[q][n].recv[r] = 0
      BY <1>6, <2>2, <2>6, <3>1 DEF ShiftFact
    <3> QED
      BY <1>2, <3>2
  <2> QED
    BY <2>4, <2>5, <2>6
<1>7. n \in Controls \/ n \in 4..Exchanges \/ n = Exchanges + 2
  BY <1>1 DEF Controls
<1> QED
  BY <1>4, <1>5, <1>6, <1>7

\* In each collective of a sort, of whatever lines and layouts, the tasks call the same operation and each
\* expects of each other task as many elements as that one sends, in the exchange of values and places and
\* in the shift to the neighbours too, whose counts follow from samples and splitters that each task
\* selects for itself (sort_cpu.inl:822, 843 and 350).
THEOREM ExchangesAgree == Spec => []ExchangesFit
<1>1. Spec => []InExchanges
  BY InExchangesInit, InExchangesKept, PTL DEF Spec
<1> QED
  BY <1>1, ExchangesFollow, PTL
=============================================================================
