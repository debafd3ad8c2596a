--------------------------- MODULE SampleSortOrder ---------------------------
(***************************************************************************)
(* Proof that a distributed sort sorts: what lies between two splitters    *)
(* goes to one task, that task puts it in order, and the shift to the      *)
(* neighbours only moves the borders between tasks.                        *)
(***************************************************************************)
EXTENDS SampleSortExchanges

---------------------------------------------------------------------------
(* Sequences one after the other *)

\* h[k]: how many elements the first k of n sequences have.
Heights(n, s, h) ==
  /\ h \in [0..n -> Nat] /\ h[0] = 0
  /\ \A k \in 1..n : Len(s[k]) \in Nat /\ h[k] = h[k - 1] + Len(s[k])
\* t is the n sequences, one after the other.
Joined(n, s, h, t) ==
  /\ Heights(n, s, h) /\ IsSequence(t) /\ Len(t) = h[n]
  /\ \A k \in 1..n : \A x \in 1..Len(s[k]) : t[h[k - 1] + x] = s[k][x]

\* The place of the x-th of b elements behind a.
LEMMA PlaceBehind ==
  ASSUME NEW a \in Nat, NEW b \in Nat, NEW x \in 1..b
  PROVE  a + x \in 1..(a + b) /\ ~(a + x <= a) /\ a + x - a = x
OBVIOUS

\* More sequences have no fewer elements.
LEMMA HeightsGrow ==
  ASSUME NEW n \in Nat, NEW s, NEW h, Heights(n, s, h), NEW j \in 0..n, NEW k \in j..n
  PROVE  h[j] <= h[k]
<1> DEFINE G == { i \in 0..(n - j) : h[j] <= h[j + i] }
<1>1. n - j \in Nat
  OBVIOUS
<1>2. 0 \in G
  BY <1>1 DEF Heights
<1>3. ASSUME NEW i \in 1..(n - j), i - 1 \in G PROVE i \in G
  <2>1. j + i \in 1..n /\ j + i - 1 = j + (i - 1) /\ j + (i - 1) \in 0..n
    BY <1>1
  <2>2. h[j + i] = h[j + (i - 1)] + Len(s[j + i]) /\ Len(s[j + i]) \in Nat
    BY <2>1 DEF Heights
  <2>3. h[j + i] \in Nat /\ h[j + (i - 1)] \in Nat /\ h[j] \in Nat
    BY <2>1 DEF Heights
  <2> QED
    BY <1>3, <2>2, <2>3
<1>4. \A i \in 0..(n - j) : i \in G
  <2> HIDE DEF G
  <2> QED
    BY <1>1, <1>2, <1>3, Induction
<1>5. k - j \in 0..(n - j) /\ j + (k - j) = k
  OBVIOUS
<1> QED
  BY <1>4, <1>5

\* Place y is the x-th of the k-th sequence.
IsAt(n, s, h, y, k, x) == k \in 1..n /\ x \in 1..Len(s[k]) /\ y = h[k - 1] + x
IsSomewhere(n, s, h, y) == \E k, x : IsAt(n, s, h, y, k, x)

\* Every place is in one of the sequences.
LEMMA JoinedPlace ==
  ASSUME NEW n \in Nat, NEW s, NEW h, Heights(n, s, h), NEW y \in 1..h[n]
  PROVE  IsSomewhere(n, s, h, y)
<1> DEFINE S == { k \in 0..n : y <= h[k] }
<1>1. n \in S /\ S \subseteq Nat /\ h[n] \in Nat
  BY DEF Heights
<1>2. PICK k \in S : \A m \in S : k <= m
  <2> HIDE DEF S
  <2> QED
    BY <1>1, LeastNat
<1>3. h[0] = 0 /\ y \in Nat /\ y > 0
  BY <1>1 DEF Heights
<1>4. k \in 1..n /\ k - 1 \in 0..n /\ k - 1 \notin S
  <2>1. k \in 0..n /\ k # 0
    BY <1>2, <1>3
  <2>2. k - 1 \notin S
    <3>1. ~(k <= k - 1)
      BY <2>1
    <3> QED
      BY <1>2, <3>1
  <2> QED
    BY <2>1, <2>2
<1>5. h[k] = h[k - 1] + Len(s[k]) /\ Len(s[k]) \in Nat /\ h[k - 1] \in Nat /\ h[k] \in Nat
  BY <1>4 DEF Heights
<1>6. h[k - 1] < y /\ y <= h[k]
  BY <1>2, <1>3, <1>4, <1>5
<1>7. y - h[k - 1] \in 1..Len(s[k]) /\ y = h[k - 1] + (y - h[k - 1])
  BY <1>3, <1>5, <1>6
<1>8. IsAt(n, s, h, y, k, y - h[k - 1])
  BY <1>4, <1>7 DEF IsAt
<1> QED
  BY <1>8 DEF IsSomewhere

\* Heights depend on lengths only.
LEMMA HeightsSame ==
  ASSUME NEW n \in Nat, NEW s, NEW h, Heights(n, s, h), NEW t, NEW g, Heights(n, t, g), \A k \in 1..n : Len(s[k]) = Len(t[k])
  PROVE  \A k \in 0..n : h[k] = g[k]
<1> DEFINE G == { k \in 0..n : h[k] = g[k] }
<1>1. 0 \in G
  BY DEF Heights
<1>2. ASSUME NEW k \in 1..n, k - 1 \in G PROVE k \in G
  BY <1>2 DEF Heights
<1>3. \A k \in 0..n : k \in G
  <2> HIDE DEF G
  <2> QED
    BY <1>1, <1>2, Induction
<1> QED
  BY <1>3

\* There is only one way to put them one after the other.
LEMMA JoinedSame ==
  ASSUME NEW n \in Nat, NEW s, NEW h, NEW t, Joined(n, s, h, t), NEW g, NEW u, Joined(n, s, g, u)
  PROVE  t = u
<1>1. \A k \in 0..n : h[k] = g[k]
  BY HeightsSame DEF Joined
<1>2. Len(t) = Len(u) /\ DOMAIN t = 1..h[n] /\ DOMAIN u = 1..h[n] /\ h[n] \in Nat
  <2>1. h[n] = g[n]
    BY <1>1
  <2> QED
    BY <2>1, SequenceFacts DEF Joined
<1>3. ASSUME NEW y \in 1..h[n] PROVE t[y] = u[y]
  <2>0. Heights(n, s, h)
    BY DEF Joined
  <2>1. PICK k, x : IsAt(n, s, h, y, k, x)
    BY <2>0, JoinedPlace DEF IsSomewhere
  <2>2. k \in 1..n /\ x \in 1..Len(s[k]) /\ y = h[k - 1] + x
    BY <2>1 DEF IsAt
  <2>3. k - 1 \in 0..n
    BY <2>2
  <2>4. y = g[k - 1] + x
    BY <1>1, <2>2, <2>3
  <2>5. t[h[k - 1] + x] = s[k][x] /\ u[g[k - 1] + x] = s[k][x]
    BY <2>2 DEF Joined
  <2> QED
    BY <2>2, <2>4, <2>5
<1>4. IsSequence(t) /\ IsSequence(u)
  BY DEF Joined
<1>5. t = [y \in 1..h[n] |-> t[y]] /\ u = [y \in 1..h[n] |-> u[y]]
  <2>1. ASSUME NEW w, IsSequence(w) PROVE w = [y \in DOMAIN w |-> w[y]]
    <3>1. PICK X : w \in Seq(X)
      BY <2>1 DEF IsSequence
    <3> QED
      BY <3>1
  <2> QED
    BY <1>2, <1>4, <2>1
<1> QED
  BY <1>3, <1>5

\* FlattenSeq puts sequences one after the other.
LEMMA FlattenJoined ==
  ASSUME NEW n \in Nat, NEW s, IsSequence(s), Len(s) = n, NEW X, \A k \in 1..n : s[k] \in Seq(X)
  PROVE  FlattenSeq(s) \in Seq(X) /\ \E h : Joined(n, s, h, FlattenSeq(s))
<1>1. PICK f \in [0..n -> Seq(X)] : f[0] = << >> /\ (\A k \in 1..n : f[k] = f[k - 1] \o s[k]) /\ FlattenSeq(s) = f[n]
  BY FlattenSteps, ZenonT(40)
<1> DEFINE h == [k \in 0..n |-> Len(f[k])]
<1>2. \A k \in 0..n : f[k] \in Seq(X) /\ Len(f[k]) \in Nat /\ h[k] = Len(f[k])
  BY <1>1, LenProperties
<1>3. h \in [0..n -> Nat] /\ h[0] = 0
  BY <1>1, <1>2
<1> HIDE DEF h
<1>4. ASSUME NEW k \in 1..n
      PROVE  /\ Len(s[k]) \in Nat /\ h[k] = h[k - 1] + Len(s[k]) /\ h[k - 1] \in Nat
             /\ \A y \in 1..h[k] : f[k][y] = IF y <= h[k - 1] THEN f[k - 1][y] ELSE s[k][y - h[k - 1]]
  <2>1. k \in 0..n /\ k - 1 \in 0..n
    OBVIOUS
  <2>2. f[k] = f[k - 1] \o s[k] /\ f[k - 1] \in Seq(X) /\ s[k] \in Seq(X)
    BY <1>1, <1>2, <2>1
  <2>3. Len(f[k]) = Len(f[k - 1]) + Len(s[k]) /\ Len(s[k]) \in Nat /\ Len(f[k - 1]) \in Nat
    BY <2>2, ConcatProperties, LenProperties
  <2>4. \A y \in 1..(Len(f[k - 1]) + Len(s[k])) :
          f[k][y] = IF y <= Len(f[k - 1]) THEN f[k - 1][y] ELSE s[k][y - Len(f[k - 1])]
    BY <2>2, ConcatProperties
  <2> QED
    BY <1>2, <2>1, <2>3, <2>4
<1>5. Heights(n, s, h)
  BY <1>3, <1>4 DEF Heights
<1>6. ASSUME NEW j \in 1..n, NEW x \in 1..Len(s[j]) PROVE f[n][h[j - 1] + x] = s[j][x]
  <2>1. PICK y : y = h[j - 1] + x
    OBVIOUS
  <2>2. y \in 1..h[j] /\ f[j][y] = s[j][x]
    <3>1. h[j - 1] \in Nat /\ Len(s[j]) \in Nat /\ h[j] = h[j - 1] + Len(s[j])
      BY <1>4
    <3>2. y \in 1..(h[j - 1] + Len(s[j])) /\ ~(y <= h[j - 1]) /\ y - h[j - 1] = x
      <4>1. h[j - 1] + x \in 1..(h[j - 1] + Len(s[j])) /\ ~(h[j - 1] + x <= h[j - 1]) /\ h[j - 1] + x - h[j - 1] = x
        BY <3>1, PlaceBehind
      <4> QED
        BY <2>1, <3>1, <4>1, SMTT(30)
    <3>3. f[j][y] = s[j][y - h[j - 1]]
      BY <1>4, <3>1, <3>2, Zenon
    <3> QED
      BY <3>1, <3>2, <3>3, Zenon
  <2> DEFINE G == { i \in 0..(n - j) : y \in 1..h[j + i] /\ f[j + i][y] = s[j][x] }
  <2>3. n - j \in Nat /\ j + 0 = j
    OBVIOUS
  <2>4. 0 \in G
    BY <2>2, <2>3
  <2>5. ASSUME NEW i \in 1..(n - j), i - 1 \in G PROVE i \in G
    <3>1. j + i \in 1..n /\ j + i - 1 = j + (i - 1) /\ j + (i - 1) \in 0..n
      OBVIOUS
    <3>2. y \in 1..h[j + (i - 1)] /\ f[j + (i - 1)][y] = s[j][x]
      BY <2>5
    <3> HIDE DEF G
    <3>3. PICK k : k = j + i
      OBVIOUS
    <3>4. k \in 1..n /\ k - 1 = j + (i - 1) /\ k - 1 \in 0..n
      BY <3>1, <3>3
    <3>5. y \in 1..h[k - 1] /\ f[k - 1][y] = s[j][x]
      BY <3>2, <3>4
    <3>6. h[k] = h[k - 1] + Len(s[k]) /\ Len(s[k]) \in Nat /\ h[k - 1] \in Nat
      BY <1>4, <3>4, Zenon
    <3>7. y \in 1..h[k] /\ y <= h[k - 1]
      BY <3>5, <3>6, SMTT(30)
    <3>8. f[k][y] = f[k - 1][y]
      BY <1>4, <3>4, <3>7, Zenon
    <3> QED
      BY <3>3, <3>5, <3>7, <3>8 DEF G
  <2>6. \A i \in 0..(n - j) : i \in G
    <3> HIDE DEF G
    <3> QED
      BY <2>3, <2>4, <2>5, Induction
  <2>7. n - j \in 0..(n - j) /\ j + (n - j) = n
    BY <2>3
  <2> QED
    BY <2>1, <2>6, <2>7
<1>7. FlattenSeq(s) \in Seq(X) /\ FlattenSeq(s) = f[n] /\ Len(f[n]) = h[n]
  BY <1>1, <1>2
<1>8. Joined(n, s, h, FlattenSeq(s))
  BY <1>5, <1>6, <1>7 DEF Joined, IsSequence
<1> QED
  BY <1>7, <1>8

IsJoined(n, s, t) == \E h : Joined(n, s, h, t)
\* The same for a function of sequences.
LEMMA LinesJoined ==
  ASSUME NEW n \in Nat, NEW X, NEW s \in [1..n -> Seq(X)]
  PROVE  IsSequence(s) /\ Len(s) = n /\ FlattenSeq(s) \in Seq(X) /\ IsJoined(n, s, FlattenSeq(s))
<1>1. IsSequence(s) /\ Len(s) = n
  BY NumbersAreSequences
<1>2. \A k \in 1..n : s[k] \in Seq(X)
  OBVIOUS
<1> QED
  BY <1>1, <1>2, FlattenJoined DEF IsJoined

---------------------------------------------------------------------------
(* Lines in order *)

\* line is in the order of values, and its equal elements in that of their places when the sort is stable.
Tidy(stable, line) ==
  \A x, y \in 1..Len(line) : x < y =>
    line[x].v < line[y].v \/ (line[x].v = line[y].v /\ (stable => line[x].i < line[y].i))

\* The fields of an element of a line.
LEMMA LineElements ==
  ASSUME NEW s \in Seq(Elements), NEW k \in 1..Len(s)
  PROVE  s[k] \in Elements /\ s[k].v \in Int /\ s[k].i \in Int
<1>1. s[k] \in Elements
  BY ElementOfSeq
<1> QED
  BY <1>1 DEF Elements

\* The elements of W come first in line.
First(line, W) == \A x, y \in 1..Len(line) : x <= y /\ line[y] \in W => line[x] \in W
\* When the elements of W come first in two lines and are equally many, they take the same places.
LEMMA SamePrefix ==
  ASSUME NEW X, NEW s \in Seq(X), NEW t \in Seq(X), Len(s) = Len(t), NEW W, First(s, W), First(t, W),
         CountIn(t, W) = CountIn(s, W), NEW x \in 1..Len(s)
  PROVE  s[x] \in W <=> t[x] \in W
<1>1. Len(s) \in Nat /\ DOMAIN s = 1..Len(s) /\ DOMAIN t = 1..Len(s)
  BY LenProperties
<1>2. ASSUME NEW u, DOMAIN u = 1..Len(s), Len(u) = Len(s), First(u, W)
      PROVE  CountIn(u, W) \in Nat /\ { k \in 1..Len(s) : u[k] \in W } = 1..CountIn(u, W)
  <2> DEFINE D == { k \in 1..Len(s) : u[k] \in W }
  <2>1. D \subseteq 1..Len(s) /\ \A k \in D : \A j \in 1..k : j \in D
    BY <1>1, <1>2 DEF First
  <2>2. CountIn(u, W) = Cardinality(D)
    BY <1>2 DEF CountIn
  <2> HIDE DEF D
  <2>3. PICK c \in 0..Len(s) : D = 1..c
    BY <1>1, <2>1, PrefixIs
  <2>4. Cardinality(D) = c /\ c \in Nat
    BY <1>1, <2>3, IntervalIs
  <2>5. CountIn(u, W) = c
    BY <2>2, <2>4
  <2>6. CountIn(u, W) \in Nat /\ D = 1..CountIn(u, W)
    BY <2>3, <2>4, <2>5
  <2> QED
    BY <2>6 DEF D
<1>3. { k \in 1..Len(s) : s[k] \in W } = 1..CountIn(s, W)
  BY <1>1, <1>2
<1>4. { k \in 1..Len(s) : t[k] \in W } = 1..CountIn(t, W)
  BY <1>1, <1>2
<1>5. { k \in 1..Len(s) : s[k] \in W } = { k \in 1..Len(s) : t[k] \in W }
  BY <1>3, <1>4
<1> QED
  BY <1>5

LessThan(a) == { e \in Elements : e.v < a }
\* As many elements of t as of s have values below each one.
SameValues(s, t) == \A a \in Int : CountIn(t, LessThan(a)) = CountIn(s, LessThan(a))

\* Lines in order with the same values have them in the same places.
LEMMA ValuesInPlace ==
  ASSUME NEW s \in Seq(Elements), NEW t \in Seq(Elements), Len(s) = Len(t), InOrderOfValues(s), InOrderOfValues(t),
         SameValues(s, t), NEW x \in 1..Len(s)
  PROVE  s[x].v = t[x].v
<1>1. \A k \in 1..Len(s) : s[k] \in Elements /\ t[k] \in Elements /\ s[k].v \in Int /\ t[k].v \in Int
  BY LineElements
<1>2. ASSUME NEW a \in Int PROVE s[x].v < a <=> t[x].v < a
  <2>1. First(s, LessThan(a)) /\ First(t, LessThan(a))
    <3>1. ASSUME NEW u \in Seq(Elements), Len(u) = Len(s), InOrderOfValues(u) PROVE First(u, LessThan(a))
      <4> SUFFICES ASSUME NEW y \in 1..Len(u), NEW z \in 1..Len(u), y <= z, u[z] \in LessThan(a) PROVE u[y] \in LessThan(a)
        BY DEF First
      <4>1. u[y] \in Elements /\ u[z] \in Elements /\ u[y].v \in Int /\ u[z].v \in Int
        BY LineElements
      <4>2. u[y].v <= u[z].v
        <5>1. CASE y = z
          BY <4>1, <5>1
        <5>2. CASE y # z
          <6>1. y < z
            BY <3>1, <5>2
          <6> QED
            BY <3>1, <6>1 DEF InOrderOfValues
        <5> QED
          BY <5>1, <5>2
      <4> QED
        BY <4>1, <4>2 DEF LessThan
    <3> QED
      BY <3>1
  <2>2. CountIn(t, LessThan(a)) = CountIn(s, LessThan(a))
    BY DEF SameValues
  <2>3. s[x] \in LessThan(a) <=> t[x] \in LessThan(a)
    BY <2>1, <2>2, SamePrefix
  <2> QED
    BY <1>1, <2>3 DEF LessThan
<1>3. s[x].v \in Int /\ t[x].v \in Int /\ s[x].v + 1 \in Int
  BY <1>1
<1>4. ~(t[x].v < s[x].v) /\ t[x].v < s[x].v + 1
  <2>1. s[x].v < s[x].v + 1 /\ ~(s[x].v < s[x].v)
    BY <1>3
  <2> QED
    BY <1>2, <1>3, <2>1
<1> QED
  BY <1>3, <1>4

LessThanElement(e) == { u \in Elements : u.v < e.v \/ (u.v = e.v /\ u.i < e.i) }
UpToElement(e) == { u \in Elements : u.v < e.v \/ (u.v = e.v /\ u.i <= e.i) }

\* Two lines with the same elements, in order of values and places, are the same.
LEMMA TidySame ==
  ASSUME NEW s \in Seq(Elements), NEW t \in Seq(Elements), Len(s) = Len(t), Tidy(TRUE, s), Tidy(TRUE, t),
         SameCounts(s, t), NEW x \in 1..Len(s)
  PROVE  s[x] = t[x]
<1>1. PICK e : e = s[x]
  OBVIOUS
<1>2. e \in Elements /\ e.v \in Int /\ e.i \in Int /\ t[x] \in Elements /\ t[x].v \in Int /\ t[x].i \in Int
  BY <1>1, LineElements
<1>3. ASSUME NEW u \in Seq(Elements), Len(u) = Len(s), Tidy(TRUE, u) PROVE First(u, LessThanElement(e)) /\ First(u, UpToElement(e))
  <2>1. ASSUME NEW y \in 1..Len(u), NEW z \in 1..Len(u), y <= z
        PROVE  /\ u[z] \in LessThanElement(e) => u[y] \in LessThanElement(e)
               /\ u[z] \in UpToElement(e) => u[y] \in UpToElement(e)
    <3>1. /\ u[y] \in Elements /\ u[z] \in Elements
          /\ u[y].v \in Int /\ u[z].v \in Int /\ u[y].i \in Int /\ u[z].i \in Int
      BY LineElements
    <3>2. CASE y = z
      BY <3>2
    <3>3. CASE y # z
      <4>1. y < z
        BY <2>1, <3>3
      <4>2. u[y].v < u[z].v \/ (u[y].v = u[z].v /\ u[y].i < u[z].i)
        BY <1>3, <4>1 DEF Tidy
      <4> QED
        <5>1. ASSUME u[z] \in LessThanElement(e) PROVE u[y] \in LessThanElement(e)
          <6>1. u[z].v < e.v \/ (u[z].v = e.v /\ u[z].i < e.i)
            BY <5>1 DEF LessThanElement
          <6>2. u[y].v < e.v \/ (u[y].v = e.v /\ u[y].i < e.i)
            BY <1>2, <3>1, <4>2, <6>1
          <6> QED
            BY <3>1, <6>2 DEF LessThanElement
        <5>2. ASSUME u[z] \in UpToElement(e) PROVE u[y] \in UpToElement(e)
          <6>1. u[z].v < e.v \/ (u[z].v = e.v /\ u[z].i <= e.i)
            BY <5>2 DEF UpToElement
          <6>2. u[y].v < e.v \/ (u[y].v = e.v /\ u[y].i <= e.i)
            BY <1>2, <3>1, <4>2, <6>1, SMTT(30)
          <6> QED
            BY <3>1, <6>2 DEF UpToElement
        <5> QED
          BY <5>1, <5>2
    <3> QED
      BY <3>2, <3>3
  <2> QED
    BY <2>1 DEF First
<1>4. /\ CountIn(t, LessThanElement(e)) = CountIn(s, LessThanElement(e))
      /\ CountIn(t, UpToElement(e)) = CountIn(s, UpToElement(e))
  BY DEF SameCounts
<1>5. /\ First(s, LessThanElement(e)) /\ First(s, UpToElement(e))
      /\ First(t, LessThanElement(e)) /\ First(t, UpToElement(e))
  BY <1>3
<1>6. (s[x] \in LessThanElement(e) <=> t[x] \in LessThanElement(e)) /\ (s[x] \in UpToElement(e) <=> t[x] \in UpToElement(e))
  BY <1>4, <1>5, SamePrefix
<1>7. s[x] \notin LessThanElement(e) /\ s[x] \in UpToElement(e)
  BY <1>1, <1>2 DEF LessThanElement, UpToElement
<1>8. t[x].v = e.v /\ t[x].i = e.i
  BY <1>2, <1>6, <1>7 DEF LessThanElement, UpToElement
<1> QED
  BY <1>1, <1>2, <1>8, SMTT(30) DEF Elements

\* A line in order is in order of values.
LEMMA TidyValues ==
  ASSUME NEW stable \in BOOLEAN, NEW s \in Seq(Elements), Tidy(stable, s)
  PROVE  InOrderOfValues(s)
<1> SUFFICES ASSUME NEW x \in 1..Len(s), NEW y \in 1..Len(s), x < y PROVE s[x].v <= s[y].v
  BY DEF InOrderOfValues
<1>1. s[x].v \in Int /\ s[y].v \in Int
  BY LineElements
<1>2. s[x].v < s[y].v \/ s[x].v = s[y].v
  BY DEF Tidy
<1> QED
  BY <1>1, <1>2

---------------------------------------------------------------------------
(* The parts of a line *)

From(F, d) == IF d = 1 THEN 0 ELSE F[d - 1]
Ends0(n, F) == [d \in 0..n |-> IF d = 0 THEN 0 ELSE F[d]]

\* The d-th part is what is behind a, up to its end.
CutOut(line, F, d, a) ==
  /\ a \in 0..Len(line) /\ F[d] \in 0..Len(line) /\ a <= F[d] /\ Len(line) \in Nat
  /\ PartOf(line, F, d) \in Seq(Elements) /\ Len(PartOf(line, F, d)) = F[d] - a
  /\ \A z \in 1..(F[d] - a) : PartOf(line, F, d)[z] = line[a + z]

\* A part of a line that is cut at F is where F says.
LEMMA PartIsOf ==
  ASSUME NEW n \in Nat \ {0}, NEW line \in Seq(Elements), NEW F, CutsAre(n, line, F), NEW d \in 1..n, NEW a, a = From(F, d)
  PROVE  CutOut(line, F, d, a)
<1>1. Len(line) \in Nat /\ F[n] = Len(line) /\ F[d] \in 0..Len(line)
  BY LenProperties DEF CutsAre
<1>2. a \in 0..Len(line) /\ a <= F[d]
  <2>1. CASE d = 1
    BY <1>1, <2>1 DEF From
  <2>2. CASE d # 1
    <3>1. d \in 2..n /\ d - 1 \in 1..n
      BY <2>2
    <3>2. F[d - 1] \in 0..Len(line) /\ F[d - 1] <= F[d]
      BY <3>1 DEF CutsAre
    <3> QED
      BY <2>2, <3>2 DEF From
  <2> QED
    BY <2>1, <2>2
<1>3. PICK i \in 1..(Len(line) + 1), b \in 0..Len(line) : i = a + 1 /\ b = F[d] /\ i <= b + 1
  <2>1. a + 1 \in 1..(Len(line) + 1) /\ a + 1 <= F[d] + 1
    BY <1>1, <1>2
  <2> QED
    BY <1>1, <2>1
<1>4. PartOf(line, F, d) = SubSeq(line, i, b)
  <2>1. (IF d = 1 THEN 1 ELSE F[d - 1] + 1) = i
    BY <1>3 DEF From
  <2> QED
    BY <1>3, <2>1 DEF PartOf
<1>5. SubSeq(line, i, b) \in Seq(Elements) /\ Len(SubSeq(line, i, b)) = b - a /\ \A z \in 1..(b - a) : SubSeq(line, i, b)[z] = line[a + z]
  <2>1. CASE i <= b
    <3>1. /\ SubSeq(line, i, b) \in Seq(Elements) /\ Len(SubSeq(line, i, b)) = b - i + 1
          /\ \A z \in 1..(b - i + 1) : SubSeq(line, i, b)[z] = line[i + z - 1]
      BY <1>1, <2>1, SubSeqProperties
    <3>2. b - i + 1 = b - a /\ \A z \in 1..(b - a) : i + z - 1 = a + z
      <4>1. a \in Int /\ b \in Int /\ i = a + 1
        BY <1>1, <1>2, <1>3
      <4> QED
        BY <4>1, SMTT(30)
    <3> QED
      BY <3>1, <3>2
  <2>2. CASE ~(i <= b)
    <3>1. i = b + 1 /\ b - a = 0
      BY <1>1, <1>2, <1>3, <2>2
    <3>2. SubSeq(line, i, b) = << >>
      BY <1>1, <3>1, SubSeqEmpty
    <3> QED
      BY <1>1, <3>1, <3>2, EmptySeq
  <2> QED
    BY <2>1, <2>2
<1> QED
  BY <1>1, <1>2, <1>3, <1>4, <1>5 DEF CutOut

\* The parts of a line, one after the other, are the line.
LEMMA PartsJoined ==
  ASSUME NEW n \in Nat \ {0}, NEW line \in Seq(Elements), NEW F, CutsAre(n, line, F),
         NEW s, s = [d \in 1..n |-> PartOf(line, F, d)]
  PROVE  Joined(n, s, Ends0(n, F), line)
<1>1. ASSUME NEW d \in 1..n
      PROVE  /\ Ends0(n, F)[d] = F[d] /\ Ends0(n, F)[d - 1] = From(F, d) /\ Ends0(n, F)[d - 1] \in Nat /\ Ends0(n, F)[d] \in Nat
             /\ Len(s[d]) \in Nat /\ Ends0(n, F)[d] = Ends0(n, F)[d - 1] + Len(s[d])
             /\ \A x \in 1..Len(s[d]) : line[Ends0(n, F)[d - 1] + x] = s[d][x]
  <2>1. d \in 0..n /\ d # 0 /\ d - 1 \in 0..n /\ (d - 1 = 0 <=> d = 1)
    OBVIOUS
  <2>2. Ends0(n, F)[d] = F[d] /\ Ends0(n, F)[d - 1] = From(F, d)
    BY <2>1 DEF Ends0, From
  <2>3. PICK a : a = From(F, d)
    OBVIOUS
  <2>4. /\ a \in 0..Len(line) /\ F[d] \in 0..Len(line) /\ a <= F[d] /\ Len(line) \in Nat
        /\ PartOf(line, F, d) \in Seq(Elements) /\ Len(PartOf(line, F, d)) = F[d] - a
        /\ \A z \in 1..(F[d] - a) : PartOf(line, F, d)[z] = line[a + z]
    <3>1. CutOut(line, F, d, a)
      BY <2>3, PartIsOf
    <3> QED
      BY <3>1 DEF CutOut
  <2>5. s[d] = PartOf(line, F, d)
    OBVIOUS
  <2>6. Len(s[d]) = F[d] - a /\ F[d] - a \in Nat /\ F[d] = a + (F[d] - a)
    BY <2>4, <2>5
  <2> QED
    BY <2>2, <2>3, <2>4, <2>5, <2>6
<1>2. Ends0(n, F)[0] = 0 /\ Ends0(n, F)[n] = Len(line)
  BY DEF Ends0, CutsAre
<1>3. Ends0(n, F) \in [0..n -> Nat]
  <2>1. Ends0(n, F) = [d \in 0..n |-> Ends0(n, F)[d]]
    BY DEF Ends0
  <2>2. \A d \in 0..n : d = 0 \/ d \in 1..n
    OBVIOUS
  <2>3. \A d \in 0..n : Ends0(n, F)[d] \in Nat
    BY <1>1, <1>2, <2>2
  <2> QED
    BY <2>1, <2>3
<1> QED
  BY <1>1, <1>2, <1>3 DEF Joined, Heights, IsSequence

\* Cuts are in order.
LEMMA CutsGrow ==
  ASSUME NEW n \in Nat \ {0}, NEW line \in Seq(Elements), NEW F, CutsAre(n, line, F), NEW d \in 1..n, NEW e \in d..n
  PROVE  F[d] <= F[e]
<1>1. PICK s : s = [k \in 1..n |-> PartOf(line, F, k)]
  OBVIOUS
<1>2. Heights(n, s, Ends0(n, F))
  BY <1>1, PartsJoined DEF Joined
<1>3. d \in 0..n /\ e \in 0..n /\ d # 0 /\ e # 0
  OBVIOUS
<1>4. Ends0(n, F)[d] <= Ends0(n, F)[e]
  BY <1>2, <1>3, HeightsGrow
<1> QED
  BY <1>3, <1>4 DEF Ends0

\* A line is its parts, one after the other.
LEMMA PartsFlatten ==
  ASSUME NEW n \in Nat \ {0}, NEW line \in Seq(Elements), NEW F, CutsAre(n, line, F),
         NEW s, s = [d \in 1..n |-> PartOf(line, F, d)]
  PROVE  FlattenSeq(s) = line /\ s \in [1..n -> Seq(Elements)]
<1>1. Joined(n, s, Ends0(n, F), line)
  BY PartsJoined
<1>2. s \in [1..n -> Seq(Elements)]
  BY PartsOfLine DEF PartsFill
<1>3. IsSequence(s) /\ Len(s) = n /\ \A d \in 1..n : s[d] \in Seq(Elements)
  BY <1>2, NumbersAreSequences
<1>4. PICK h : Joined(n, s, h, FlattenSeq(s))
  BY <1>3, FlattenJoined
<1> QED
  BY <1>1, <1>2, <1>4, JoinedSame

---------------------------------------------------------------------------
(* What goes to a task *)

\* n lines p, the k-th cut at F[k]; what goes to the d-th task.
Cut(n, p, F) == p \in [1..n -> Seq(Elements)] /\ \A k \in 1..n : CutsAre(n, p[k], F[k])
Parcel(n, p, F, d) == FlattenSeq([k \in 1..n |-> PartOf(p[k], F[k], d)])

\* e is the j-th element of line k, and goes to task d.
IsFrom(p, F, d, e, k, j) == j \in 1..Len(p[k]) /\ From(F[k], d) < j /\ j <= F[k][d] /\ e = p[k][j]
Comes(k, j, l, i) == k < l \/ (k = l /\ j < i)
\* The y-th element of t is the at[y]-th of line o[y], and t has the order of lines and places.
Traced(n, p, F, d, t, o, at) ==
  /\ \A y \in 1..Len(t) : o[y] \in 1..n /\ IsFrom(p, F, d, t[y], o[y], at[y])
  /\ \A y, z \in 1..Len(t) : y < z => Comes(o[y], at[y], o[z], at[z])

\* What goes to a task is its part of each line, one after the other.
LEMMA ParcelJoined ==
  ASSUME NEW n \in Nat \ {0}, NEW p, NEW F, Cut(n, p, F), NEW d \in 1..n,
         NEW s, s = [k \in 1..n |-> PartOf(p[k], F[k], d)]
  PROVE  /\ s \in [1..n -> Seq(Elements)] /\ IsSequence(s) /\ Len(s) = n
         /\ FlattenSeq(s) \in Seq(Elements) /\ IsJoined(n, s, FlattenSeq(s))
<1>1. \A k \in 1..n : PartOf(p[k], F[k], d) \in Seq(Elements)
  <2> SUFFICES ASSUME NEW k \in 1..n PROVE PartOf(p[k], F[k], d) \in Seq(Elements)
    OBVIOUS
  <2>1. p[k] \in Seq(Elements) /\ CutsAre(n, p[k], F[k])
    BY DEF Cut
  <2>2. CutOut(p[k], F[k], d, From(F[k], d))
    BY <2>1, PartIsOf
  <2> QED
    BY <2>2 DEF CutOut
<1>2. s \in [1..n -> Seq(Elements)]
  BY <1>1
<1> QED
  BY <1>2, LinesJoined

\* Of two places in sequences one behind the other, the later one is not in an earlier sequence.
LEMMA NotBeforeIt ==
  ASSUME NEW a \in Nat, NEW b \in Nat, NEW c \in Nat, NEW l \in Nat, NEW x \in Nat, NEW z \in Nat,
         a + x < b + z, x >= 1, z <= l, c = b + l
  PROVE  ~(c <= a)
OBVIOUS

\* Where an element of a sequence joined of n is.
LEMMA JoinedIn ==
  ASSUME NEW n \in Nat, NEW s, NEW h, Heights(n, s, h), NEW k \in 1..n, NEW x \in 1..Len(s[k]), NEW l \in 1..n, NEW z \in 1..Len(s[l]),
         h[k - 1] + x < h[l - 1] + z
  PROVE  Comes(k, x, l, z)
<1>1. /\ k - 1 \in 0..n /\ l - 1 \in 0..n /\ k \in 0..n /\ l \in 0..n
  OBVIOUS
<1>2. /\ h[k - 1] \in Nat /\ h[l - 1] \in Nat /\ h[l] \in Nat /\ Len(s[l]) \in Nat /\ h[l] = h[l - 1] + Len(s[l])
  BY <1>1 DEF Heights
<1>3. CASE l < k
  <2>1. k - 1 \in l..n
    BY <1>3
  <2>2. h[l] <= h[k - 1]
    BY <1>1, <2>1, HeightsGrow
  <2>3. x \in Nat /\ z \in Nat /\ z <= Len(s[l]) /\ x >= 1
    BY <1>2
  <2> QED
    BY <1>2, <2>2, <2>3, NotBeforeIt
<1>4. CASE l = k
  BY <1>2, <1>4 DEF Comes
<1>5. CASE k < l
  BY <1>5 DEF Comes
<1> QED
  BY <1>3, <1>4, <1>5

\* Each element that goes to a task has its own place in a line, and they keep the order of their places.
LEMMA ParcelTraced ==
  ASSUME NEW n \in Nat \ {0}, NEW p, NEW F, Cut(n, p, F), NEW d \in 1..n, NEW t, t = Parcel(n, p, F, d)
  PROVE  t \in Seq(Elements) /\ \E o, at : Traced(n, p, F, d, t, o, at)
<1>1. PICK s : s = [k \in 1..n |-> PartOf(p[k], F[k], d)]
  OBVIOUS
<1>2. t = FlattenSeq(s) /\ t \in Seq(Elements)
  BY <1>1, ParcelJoined DEF Parcel
<1>3. PICK h : Joined(n, s, h, t)
  <2>1. IsJoined(n, s, FlattenSeq(s))
    BY <1>1, ParcelJoined
  <2> QED
    BY <1>2, <2>1 DEF IsJoined
<1>4. Heights(n, s, h) /\ Len(t) = h[n] /\ n \in Nat
  BY <1>3 DEF Joined
<1> DEFINE w == [y \in 1..Len(t) |-> CHOOSE q : IsAt(n, s, h, y, q[1], q[2])]
<1>5. ASSUME NEW y \in 1..Len(t) PROVE IsAt(n, s, h, y, w[y][1], w[y][2])
  <2>1. IsSomewhere(n, s, h, y)
    <3>1. y \in 1..h[n]
      BY <1>4
    <3> QED
      BY <1>4, <3>1, JoinedPlace
  <2>2. PICK k, x : IsAt(n, s, h, y, k, x)
    BY <2>1 DEF IsSomewhere
  <2>3. IsAt(n, s, h, y, << k, x >>[1], << k, x >>[2])
    BY <2>2
  <2>4. \E q : IsAt(n, s, h, y, q[1], q[2])
    BY <2>3
  <2>5. w[y] = CHOOSE q : IsAt(n, s, h, y, q[1], q[2])
    OBVIOUS
  <2> HIDE DEF w
  <2> QED
    BY <2>4, <2>5
<1> HIDE DEF w
<1> DEFINE o == [y \in 1..Len(t) |-> w[y][1]]
           at == [y \in 1..Len(t) |-> From(F[w[y][1]], d) + w[y][2]]
<1>6. ASSUME NEW y \in 1..Len(t), NEW k, k = w[y][1], NEW x, x = w[y][2]
      PROVE  IsAt(n, s, h, y, k, x) /\ From(F[k], d) \in Nat /\ IsFrom(p, F, d, t[y], k, From(F[k], d) + x)
  <2>0. IsAt(n, s, h, y, k, x)
    BY <1>5, <1>6
  <2>1. k \in 1..n /\ x \in 1..Len(s[k]) /\ y = h[k - 1] + x
    BY <2>0 DEF IsAt
  <2>2. p[k] \in Seq(Elements) /\ CutsAre(n, p[k], F[k])
    BY <2>1 DEF Cut
  <2>3. PICK a : a = From(F[k], d)
    OBVIOUS
  <2>4. CutOut(p[k], F[k], d, a)
    BY <2>2, <2>3, PartIsOf
  <2>5. s[k] = PartOf(p[k], F[k], d)
    BY <1>1, <2>1
  <2>6. /\ a \in 0..Len(p[k]) /\ F[k][d] \in 0..Len(p[k]) /\ a <= F[k][d] /\ Len(p[k]) \in Nat /\ Len(s[k]) = F[k][d] - a
        /\ \A z \in 1..(F[k][d] - a) : s[k][z] = p[k][a + z]
    BY <2>4, <2>5 DEF CutOut
  <2>7. x \in 1..(F[k][d] - a)
    BY <2>1, <2>6
  <2>8. a + x \in 1..Len(p[k]) /\ a < a + x /\ a + x <= F[k][d]
    BY <2>6, <2>7
  <2>9. t[h[k - 1] + x] = s[k][x]
    BY <1>3, <2>1 DEF Joined
  <2>10. t[y] = p[k][a + x]
    BY <2>1, <2>6, <2>7, <2>9
  <2>11. IsFrom(p, F, d, t[y], k, a + x)
    BY <2>3, <2>8, <2>10 DEF IsFrom
  <2>12. a \in Nat
    BY <2>6
  <2> QED
    BY <2>0, <2>3, <2>11, <2>12
<1>7. \A y \in 1..Len(t) : o[y] \in 1..n /\ IsFrom(p, F, d, t[y], o[y], at[y])
  BY <1>6 DEF IsAt
<1>8. ASSUME NEW y \in 1..Len(t), NEW z \in 1..Len(t), y < z PROVE Comes(o[y], at[y], o[z], at[z])
  <2>1. PICK k : k = w[y][1]
    OBVIOUS
  <2>2. PICK x : x = w[y][2]
    OBVIOUS
  <2>3. PICK l : l = w[z][1]
    OBVIOUS
  <2>4. PICK u : u = w[z][2]
    OBVIOUS
  <2> HIDE DEF o, at
  <2>5. k \in 1..n /\ x \in 1..Len(s[k]) /\ y = h[k - 1] + x /\ From(F[k], d) \in Nat
    <3>1. IsAt(n, s, h, y, k, x) /\ From(F[k], d) \in Nat
      BY <1>6, <2>1, <2>2
    <3> QED
      BY <3>1 DEF IsAt
  <2>6. l \in 1..n /\ u \in 1..Len(s[l]) /\ z = h[l - 1] + u /\ From(F[l], d) \in Nat
    <3>1. IsAt(n, s, h, z, l, u) /\ From(F[l], d) \in Nat
      BY <1>6, <2>3, <2>4
    <3> QED
      BY <3>1 DEF IsAt
  <2>7. h[k - 1] + x < h[l - 1] + u
    BY <1>8, <2>5, <2>6
  <2>8. Comes(k, x, l, u)
    BY <1>4, <2>5, <2>6, <2>7, JoinedIn
  <2>9. Comes(k, From(F[k], d) + x, l, From(F[l], d) + u)
    <3>1. CASE k < l
      BY <3>1 DEF Comes
    <3>2. CASE k = l /\ x < u
      <4>1. x \in Int /\ u \in Int
        BY <2>5, <2>6
      <4> QED
        BY <2>5, <2>6, <3>2, <4>1 DEF Comes
    <3> QED
      BY <2>8, <3>1, <3>2 DEF Comes
  <2>10. o[y] = k /\ at[y] = From(F[k], d) + x /\ o[z] = l /\ at[z] = From(F[l], d) + u
    BY <2>1, <2>2, <2>3, <2>4 DEF o, at
  <2> QED
    BY <2>9, <2>10
<1> HIDE DEF o, at
<1>9. Traced(n, p, F, d, t, o, at)
  BY <1>7, <1>8 DEF Traced
<1> QED
  BY <1>2, <1>9

---------------------------------------------------------------------------
(* What a task merges *)

\* Element j of line k comes before element i of line l: it is smaller, or equal and further to the front.
Ahead(p, k, j, l, i) == p[k][j].v < p[l][i].v \/ (p[k][j].v = p[l][i].v /\ Comes(k, j, l, i))
\* What is cut off before the end of a part comes before what is behind that end, in all lines.
Divided(n, p, F) ==
  \A d \in 1..(n - 1) : \A k, l \in 1..n : \A j \in 1..Len(p[k]) : \A i \in 1..Len(p[l]) :
    j <= F[k][d] /\ F[l][d] < i => Ahead(p, k, j, l, i)
\* Lines of elements that were in the same order before, for a stable sort.
Ascending(stable, n, p) ==
  /\ \A k \in 1..n : Tidy(stable, p[k])
  /\ stable => \A k, l \in 1..n : k < l => \A j \in 1..Len(p[k]) : \A i \in 1..Len(p[l]) : p[k][j].i < p[l][i].i
\* a goes before b.
Goes(stable, a, b) == a.v < b.v \/ (a.v = b.v /\ (stable => a.i < b.i))

\* What comes before in lines that ascend may go before in the result.
LEMMA AheadGoes ==
  ASSUME NEW n \in Nat, NEW p \in [1..n -> Seq(Elements)], NEW stable \in BOOLEAN, Ascending(stable, n, p),
         NEW k \in 1..n, NEW j \in 1..Len(p[k]), NEW l \in 1..n, NEW i \in 1..Len(p[l]), Ahead(p, k, j, l, i)
  PROVE  Goes(stable, p[k][j], p[l][i])
<1>1. CASE p[k][j].v < p[l][i].v
  BY <1>1 DEF Goes
<1>2. CASE p[k][j].v = p[l][i].v /\ Comes(k, j, l, i)
  <2> SUFFICES ASSUME stable PROVE p[k][j].i < p[l][i].i
    BY <1>2 DEF Goes
  <2>1. CASE k < l
    BY <2>1 DEF Ascending
  <2>2. CASE k = l /\ j < i
    <3>1. Tidy(stable, p[k])
      BY DEF Ascending
    <3>2. p[k][j].v < p[k][i].v \/ (p[k][j].v = p[k][i].v /\ p[k][j].i < p[k][i].i)
      BY <2>2, <3>1 DEF Tidy
    <3>3. p[k][j].v \in Int
      BY LineElements
    <3> QED
      BY <1>2, <2>2, <3>2, <3>3
  <2> QED
    BY <1>2, <2>1, <2>2 DEF Comes
<1> QED
  BY <1>1, <1>2 DEF Ahead

\* What task d gets, merged.
MergedOf(n, p, F, d) == StableSort(Parcel(n, p, F, d))
ComesThrough(n, p, F, d, t) == \A x \in 1..Len(t) : \E k \in 1..n : \E j : IsFrom(p, F, d, t[x], k, j)

\* What a task merges is in order, and comes from its parts.
LEMMA MergedIs ==
  ASSUME NEW n \in Nat \ {0}, NEW p, NEW F, Cut(n, p, F), NEW stable \in BOOLEAN, Ascending(stable, n, p),
         NEW d \in 1..n, NEW t, t = MergedOf(n, p, F, d)
  PROVE  t \in Seq(Elements) /\ ComesThrough(n, p, F, d, t) /\ Tidy(stable, t)
<1>1. PICK s : s = Parcel(n, p, F, d)
  OBVIOUS
<1>2. s \in Seq(Elements) /\ \E o, at : Traced(n, p, F, d, s, o, at)
  BY <1>1, ParcelTraced
<1>3. PICK o, at : Traced(n, p, F, d, s, o, at)
  BY <1>2
<1>4. t = StableSort(s)
  BY <1>1 DEF MergedOf
<1>5. Settled(Len(s), s, t) /\ Len(t) = Len(s) /\ t \in Seq(Elements)
  BY <1>2, <1>4, StableSortSettles, StableSortIs
<1>6. PICK f \in Bijection(1..Len(s), 1..Len(s)) :
        /\ \A x \in 1..Len(s) : t[x] = s[f[x]]
        /\ \A x, y \in 1..Len(s) : x < y => s[f[x]].v < s[f[y]].v \/ (s[f[x]].v = s[f[y]].v /\ f[x] < f[y])
  BY <1>5 DEF Settled
<1>7. ASSUME NEW x \in 1..Len(t), NEW y, y = f[x]
      PROVE  y \in 1..Len(s) /\ t[x] = s[y] /\ o[y] \in 1..n /\ IsFrom(p, F, d, t[x], o[y], at[y])
  <2>1. y \in 1..Len(s) /\ t[x] = s[y]
    BY <1>5, <1>6, <1>7 DEF Bijection, Injection
  <2> QED
    BY <1>3, <2>1 DEF Traced
<1>8. ComesThrough(n, p, F, d, t)
  BY <1>7 DEF ComesThrough
<1>9. ASSUME NEW x \in 1..Len(t), NEW y \in 1..Len(t), x < y PROVE Goes(stable, t[x], t[y])
  <2>1. PICK a : a = f[x]
    OBVIOUS
  <2>2. PICK b : b = f[y]
    OBVIOUS
  <2>3. a \in 1..Len(s) /\ t[x] = s[a] /\ o[a] \in 1..n /\ IsFrom(p, F, d, t[x], o[a], at[a])
    BY <1>7, <2>1
  <2>4. b \in 1..Len(s) /\ t[y] = s[b] /\ o[b] \in 1..n /\ IsFrom(p, F, d, t[y], o[b], at[b])
    BY <1>7, <2>2
  <2>5. s[a].v < s[b].v \/ (s[a].v = s[b].v /\ a < b)
    BY <1>5, <1>6, <1>9, <2>1, <2>2
  <2>6. CASE s[a].v < s[b].v
    BY <2>3, <2>4, <2>6 DEF Goes
  <2>7. CASE s[a].v = s[b].v /\ a < b
    <3>1. Comes(o[a], at[a], o[b], at[b])
      BY <1>3, <2>3, <2>4, <2>7 DEF Traced
    <3>2. at[a] \in 1..Len(p[o[a]]) /\ at[b] \in 1..Len(p[o[b]]) /\ t[x] = p[o[a]][at[a]] /\ t[y] = p[o[b]][at[b]]
      BY <2>3, <2>4 DEF IsFrom
    <3>3. Ahead(p, o[a], at[a], o[b], at[b])
      BY <2>3, <2>4, <2>7, <3>1, <3>2 DEF Ahead
    <3>4. p \in [1..n -> Seq(Elements)] /\ n \in Nat
      BY DEF Cut
    <3>5. Goes(stable, p[o[a]][at[a]], p[o[b]][at[b]])
      BY <2>3, <2>4, <3>2, <3>3, <3>4, AheadGoes
    <3> QED
      BY <3>2, <3>5
  <2> QED
    BY <2>5, <2>6, <2>7
<1>10. Tidy(stable, t)
  BY <1>9 DEF Tidy, Goes
<1> QED
  BY <1>5, <1>8, <1>10

\* What an earlier task merges goes before what a later one does.
LEMMA MergedApart ==
  ASSUME NEW n \in Nat \ {0}, NEW p, NEW F, Cut(n, p, F), NEW stable \in BOOLEAN, Ascending(stable, n, p), Divided(n, p, F),
         NEW d \in 1..n, NEW e \in 1..n, d < e, NEW t, ComesThrough(n, p, F, d, t), NEW u, ComesThrough(n, p, F, e, u),
         NEW x \in 1..Len(t), NEW y \in 1..Len(u)
  PROVE  Goes(stable, t[x], u[y])
<1>1. PICK k \in 1..n : \E j : IsFrom(p, F, d, t[x], k, j)
  BY DEF ComesThrough
<1>2. PICK j : IsFrom(p, F, d, t[x], k, j)
  BY <1>1
<1>3. PICK l \in 1..n : \E i : IsFrom(p, F, e, u[y], l, i)
  BY DEF ComesThrough
<1>4. PICK i : IsFrom(p, F, e, u[y], l, i)
  BY <1>3
<1>5. j \in 1..Len(p[k]) /\ j <= F[k][d] /\ t[x] = p[k][j]
  BY <1>2 DEF IsFrom
<1>6. i \in 1..Len(p[l]) /\ From(F[l], e) < i /\ u[y] = p[l][i]
  BY <1>4 DEF IsFrom
<1>7. d \in 1..(n - 1) /\ e - 1 \in d..n /\ e - 1 \in 1..n /\ e # 1
  OBVIOUS
<1>8. F[l][d] < i
  <2>1. p[l] \in Seq(Elements) /\ CutsAre(n, p[l], F[l])
    BY DEF Cut
  <2>2. F[l][d] <= F[l][e - 1]
    BY <1>7, <2>1, CutsGrow
  <2>3. F[l][d] \in Int /\ F[l][e - 1] \in Int /\ i \in Int
    <3>1. F[l][d] \in 0..Len(p[l]) /\ F[l][e - 1] \in 0..Len(p[l]) /\ Len(p[l]) \in Nat
      BY <1>7, <2>1, LenProperties DEF CutsAre
    <3> QED
      BY <1>6, <3>1
  <2>4. F[l][e - 1] < i
    BY <1>6, <1>7 DEF From
  <2> QED
    BY <2>2, <2>3, <2>4
<1>9. Ahead(p, k, j, l, i)
  BY <1>5, <1>6, <1>7, <1>8 DEF Divided
<1>10. p \in [1..n -> Seq(Elements)] /\ n \in Nat
  BY DEF Cut
<1>11. Goes(stable, p[k][j], p[l][i])
  BY <1>5, <1>6, <1>9, <1>10, AheadGoes
<1> QED
  BY <1>5, <1>6, <1>11

\* All of it, one task after the other, is in order.
LEMMA MergedTidy ==
  ASSUME NEW n \in Nat \ {0}, NEW p, NEW F, Cut(n, p, F), NEW stable \in BOOLEAN, Ascending(stable, n, p), Divided(n, p, F),
         NEW M, M = [d \in 1..n |-> MergedOf(n, p, F, d)], NEW c, c = FlattenSeq(M)
  PROVE  M \in [1..n -> Seq(Elements)] /\ c \in Seq(Elements) /\ Tidy(stable, c)
<1>1. \A d \in 1..n : M[d] \in Seq(Elements) /\ ComesThrough(n, p, F, d, M[d]) /\ Tidy(stable, M[d])
  BY MergedIs
<1>2. M \in [1..n -> Seq(Elements)] /\ n \in Nat
  BY <1>1
<1>3. c \in Seq(Elements) /\ IsJoined(n, M, c)
  BY <1>2, LinesJoined
<1>4. PICK h : Joined(n, M, h, c)
  BY <1>3 DEF IsJoined
<1>5. Heights(n, M, h) /\ Len(c) = h[n] /\ \A k \in 1..n : \A x \in 1..Len(M[k]) : c[h[k - 1] + x] = M[k][x]
  BY <1>4 DEF Joined
<1>6. ASSUME NEW y \in 1..Len(c) PROVE \E k, x : IsAt(n, M, h, y, k, x) /\ c[y] = M[k][x]
  <2>1. y \in 1..h[n]
    BY <1>5
  <2>2. PICK k, x : IsAt(n, M, h, y, k, x)
    BY <1>2, <1>5, <2>1, JoinedPlace DEF IsSomewhere
  <2>3. c[y] = M[k][x]
    BY <1>5, <2>2 DEF IsAt
  <2> QED
    BY <2>2, <2>3
<1>7. ASSUME NEW y \in 1..Len(c), NEW z \in 1..Len(c), y < z PROVE Goes(stable, c[y], c[z])
  <2>1. PICK k, x : IsAt(n, M, h, y, k, x) /\ c[y] = M[k][x]
    BY <1>6
  <2>2. PICK l, u : IsAt(n, M, h, z, l, u) /\ c[z] = M[l][u]
    BY <1>6
  <2>3. k \in 1..n /\ x \in 1..Len(M[k]) /\ y = h[k - 1] + x
    BY <2>1 DEF IsAt
  <2>4. l \in 1..n /\ u \in 1..Len(M[l]) /\ z = h[l - 1] + u
    BY <2>2 DEF IsAt
  <2>5. h[k - 1] + x < h[l - 1] + u
    BY <1>7, <2>3, <2>4
  <2>6. Comes(k, x, l, u)
    BY <1>2, <1>5, <2>3, <2>4, <2>5, JoinedIn
  <2>7. CASE k < l
    <3>1. Goes(stable, M[k][x], M[l][u])
      BY <1>1, <2>3, <2>4, <2>7, MergedApart
    <3> QED
      BY <2>1, <2>2, <3>1
  <2>8. CASE k = l /\ x < u
    <3>1. Goes(stable, M[k][x], M[k][u])
      BY <1>1, <2>3, <2>4, <2>8 DEF Tidy, Goes
    <3> QED
      BY <2>1, <2>2, <2>8, <3>1
  <2> QED
    BY <2>6, <2>7, <2>8 DEF Comes
<1>8. Tidy(stable, c)
  BY <1>7 DEF Tidy, Goes
<1> QED
  BY <1>2, <1>3, <1>8

\* What a task merges has the elements of its parts, each as often.
LEMMA MergedCount ==
  ASSUME NEW n \in Nat \ {0}, NEW p, NEW F, Cut(n, p, F), NEW d \in 1..n, NEW W,
         NEW c, c = [k \in 1..n |-> CountIn(PartOf(p[k], F[k], d), W)]
  PROVE  c \in Numbers(n) /\ CountIn(MergedOf(n, p, F, d), W) = SumOf(c)
<1>1. PICK s : s = [k \in 1..n |-> PartOf(p[k], F[k], d)]
  OBVIOUS
<1>2. s \in [1..n -> Seq(Elements)] /\ IsSequence(s) /\ Len(s) = n /\ FlattenSeq(s) \in Seq(Elements)
  BY <1>1, ParcelJoined
<1>3. \A k \in 1..n : s[k] \in Seq(Elements) /\ c[k] = CountIn(s[k], W)
  BY <1>1, <1>2
<1>4. c \in Numbers(n) /\ CountsOf(n, s, W, c)
  <2>1. \A k \in 1..n : c[k] \in Int
    <3> SUFFICES ASSUME NEW k \in 1..n PROVE c[k] \in Int
      OBVIOUS
    <3>1. IsSequence(s[k]) /\ Len(s[k]) \in Nat
      BY <1>3, LenProperties DEF IsSequence
    <3>2. CountIn(s[k], W) \in 0..Len(s[k])
      BY <3>1, CountType
    <3> QED
      BY <1>3, <3>1, <3>2
  <2>2. c = [k \in 1..n |-> c[k]]
    OBVIOUS
  <2> QED
    BY <1>3, <2>1, <2>2 DEF Numbers, CountsOf
<1>5. CountIn(FlattenSeq(s), W) = SumOf(c)
  BY <1>2, <1>3, <1>4, FlattenCount, ZenonT(40)
<1>6. PICK u : u = FlattenSeq(s)
  OBVIOUS
<1>7. PICK t : t = StableSort(u)
  OBVIOUS
<1>8. Settled(Len(u), u, t) /\ DOMAIN t = 1..Len(u) /\ Len(u) \in Nat /\ DOMAIN u = 1..Len(u)
  BY <1>2, <1>6, <1>7, StableSortSettles, LenProperties
<1>9. PICK f \in Bijection(1..Len(u), 1..Len(u)) : \A x \in 1..Len(u) : t[x] = u[f[x]]
  BY <1>8 DEF Settled
<1>10. CountIn(t, W) = CountIn(u, W)
  BY <1>8, <1>9, SortedCount
<1> QED
  BY <1>1, <1>4, <1>5, <1>6, <1>7, <1>10 DEF MergedOf, Parcel

\* How many elements of the parts of a line are in W.
CountsInParts(n, line, F, W) == [d \in 1..n |-> CountIn(PartOf(line, F, d), W)]

\* The elements of a line are those of its parts.
LEMMA PartsCount ==
  ASSUME NEW n \in Nat \ {0}, NEW line \in Seq(Elements), NEW F, CutsAre(n, line, F), NEW W,
         NEW c, c = CountsInParts(n, line, F, W)
  PROVE  c \in Numbers(n) /\ CountIn(line, W) = SumOf(c)
<1>1. PICK s : s = [d \in 1..n |-> PartOf(line, F, d)]
  OBVIOUS
<1>2. FlattenSeq(s) = line /\ s \in [1..n -> Seq(Elements)]
  BY <1>1, PartsFlatten
<1>3. IsSequence(s) /\ Len(s) = n
  BY <1>2, NumbersAreSequences
<1>4. \A d \in 1..n : s[d] \in Seq(Elements) /\ c[d] = CountIn(s[d], W)
  BY <1>1, <1>2 DEF CountsInParts
<1>5. c \in Numbers(n) /\ CountsOf(n, s, W, c)
  <2>1. \A k \in 1..n : c[k] \in Int
    <3> SUFFICES ASSUME NEW k \in 1..n PROVE c[k] \in Int
      OBVIOUS
    <3>1. IsSequence(s[k]) /\ Len(s[k]) \in Nat
      BY <1>4, LenProperties DEF IsSequence
    <3>2. CountIn(s[k], W) \in 0..Len(s[k])
      BY <3>1, CountType
    <3> QED
      BY <1>4, <3>1, <3>2
  <2>2. c = [k \in 1..n |-> c[k]]
    BY DEF CountsInParts
  <2> QED
    BY <1>4, <2>1, <2>2 DEF Numbers, CountsOf
<1>6. CountIn(FlattenSeq(s), W) = SumOf(c)
  BY <1>3, <1>4, <1>5, FlattenCount
<1> QED
  BY <1>2, <1>5, <1>6

MergesTo(n, p, F, M) == M = [d \in 1..n |-> MergedOf(n, p, F, d)]
\* And it has the elements of all lines.
LEMMA MergedKeeps ==
  ASSUME NEW n \in Nat \ {0}, NEW p, NEW F, Cut(n, p, F),
         NEW M \in [1..n -> Seq(Elements)], MergesTo(n, p, F, M)
  PROVE  SameCounts(FlattenSeq(p), FlattenSeq(M))
<1> SUFFICES ASSUME NEW W PROVE CountIn(FlattenSeq(M), W) = CountIn(FlattenSeq(p), W)
  BY DEF SameCounts
<1> DEFINE a == [d \in 1..n |-> [k \in 1..n |-> CountIn(PartOf(p[k], F[k], d), W)]]
           c == [k \in 1..n |-> [d \in 1..n |-> CountIn(PartOf(p[k], F[k], d), W)]]
           x == [d \in 1..n |-> CountIn(M[d], W)]
           y == [k \in 1..n |-> CountIn(p[k], W)]
<1>1. p \in [1..n -> Seq(Elements)] /\ n \in Nat /\ \A k \in 1..n : p[k] \in Seq(Elements) /\ CutsAre(n, p[k], F[k])
  BY DEF Cut
<1>2. ASSUME NEW d \in 1..n PROVE a[d] \in Numbers(n) /\ x[d] = SumOf(a[d])
  <2>1. a[d] = [k \in 1..n |-> CountIn(PartOf(p[k], F[k], d), W)] /\ x[d] = CountIn(MergedOf(n, p, F, d), W)
    BY DEF MergesTo
  <2> HIDE DEF a, x
  <2> QED
    BY <2>1, MergedCount
<1>3. ASSUME NEW k \in 1..n PROVE c[k] \in Numbers(n) /\ y[k] = SumOf(c[k])
  <2>1. c[k] = [d \in 1..n |-> CountIn(PartOf(p[k], F[k], d), W)] /\ y[k] = CountIn(p[k], W)
    OBVIOUS
  <2>2. PICK line, G : line = p[k] /\ G = F[k]
    OBVIOUS
  <2>3. PICK b : b = c[k]
    OBVIOUS
  <2> HIDE DEF c, y
  <2>4. line \in Seq(Elements) /\ CutsAre(n, line, G) /\ b = CountsInParts(n, line, G, W)
    BY <1>1, <2>1, <2>2, <2>3 DEF CountsInParts
  <2>5. b \in Numbers(n) /\ CountIn(line, W) = SumOf(b)
    BY <2>4, PartsCount
  <2> QED
    BY <2>1, <2>2, <2>3, <2>5
<1>4. \A d, k \in 1..n : a[d][k] = CountIn(PartOf(p[k], F[k], d), W) /\ c[k][d] = a[d][k]
  OBVIOUS
<1>5. x = [d \in 1..n |-> x[d]] /\ y = [d \in 1..n |-> y[d]]
  OBVIOUS
<1>6. \A d \in 1..n : x[d] = CountIn(M[d], W) /\ y[d] = CountIn(p[d], W)
  OBVIOUS
<1> HIDE DEF a, c, x, y
<1>7. Crossed(n, n, a, c)
  <2>1. \A d, k \in 1..n : a[d][k] \in Int
    BY <1>2 DEF Numbers
  <2> QED
    BY <1>2, <1>3, <1>4, <2>1 DEF Crossed
<1>8. x \in Numbers(n) /\ y \in Numbers(n)
  <2>1. \A d \in 1..n : x[d] \in Int /\ y[d] \in Int
    <3> SUFFICES ASSUME NEW d \in 1..n PROVE x[d] \in Int /\ y[d] \in Int
      OBVIOUS
    <3>1. a[d] \in Numbers(n) /\ c[d] \in Numbers(n)
      BY <1>2, <1>3
    <3>2. SumOf(a[d]) \in Int /\ SumOf(c[d]) \in Int
      BY <1>1, <3>1, SumType
    <3> QED
      BY <1>2, <1>3, <3>2
  <2> QED
    BY <1>5, <2>1 DEF Numbers
<1>9. SumsOf(n, a, x) /\ SumsOf(n, c, y)
  BY <1>2, <1>3 DEF SumsOf
<1>10. SumOf(x) = SumOf(y)
  BY <1>1, <1>7, <1>8, <1>9, SumSwap
<1>11. CountIn(FlattenSeq(M), W) = SumOf(x)
  <2>1. IsSequence(M) /\ Len(M) = n
    BY <1>1, NumbersAreSequences
  <2>2. CountsOf(n, M, W, x)
    BY <1>6 DEF CountsOf
  <2>3. \A d \in 1..n : M[d] \in Seq(Elements)
    OBVIOUS
  <2> QED
    BY <1>1, <1>8, <2>1, <2>2, <2>3, FlattenCount
<1>12. CountIn(FlattenSeq(p), W) = SumOf(y)
  <2>1. IsSequence(p) /\ Len(p) = n
    BY <1>1, NumbersAreSequences
  <2>2. CountsOf(n, p, W, y)
    BY <1>6 DEF CountsOf
  <2> QED
    BY <1>1, <1>8, <2>1, <2>2, FlattenCount
<1> QED
  BY <1>10, <1>11, <1>12

---------------------------------------------------------------------------
(* From the code's cuts and local sorts to the order *)

\* Cuts below splitters divide the lines: an element equal to a splitter goes by the rank of the task that holds it.
LEMMA CutsDivide ==
  ASSUME NEW n \in Nat \ {0}, NEW p, NEW F, Cut(n, p, F), NEW sp \in [1..(n - 1) -> Samples],
         \A k \in 1..n : CutBelow(n, k - 1, p[k], sp, F[k])
  PROVE  Divided(n, p, F)
<1> SUFFICES ASSUME NEW d \in 1..(n - 1), NEW k \in 1..n, NEW l \in 1..n, NEW j \in 1..Len(p[k]), NEW i \in 1..Len(p[l]),
                    j <= F[k][d], F[l][d] < i
             PROVE  Ahead(p, k, j, l, i)
  BY DEF Divided
<1>1. p[k] \in Seq(Elements) /\ p[l] \in Seq(Elements) /\ CutsAre(n, p[k], F[k]) /\ CutsAre(n, p[l], F[l])
  BY DEF Cut
<1>2. d \in 1..n /\ sp[d].rank \in Nat \union {-1} /\ sp[d].value \in Int /\ sp[d].position \in Int
  <2>1. sp[d] \in Samples /\ d \in 1..n
    OBVIOUS
  <2> QED
    BY <2>1 DEF Samples
<1>3. p[k][j].v \in Int /\ p[l][i].v \in Int /\ Len(p[k]) \in Nat /\ Len(p[l]) \in Nat
  BY <1>1, LineElements, SMTT(30)
<1>4. F[k][d] \in Nat /\ F[l][d] \in Nat
  <2>1. F[k] \in [1..n -> 0..Len(p[k])] /\ F[l] \in [1..n -> 0..Len(p[l])]
    BY <1>1 DEF CutsAre
  <2>2. F[k][d] \in 0..Len(p[k]) /\ F[l][d] \in 0..Len(p[l])
    BY <1>2, <2>1
  <2> QED
    BY <1>3, <2>2
<1>5. j \in Below(p[k], k - 1, sp[d])
  <2>1. j \in 1..F[k][d]
    BY <1>3, <1>4
  <2> QED
    BY <2>1 DEF CutBelow
<1>6. i \notin Below(p[l], l - 1, sp[d])
  <2>1. i \notin 1..F[l][d]
    <3>1. i \in Int /\ F[l][d] \in Int /\ F[l][d] < i
      BY <1>3, <1>4, SMTT(30)
    <3> QED
      BY <3>1
  <2> QED
    BY <2>1 DEF CutBelow
<1>7. p[k][j].v < sp[d].value
      \/ (p[k][j].v = sp[d].value /\ (k - 1 < sp[d].rank \/ (k - 1 = sp[d].rank /\ j <= sp[d].position)))
  BY <1>5 DEF Below
<1>8. ~(p[l][i].v < sp[d].value
        \/ (p[l][i].v = sp[d].value /\ (l - 1 < sp[d].rank \/ (l - 1 = sp[d].rank /\ i <= sp[d].position))))
  BY <1>6 DEF Below
<1>9. p[k][j].v < p[l][i].v \/ (p[k][j].v = p[l][i].v /\ Comes(k, j, l, i))
  <2> DEFINE a == p[k][j].v  b == p[l][i].v  V == sp[d].value  R == sp[d].rank  P == sp[d].position
  <2>1. a \in Int /\ b \in Int /\ V \in Int /\ R \in Int /\ P \in Int /\ j \in Int /\ i \in Int /\ k \in Int /\ l \in Int
    <3>1. a \in Int /\ b \in Int
      BY <1>3
    <3>2. V \in Int /\ P \in Int
      BY <1>2
    <3>3. R \in Int
      <4>1. R \in Nat \union {-1}
        BY <1>2
      <4> HIDE DEF R
      <4> QED
        BY <4>1
    <3>4. j \in Int /\ i \in Int /\ k \in Int /\ l \in Int
      BY <1>3
    <3> QED
      BY <3>1, <3>2, <3>3, <3>4
  <2>2. a < V \/ (a = V /\ (k - 1 < R \/ (k - 1 = R /\ j <= P)))
    BY <1>7
  <2>3. ~(b < V \/ (b = V /\ (l - 1 < R \/ (l - 1 = R /\ i <= P))))
    BY <1>8
  <2> HIDE DEF a, b, V, R, P
  <2>4. a < b \/ (a = b /\ (k < l \/ (k = l /\ j < i)))
    BY <2>1, <2>2, <2>3
  <2> QED
    BY <2>4 DEF a, b, Comes
<1> QED
  BY <1>9 DEF Ahead

\* Who stays in the order of places.
Steady == input.argsort /\ input.stable
\* The elements of t are those of s, so many times; and it is in order.
SortedFrom(s, t) == t \in Seq(Elements) /\ Len(t) = Len(s) /\ Tidy(Steady, t) /\ SameCounts(s, t) /\ ComeFrom(s, t)
\* The places of a line go up.
PlacesGoUp(s) == \A x, y \in 1..Len(s) : x < y => s[x].i < s[y].i

\* t[x] is the f[x]-th of n elements of s.
Moves(n, f, s, t) == \A x \in 1..n : t[x] = s[f[x]]
\* Elements that change their places stay the same, so many times.
LEMMA MovedCounts ==
  ASSUME NEW n \in Nat, NEW f \in Bijection(1..n, 1..n), NEW s, NEW t, DOMAIN s = 1..n, DOMAIN t = 1..n, Moves(n, f, s, t)
  PROVE  SameCounts(s, t)
<1> SUFFICES ASSUME NEW W PROVE CountIn(t, W) = CountIn(s, W)
  BY DEF SameCounts
<1>1. \A x \in 1..n : t[x] = s[f[x]]
  BY DEF Moves
<1> QED
  BY <1>1, SortedCount

\* The outcome of a stable sort.
LEMMA StableSorted ==
  ASSUME NEW s \in Seq(Elements), NEW t, t = StableSort(s), NEW stable \in BOOLEAN, stable => PlacesGoUp(s)
  PROVE  t \in Seq(Elements) /\ Len(t) = Len(s) /\ Tidy(stable, t) /\ SameCounts(s, t) /\ ComeFrom(s, t)
<1>1. Settled(Len(s), s, t) /\ IsSequence(t) /\ DOMAIN t = 1..Len(s)
  BY StableSortSettles
<1>2. t \in Seq(Elements) /\ Len(t) = Len(s)
  BY StableSortIs
<1>3. PICK f \in Bijection(1..Len(s), 1..Len(s)) :
        /\ \A x \in 1..Len(s) : t[x] = s[f[x]]
        /\ \A x, y \in 1..Len(s) : x < y => s[f[x]].v < s[f[y]].v \/ (s[f[x]].v = s[f[y]].v /\ f[x] < f[y])
  BY <1>1 DEF Settled
<1>4. f \in [1..Len(s) -> 1..Len(s)] /\ DOMAIN s = 1..Len(s) /\ Len(s) \in Nat
  BY DEF Bijection, Injection
<1>5. SameCounts(s, t)
  <2>1. Moves(Len(s), f, s, t)
    BY <1>3 DEF Moves
  <2>2. Len(s) \in Nat /\ DOMAIN s = 1..Len(s) /\ DOMAIN t = 1..Len(s)
    BY <1>1, <1>4
  <2> QED
    BY <2>1, <2>2, MovedCounts
<1>6. Tidy(stable, t)
  <2> SUFFICES ASSUME NEW x \in 1..Len(t), NEW y \in 1..Len(t), x < y
               PROVE  t[x].v < t[y].v \/ (t[x].v = t[y].v /\ (stable => t[x].i < t[y].i))
    BY DEF Tidy
  <2>1. x \in 1..Len(s) /\ y \in 1..Len(s) /\ f[x] \in 1..Len(s) /\ f[y] \in 1..Len(s)
    BY <1>2, <1>4
  <2>2. t[x] = s[f[x]] /\ t[y] = s[f[y]]
    BY <1>3, <2>1
  <2>3. s[f[x]].v < s[f[y]].v \/ (s[f[x]].v = s[f[y]].v /\ f[x] < f[y])
    BY <1>3, <2>1
  <2>4. stable /\ f[x] < f[y] => s[f[x]].i < s[f[y]].i
    BY <2>1 DEF PlacesGoUp
  <2> QED
    BY <2>2, <2>3, <2>4
<1>7. ComeFrom(s, t)
  BY <1>2, <1>3, <1>4 DEF ComeFrom
<1> QED
  BY <1>2, <1>5, <1>6, <1>7

\* A rearrangement has the same elements.
LEMMA Rearranged ==
  ASSUME NEW s \in Seq(Elements), NEW f \in Bijection(1..Len(s), 1..Len(s)), NEW t, t = [k \in 1..Len(s) |-> s[f[k]]]
  PROVE  t \in Seq(Elements) /\ Len(t) = Len(s) /\ SameCounts(s, t) /\ ComeFrom(s, t)
<1>1. f \in [1..Len(s) -> 1..Len(s)] /\ DOMAIN s = 1..Len(s) /\ Len(s) \in Nat
  BY DEF Bijection, Injection
<1>2. \A k \in 1..Len(s) : s[f[k]] \in Elements
  BY <1>1
<1>3. t \in [1..Len(s) -> Elements]
  BY <1>2
<1>4. t \in Seq(Elements) /\ Len(t) = Len(s)
  BY <1>1, <1>3, NumbersAreSequences
<1>5. DOMAIN t = 1..Len(s) /\ \A x \in 1..Len(s) : t[x] = s[f[x]]
  OBVIOUS
<1>6. SameCounts(s, t)
  <2>1. Moves(Len(s), f, s, t)
    BY <1>5 DEF Moves
  <2>2. Len(s) \in Nat /\ DOMAIN s = 1..Len(s) /\ DOMAIN t = 1..Len(s)
    BY <1>1, <1>5
  <2> QED
    BY <2>1, <2>2, MovedCounts
<1> QED
  BY <1>1, <1>4, <1>5, <1>6 DEF ComeFrom

\* The outcome of a local sort.
LEMMA LocalSorted ==
  ASSUME NEW s \in Seq(Elements), input.argsort \in BOOLEAN, input.stable \in BOOLEAN, Steady => PlacesGoUp(s), NEW t \in LocalSorts(s)
  PROVE  SortedFrom(s, t)
<1>0. Steady \in BOOLEAN
  BY DEF Steady
<1>1. CASE input.stable
  <2>1. t = StableSort(s)
    BY <1>1 DEF LocalSorts
  <2> QED
    BY <1>0, <2>1, StableSorted DEF SortedFrom
<1>2. CASE ~input.stable
  <2>0. DOMAIN s = 1..Len(s) /\ Len(s) \in Nat
    OBVIOUS
  <2>1. PICK f \in Bijection(1..Len(s), 1..Len(s)) : t = StableSort([k \in 1..Len(s) |-> s[f[k]]])
    BY <1>2, <2>0 DEF LocalSorts
  <2>2. PICK u : u = [k \in 1..Len(s) |-> s[f[k]]]
    OBVIOUS
  <2>3. u \in Seq(Elements) /\ Len(u) = Len(s) /\ SameCounts(s, u) /\ ComeFrom(s, u)
    BY <2>2, Rearranged
  <2>4. t = StableSort(u) /\ ~Steady
    BY <1>2, <2>1, <2>2 DEF Steady
  <2>5. t \in Seq(Elements) /\ Len(t) = Len(u) /\ Tidy(Steady, t) /\ SameCounts(u, t) /\ ComeFrom(u, t)
    BY <1>0, <2>3, <2>4, StableSorted
  <2>6. SameCounts(s, t)
    BY <2>3, <2>5 DEF SameCounts
  <2>7. ComeFrom(s, t)
    BY <2>3, <2>5 DEF ComeFrom
  <2> QED
    BY <2>3, <2>5, <2>6, <2>7 DEF SortedFrom
<1> QED
  BY <1>1, <1>2

---------------------------------------------------------------------------
(* Where the parts of a line are *)

\* The k-th task of group g.
RankAt(g, k) == (g - 1) * SortRanks + k - 1

\* The k-th task of a group is a task of that group.
LEMMA RankAtIs ==
  ASSUME input \in Problems, NEW g \in 1..Len(input.lines), NEW k \in 1..SortRanks
  PROVE  RankAt(g, k) \in Ranks /\ sort_rank(RankAt(g, k)) = k - 1 /\ group(RankAt(g, k)) = g - 1
<1>1. SortRanks \in Nat \ {0} /\ Len(input.lines) \in Nat
  <2>1. WellFormed(input)
    BY ProblemsWellFormed
  <2>2. SortRanks \in Nat /\ Len(input.lines) \in Nat
    BY <2>1, LenProperties DEF WellFormed, SortRanks
  <2> QED
    BY <2>2
<1>2. g - 1 \in 0..(Len(input.lines) - 1) /\ g - 1 \in Nat /\ k - 1 \in 0..(SortRanks - 1)
  BY <1>1
<1>3. (g - 1) * SortRanks + k - 1 \in Ranks /\ (g - 1) * SortRanks + k - 1 = (g - 1) * SortRanks + (k - 1)
  BY <1>1, <1>2, RowFits DEF Ranks
<1>4. ((g - 1) * SortRanks + (k - 1)) \div SortRanks = g - 1 /\ ((g - 1) * SortRanks + (k - 1)) % SortRanks = k - 1
  BY <1>1, <1>2, DivideIs
<1>5. RankAt(g, k) \in Ranks /\ RankAt(g, k) = (g - 1) * SortRanks + (k - 1)
  BY <1>3 DEF RankAt
<1> QED
  BY <1>4, <1>5 DEF sort_rank, group

\* A line of the input has the extent of the others.
LEMMA LineType ==
  ASSUME input \in Problems, NEW g \in 1..Len(input.lines), NEW s \in 1..Len(input.lines[g])
  PROVE  input.lines[g][s] \in Seq(Values) /\ Len(input.lines[g][s]) = segment_size_g /\ segment_size_g \in Nat
<1>1. WellFormed(input)
  BY ProblemsWellFormed
<1>2. input.lines \in Seq(Seq(Seq(Values))) /\ Len(input.lines) \in Nat
  BY <1>1, LenProperties DEF WellFormed
<1>3. input.lines[g] \in Seq(Seq(Values))
  BY <1>2, ElementOfSeq
<1>4. input.lines[g][s] \in Seq(Values)
  BY <1>3, ElementOfSeq
<1>5. g \in DOMAIN input.lines /\ s \in DOMAIN input.lines[g]
  BY <1>2, <1>3, LenProperties
<1>6. Len(input.lines[g][s]) = SumOf(input.sizes)
  BY <1>1, <1>5 DEF WellFormed
<1> QED
  BY <1>4, <1>6, LenProperties DEF segment_size_g

\* Line s of group g, with the places for an argsort.
ElementAt(line, k) == [v |-> line[k], i |-> IF input.argsort THEN k - 1 ELSE 0]
Whole(g, s) == [k \in 1..segment_size_g |-> ElementAt(input.lines[g][s], k)]

\* A line of elements is as long as the line of the input.
LEMMA WholeIs ==
  ASSUME input \in Problems, NEW g \in 1..Len(input.lines), NEW s \in 1..Len(input.lines[g])
  PROVE  Whole(g, s) \in Seq(Elements) /\ Len(Whole(g, s)) = segment_size_g
<1>1. input.lines[g][s] \in Seq(Values) /\ Len(input.lines[g][s]) = segment_size_g /\ segment_size_g \in Nat
  BY LineType
<1>2. ASSUME NEW k \in 1..segment_size_g
      PROVE  [v |-> input.lines[g][s][k], i |-> IF input.argsort THEN k - 1 ELSE 0] \in Elements
  <2>1. input.lines[g][s][k] \in Int
    BY <1>1, ElementOfSeq, ValuesAssumption
  <2>2. k - 1 \in Int
    OBVIOUS
  <2> QED
    BY <2>1, <2>2 DEF Elements
<1>3. Whole(g, s) \in [1..segment_size_g -> Elements]
  BY <1>2 DEF Whole, ElementAt
<1> QED
  BY <1>1, <1>3, NumbersAreSequences

\* The part of task r is where its offset says.
PartWithin(r, s, w) ==
  /\ Part(r, s) \in Seq(Elements) /\ Len(Part(r, s)) = segment_size_l(r)
  /\ \A x \in 1..segment_size_l(r) : Offset(r) + x \in 1..Len(w) /\ Part(r, s)[x] = w[Offset(r) + x]

\* A task's part of a line is the line from its offset on.
LEMMA PartAt ==
  ASSUME input \in Problems, NEW r \in Ranks, NEW g, g = group(r) + 1, NEW s \in 1..Len(input.lines[g])
  PROVE  PartWithin(r, s, Whole(g, s))
<1>1. /\ Offset(r) \in Nat /\ segment_size_l(r) \in Nat /\ Offset(r) + segment_size_l(r) <= segment_size_g /\ segment_size_g \in Nat
  BY OffsetFits
<1>2. g \in 1..Len(input.lines)
  BY RankParts
<1>3. Whole(g, s) \in Seq(Elements) /\ Len(Whole(g, s)) = segment_size_g
  BY <1>2, WholeIs
<1>4. ASSUME NEW x \in 1..segment_size_l(r)
      PROVE  Offset(r) + x \in 1..segment_size_g /\ ElementAt(input.lines[g][s], Offset(r) + x) = Whole(g, s)[Offset(r) + x]
  <2>1. Offset(r) + x \in 1..segment_size_g
    BY <1>1
  <2> QED
    BY <2>1 DEF Whole
<1>5. Part(r, s) = [x \in 1..segment_size_l(r) |-> ElementAt(input.lines[g][s], Offset(r) + x)]
  <2>1. Part(r, s) = [x \in 1..segment_size_l(r) |-> ElementAt(input.lines[group(r) + 1][s], Offset(r) + x)]
    <3>1. \A x \in 1..segment_size_l(r) : Offset(r) + x - 1 = (Offset(r) + x) - 1
      BY <1>1
    <3> QED
      BY <3>1 DEF Part, ElementAt
  <2> QED
    BY <2>1
<1>6. \A x \in 1..segment_size_l(r) : Part(r, s)[x] = Whole(g, s)[Offset(r) + x] /\ Whole(g, s)[Offset(r) + x] \in Elements
  BY <1>3, <1>4, <1>5, ElementOfSeq
<1>7. Part(r, s) \in [1..segment_size_l(r) -> Elements]
  BY <1>5, <1>6
<1> QED
  BY <1>1, <1>3, <1>4, <1>6, <1>7, NumbersAreSequences DEF PartWithin

\* h[k]: where the parts of the first k tasks of a group end.
Borders(h) ==
  /\ h \in [0..SortRanks -> Nat] /\ h[0] = 0 /\ h[SortRanks] = segment_size_g
  /\ \A k \in 1..SortRanks : input.sizes[k] \in Nat /\ h[k] = h[k - 1] + input.sizes[k]

\* There are such borders, and the last one is the end of the line.
LEMMA BordersExist ==
  ASSUME input \in Problems
  PROVE  SortRanks \in Nat /\ \E h : Borders(h)
<1>1. WellFormed(input)
  BY ProblemsWellFormed
<1>2. input.sizes \in Seq(Nat) /\ SortRanks \in Nat /\ SortRanks = Len(input.sizes)
  BY <1>1, LenProperties DEF WellFormed, SortRanks
<1>3. input.sizes \in Numbers(SortRanks) /\ \A k \in 1..SortRanks : input.sizes[k] \in Nat
  BY <1>2, LenProperties, ElementOfSeq DEF Numbers
<1>4. PICK h \in [0..SortRanks -> Int] :
        h[0] = 0 /\ (\A k \in 1..SortRanks : h[k] = h[k - 1] + input.sizes[k]) /\ SumOf(input.sizes) = h[SortRanks]
  BY <1>2, <1>3, SumSteps
<1>5. \A k \in 0..SortRanks : h[k] \in Nat
  <2> DEFINE G == { k \in 0..SortRanks : h[k] \in Nat }
  <2>1. 0 \in G
    BY <1>2, <1>4
  <2>2. \A k \in 1..SortRanks : k - 1 \in G => k \in G
    <3> SUFFICES ASSUME NEW k \in 1..SortRanks, k - 1 \in G PROVE k \in G
      OBVIOUS
    <3>1. h[k - 1] \in Nat /\ input.sizes[k] \in Nat /\ h[k] = h[k - 1] + input.sizes[k] /\ k \in 0..SortRanks
      BY <1>2, <1>3, <1>4
    <3> QED
      BY <3>1
  <2> HIDE DEF G
  <2>3. \A k \in 0..SortRanks : k \in G
    BY <1>2, <2>1, <2>2, Induction
  <2> QED
    BY <2>3 DEF G
<1>6. h \in [0..SortRanks -> Nat]
  BY <1>5
<1>7. Borders(h)
  BY <1>3, <1>4, <1>6 DEF Borders, segment_size_g
<1> QED
  BY <1>2, <1>7

\* They are the offsets.
LEMMA OffsetIs ==
  ASSUME input \in Problems, NEW h, Borders(h), NEW r \in Ranks
  PROVE  Offset(r) = h[sort_rank(r)] /\ sort_rank(r) \in 0..(SortRanks - 1) /\ sort_rank(r) + 1 \in 1..SortRanks
         /\ segment_size_l(r) = input.sizes[sort_rank(r) + 1]
<1>1. PICK j : j = sort_rank(r)
  OBVIOUS
<1>2. j \in 0..(SortRanks - 1) /\ SortRanks \in Nat /\ WellFormed(input)
  BY <1>1, RankFacts
<1>3. input.sizes \in Seq(Nat) /\ SortRanks = Len(input.sizes) /\ j \in Nat /\ j \in 0..SortRanks
  BY <1>2 DEF WellFormed, SortRanks
<1>4. SubSeq(input.sizes, 1, j) \in Seq(Nat) /\ Len(SubSeq(input.sizes, 1, j)) = j /\ \A k \in 1..j : SubSeq(input.sizes, 1, j)[k] = input.sizes[k]
  <2>1. CASE j = 0
    <3>1. SubSeq(input.sizes, 1, j) = << >>
      BY <1>3, <2>1, SubSeqEmpty
    <3> QED
      BY <2>1, <3>1
  <2>2. CASE j # 0
    BY <1>2, <1>3, <2>2, SubSeqProperties
  <2> QED
    BY <2>1, <2>2
<1>5. PICK t : t = SubSeq(input.sizes, 1, j)
  OBVIOUS
<1>6. t \in Seq(Int) /\ Len(t) = j /\ \A k \in 1..j : t[k] = input.sizes[k]
  BY <1>4, <1>5, NumbersAreIntegers
<1>7. h[0] = 0 /\ \A k \in 1..Len(t) : h[k] = h[k - 1] + t[k]
  <2>1. \A k \in 1..j : k \in 1..SortRanks
    BY <1>2
  <2> QED
    BY <1>6, <2>1 DEF Borders
<1>8. SumOf(t) = h[j]
  BY <1>6, <1>7, SumIs
<1> QED
  BY <1>1, <1>2, <1>5, <1>8 DEF Offset, segment_size_l

\* Line s of the first n tasks of group g, unsorted.
Portions(g, s, n) == [k \in 1..n |-> Part(RankAt(g, k), s)]

\* Borders are numbers.
LEMMA BordersType ==
  ASSUME input \in Problems, NEW h, Borders(h), NEW n \in 0..SortRanks
  PROVE  /\ \A k \in 0..n : k \in 0..SortRanks /\ h[k] \in Nat
         /\ \A k \in 1..n : k \in 0..n /\ k - 1 \in 0..n /\ h[k - 1] \in Nat
<1>1. SortRanks \in Nat
  BY BordersExist
<1>2. h \in [0..SortRanks -> Nat]
  BY DEF Borders
<1>3. \A k \in 0..n : k \in 0..SortRanks
  BY <1>1
<1>4. \A k \in 1..n : k \in 0..n /\ k - 1 \in 0..n
  BY <1>1
<1> QED
  BY <1>2, <1>3, <1>4

\* Part k of a line is behind the first k - 1.
Portioned(g, s, h, k, q) ==
  /\ q \in Seq(Elements) /\ Len(q) \in Nat /\ h[k - 1] \in Nat /\ h[k] = h[k - 1] + Len(q)
  /\ \A x \in 1..Len(q) : h[k - 1] + x \in 1..segment_size_g /\ q[x] = Whole(g, s)[h[k - 1] + x]

\* The part of the k-th task is the line between two borders.
LEMMA PortionsAre ==
  ASSUME input \in Problems, NEW g \in 1..Len(input.lines), NEW s \in 1..Len(input.lines[g]), NEW h, Borders(h),
         NEW n \in 0..SortRanks, NEW k \in 1..n, NEW q, q = Part(RankAt(g, k), s)
  PROVE  Portioned(g, s, h, k, q)
<1>1. SortRanks \in Nat /\ k \in 1..SortRanks /\ k - 1 \in 0..SortRanks
  BY BordersExist
<1>2. PICK r : r = RankAt(g, k)
  OBVIOUS
<1>3. r \in Ranks /\ sort_rank(r) = k - 1 /\ group(r) = g - 1
  BY <1>1, <1>2, RankAtIs
<1>4. g = group(r) + 1 /\ k = sort_rank(r) + 1
  BY <1>1, <1>3
<1>5. PartWithin(r, s, Whole(g, s))
  BY <1>3, <1>4, PartAt
<1>6. Offset(r) = h[k - 1] /\ segment_size_l(r) = input.sizes[k]
  BY <1>3, <1>4, OffsetIs
<1>7. h[k - 1] \in Nat /\ input.sizes[k] \in Nat /\ h[k] = h[k - 1] + input.sizes[k]
  BY <1>1 DEF Borders
<1>8. Len(Whole(g, s)) = segment_size_g
  BY WholeIs
<1> QED
  BY <1>2, <1>5, <1>6, <1>7, <1>8 DEF PartWithin, Portioned

\* The parts of all tasks with elements are the line.
LEMMA PortionsJoined ==
  ASSUME input \in Problems, NEW g \in 1..Len(input.lines), NEW s \in 1..Len(input.lines[g]), NEW h, Borders(h),
         NEW n \in 0..SortRanks, h[n] = segment_size_g
  PROVE  Portions(g, s, n) \in [1..n -> Seq(Elements)] /\ FlattenSeq(Portions(g, s, n)) = Whole(g, s)
<1>0. n \in Nat /\ SortRanks \in Nat
  BY BordersExist
<1>1. PICK q : q = Portions(g, s, n)
  OBVIOUS
<1>2. ASSUME NEW k \in 1..n
      PROVE  /\ q[k] = Part(RankAt(g, k), s) /\ q[k] \in Seq(Elements) /\ h[k] = h[k - 1] + Len(q[k]) /\ Len(q[k]) \in Nat
             /\ \A x \in 1..Len(q[k]) : q[k][x] = Whole(g, s)[h[k - 1] + x]
  <2>1. q[k] = Part(RankAt(g, k), s)
    BY <1>1 DEF Portions
  <2>2. Portioned(g, s, h, k, q[k])
    BY <2>1, PortionsAre
  <2> QED
    BY <2>1, <2>2 DEF Portioned
<1>3. q \in [1..n -> Seq(Elements)]
  BY <1>1, <1>2 DEF Portions
<1>4. PICK u : u = [k \in 0..n |-> h[k]]
  OBVIOUS
<1>5. \A k \in 0..n : u[k] = h[k] /\ h[k] \in Nat
  BY <1>4, BordersType
<1>6. Heights(n, q, u)
  <2>1. u \in [0..n -> Nat] /\ u[0] = 0
    BY <1>0, <1>4, <1>5 DEF Borders
  <2>2. ASSUME NEW k \in 1..n PROVE Len(q[k]) \in Nat /\ u[k] = u[k - 1] + Len(q[k])
    <3>1. k \in 0..n /\ k - 1 \in 0..n
      BY <1>0
    <3> QED
      BY <1>2, <1>5, <3>1
  <2> QED
    BY <2>1, <2>2 DEF Heights
<1>7. Whole(g, s) \in Seq(Elements) /\ Len(Whole(g, s)) = segment_size_g
  BY WholeIs
<1>8. Joined(n, q, u, Whole(g, s))
  <2>1. IsSequence(Whole(g, s))
    BY <1>7 DEF IsSequence
  <2>2. Len(Whole(g, s)) = u[n]
    BY <1>0, <1>5, <1>7
  <2>3. ASSUME NEW k \in 1..n, NEW x \in 1..Len(q[k]) PROVE Whole(g, s)[u[k - 1] + x] = q[k][x]
    <3>1. u[k - 1] = h[k - 1]
      BY <1>0, <1>5
    <3> QED
      BY <1>2, <3>1
  <2> QED
    BY <1>6, <2>1, <2>2, <2>3 DEF Joined
<1>9. IsJoined(n, q, FlattenSeq(q))
  BY <1>0, <1>3, LinesJoined
<1>10. PICK v : Joined(n, q, v, FlattenSeq(q))
  BY <1>9 DEF IsJoined
<1>11. FlattenSeq(q) = Whole(g, s)
  BY <1>0, <1>8, <1>10, JoinedSame
<1> QED
  BY <1>1, <1>3, <1>11

\* Sequences with the same elements, concatenated.
AllSameCounts(n, q, p) == \A k \in 1..n : SameCounts(q[k], p[k])
\* Concatenations of sequences that have the same elements have the same elements.
LEMMA FlattenSame ==
  ASSUME NEW n \in Nat, NEW X, NEW q \in [1..n -> Seq(X)], NEW p \in [1..n -> Seq(X)], AllSameCounts(n, q, p)
  PROVE  SameCounts(FlattenSeq(q), FlattenSeq(p))
<1> SUFFICES ASSUME NEW W PROVE CountIn(FlattenSeq(p), W) = CountIn(FlattenSeq(q), W)
  BY DEF SameCounts
<1>1. PICK c : c = [k \in 1..n |-> CountIn(q[k], W)]
  OBVIOUS
<1>2. \A k \in 1..n : q[k] \in Seq(X) /\ p[k] \in Seq(X) /\ CountIn(p[k], W) = CountIn(q[k], W)
  BY DEF AllSameCounts, SameCounts
<1>3. \A k \in 1..n : CountIn(q[k], W) \in Int
  <2> SUFFICES ASSUME NEW k \in 1..n PROVE CountIn(q[k], W) \in Int
    OBVIOUS
  <2>1. q[k] \in Seq(X)
    BY <1>2
  <2>2. IsSequence(q[k]) /\ Len(q[k]) \in Nat
    BY <2>1, LenProperties DEF IsSequence
  <2>3. CountIn(q[k], W) \in 0..Len(q[k])
    BY <2>2, CountType
  <2> QED
    BY <2>2, <2>3
<1>4. c \in Numbers(n)
  BY <1>1, <1>3 DEF Numbers
<1>5. CountsOf(n, q, W, c) /\ CountsOf(n, p, W, c)
  BY <1>1, <1>2 DEF CountsOf
<1>6. IsSequence(q) /\ Len(q) = n /\ IsSequence(p) /\ Len(p) = n
  BY NumbersAreSequences
<1>7. CountIn(FlattenSeq(q), W) = SumOf(c)
  BY <1>2, <1>4, <1>5, <1>6, FlattenCount
<1>8. CountIn(FlattenSeq(p), W) = SumOf(c)
  BY <1>2, <1>4, <1>5, <1>6, FlattenCount
<1> QED
  BY <1>7, <1>8

\* What the tasks have after their local sorts.
LocalPieces(g, s, n, p) == \A k \in 1..n : p[k] \in LocalSorts(Part(RankAt(g, k), s))

\* The place of an element behind a.
LEMMA PlaceWithin ==
  ASSUME NEW a \in Nat, NEW l \in Nat, NEW b, b = a + l, NEW y \in 1..l PROVE (a + y) - 1 \in a..(b - 1)
OBVIOUS
\* Places between other borders are other places.
LEMMA PlacesApart ==
  ASSUME NEW a \in Nat, NEW b \in Nat, NEW c \in Nat, NEW d \in Nat, b <= c, NEW x \in a..(b - 1), NEW y \in c..(d - 1)
  PROVE  x < y
OBVIOUS

\* A piece has the elements of its part, in order, and for a stable argsort their places.
LEMMA LocalPieceIs ==
  ASSUME input \in Problems, NEW g \in 1..Len(input.lines), NEW s \in 1..Len(input.lines[g]), NEW h, Borders(h),
         NEW n \in 0..SortRanks, NEW k \in 1..n, NEW t \in LocalSorts(Part(RankAt(g, k), s))
  PROVE  /\ SortedFrom(Part(RankAt(g, k), s), t) /\ h[k - 1] \in Nat
         /\ Steady => \A x \in 1..Len(t) : t[x].i \in h[k - 1]..(h[k] - 1)
<1>1. PICK q : q = Part(RankAt(g, k), s)
  OBVIOUS
<1>2. /\ q \in Seq(Elements) /\ Len(q) \in Nat /\ h[k - 1] \in Nat /\ h[k] = h[k - 1] + Len(q)
      /\ \A x \in 1..Len(q) : h[k - 1] + x \in 1..segment_size_g /\ q[x] = Whole(g, s)[h[k - 1] + x]
  <2>1. Portioned(g, s, h, k, q)
    BY <1>1, PortionsAre
  <2> QED
    BY <2>1 DEF Portioned
<1>3. input.argsort \in BOOLEAN /\ input.stable \in BOOLEAN
  BY ProblemsWellFormed DEF WellFormed
<1>4. ASSUME Steady, NEW x \in 1..Len(q) PROVE q[x].i = (h[k - 1] + x) - 1
  <2>1. PICK y : y = h[k - 1] + x
    OBVIOUS
  <2>2. y \in 1..segment_size_g /\ q[x] = Whole(g, s)[y]
    BY <1>2, <2>1
  <2>3. q[x] = [v |-> input.lines[g][s][y], i |-> y - 1]
    BY <1>4, <2>2 DEF Whole, ElementAt, Steady
  <2> QED
    BY <2>1, <2>3
<1>5. Steady => PlacesGoUp(q)
  <2> SUFFICES ASSUME Steady, NEW x \in 1..Len(q), NEW y \in 1..Len(q), x < y PROVE q[x].i < q[y].i
    BY DEF PlacesGoUp
  <2>1. q[x].i = (h[k - 1] + x) - 1 /\ q[y].i = (h[k - 1] + y) - 1
    BY <1>4
  <2> QED
    BY <1>2, <2>1, SMTT(30)
<1>6. SortedFrom(q, t)
  BY <1>1, <1>2, <1>3, <1>5, LocalSorted
<1>7. ASSUME Steady, NEW x \in 1..Len(t) PROVE t[x].i \in h[k - 1]..(h[k] - 1)
  <2>1. PICK y \in 1..Len(q) : t[x] = q[y]
    BY <1>6 DEF SortedFrom, ComeFrom
  <2>2. t[x].i = (h[k - 1] + y) - 1
    BY <1>4, <1>7, <2>1
  <2> QED
    <3>1. h[k - 1] \in Nat /\ Len(q) \in Nat /\ h[k] = h[k - 1] + Len(q) /\ y \in 1..Len(q)
      BY <1>2
    <3> QED
      BY <2>2, <3>1, PlaceWithin
<1> QED
  BY <1>1, <1>2, <1>6, <1>7

\* The pieces of a group ascend, and together have the elements of the line.
LEMMA PiecesAscend ==
  ASSUME input \in Problems, NEW g \in 1..Len(input.lines), NEW s \in 1..Len(input.lines[g]), NEW h, Borders(h),
         NEW n \in 0..SortRanks, h[n] = segment_size_g, NEW p, p = [k \in 1..n |-> p[k]], LocalPieces(g, s, n, p)
  PROVE  p \in [1..n -> Seq(Elements)] /\ Ascending(Steady, n, p) /\ SameCounts(Whole(g, s), FlattenSeq(p))
<1>0. n \in Nat /\ SortRanks \in Nat
  BY BordersExist
<1>1. ASSUME NEW k \in 1..n
      PROVE  /\ SortedFrom(Part(RankAt(g, k), s), p[k]) /\ h[k - 1] \in Nat
             /\ Steady => \A x \in 1..Len(p[k]) : p[k][x].i \in h[k - 1]..(h[k] - 1)
  <2>1. p[k] \in LocalSorts(Part(RankAt(g, k), s))
    BY DEF LocalPieces
  <2> QED
    BY <2>1, LocalPieceIs
<1>2. \A k \in 1..n : p[k] \in Seq(Elements) /\ Tidy(Steady, p[k])
  BY <1>1 DEF SortedFrom
<1>3. p \in [1..n -> Seq(Elements)]
  BY <1>2
<1>4. ASSUME NEW k \in 0..n, NEW l \in k..n PROVE h[k] <= h[l]
  <2> DEFINE G == { j \in 0..n : j >= k => h[k] <= h[j] }
  <2>1. \A j \in 0..n : h[j] \in Nat
    BY BordersType
  <2>2. 0 \in G
    BY <1>0, <2>1
  <2>3. ASSUME NEW j \in 1..n, j - 1 \in G PROVE j \in G
    <3>1. h[j] = h[j - 1] + input.sizes[j] /\ input.sizes[j] \in Nat
      BY <1>0 DEF Borders
    <3>2. h[j] \in Nat /\ h[j - 1] \in Nat /\ h[k] \in Nat
      BY <2>1, BordersType
    <3>3. CASE j - 1 >= k
      BY <2>3, <3>1, <3>2, <3>3, SMTT(30)
    <3>4. CASE j - 1 < k
      BY <1>0, <3>2, <3>4
    <3> QED
      BY <1>0, <3>3, <3>4
  <2> HIDE DEF G
  <2>4. \A j \in 0..n : j \in G
    BY <1>0, <2>2, <2>3, Induction
  <2> QED
    BY <1>0, <2>4 DEF G
<1>5. ASSUME Steady, NEW k \in 1..n, NEW l \in 1..n, k < l, NEW j \in 1..Len(p[k]), NEW i \in 1..Len(p[l])
      PROVE  p[k][j].i < p[l][i].i
  <2>1. p[k][j].i \in h[k - 1]..(h[k] - 1) /\ p[l][i].i \in h[l - 1]..(h[l] - 1)
    BY <1>1, <1>5
  <2>2. h[k] <= h[l - 1]
    <3>1. k \in 0..n /\ l - 1 \in k..n
      BY <1>0, <1>5
    <3> QED
      BY <1>4, <3>1
  <2>3. h[k] \in Nat /\ h[l - 1] \in Nat /\ h[l] \in Nat /\ h[k - 1] \in Nat
    BY BordersType
  <2> QED
    BY <2>1, <2>2, <2>3, PlacesApart
<1>6. Ascending(Steady, n, p)
  BY <1>2, <1>5 DEF Ascending
<1>7. Portions(g, s, n) \in [1..n -> Seq(Elements)] /\ FlattenSeq(Portions(g, s, n)) = Whole(g, s)
  BY PortionsJoined
<1>8. AllSameCounts(n, Portions(g, s, n), p)
  BY <1>1 DEF AllSameCounts, Portions, SortedFrom
<1>9. SameCounts(Whole(g, s), FlattenSeq(p))
  <2>1. SameCounts(FlattenSeq(Portions(g, s, n)), FlattenSeq(p))
    BY <1>0, <1>3, <1>7, <1>8, FlattenSame
  <2> QED
    BY <1>7, <2>1
<1> QED
  BY <1>3, <1>6, <1>9

---------------------------------------------------------------------------
(* The shift to the neighbours *)

\* How many elements of M[k] stay, when R[k] are too many in the first k lines.
Stays(M, R, k) == Len(M[k]) - Positive(-R[k - 1]) - Positive(R[k])
\* t is M[k] after the shift: what was too much for those to the left, what stays, and what lacks from the right.
ShiftedTo(M, R, k, t) ==
  /\ t \in Seq(Elements) /\ Len(t) = Positive(R[k - 1]) + Stays(M, R, k) + Positive(-R[k])
  /\ \A x \in 1..Positive(R[k - 1]) : t[x] = M[k - 1][Len(M[k - 1]) - Positive(R[k - 1]) + x]
  /\ \A x \in 1..Stays(M, R, k) : t[Positive(R[k - 1]) + x] = M[k][Positive(-R[k - 1]) + x]
  /\ \A x \in 1..Positive(-R[k]) : t[Positive(R[k - 1]) + Stays(M, R, k) + x] = M[k + 1][x]
\* R: what is too much for the first k tasks, of which the k-th should end at o[k]; nobody sends more than it has.
Shifts(n, M, P, o, R) ==
  /\ o \in [0..n -> Nat] /\ o[0] = 0 /\ o[n] = P[n]
  /\ \A k \in 0..n : R[k] = P[k] - o[k]
  /\ \A k \in 1..n : o[k - 1] <= o[k] /\ Positive(-R[k - 1]) + Positive(R[k]) <= Len(M[k])

\* A number is what is positive of it less what is positive of its opposite.
LEMMA PositiveIs ==
  ASSUME NEW a \in Int
  PROVE  Positive(a) \in Nat /\ Positive(-a) \in Nat /\ Positive(a) - Positive(-a) = a /\ (a <= 0 => Positive(a) = 0)
         /\ (a >= 0 => Positive(-a) = 0) /\ (a > 0 => Positive(a) = a) /\ (a < 0 => Positive(-a) = -a)
BY DEF Positive

\* The numbers of the k-th shift.
Scale(n, M, P, o, R, k, a, b, l, p, q) ==
  /\ a \in Int /\ b \in Int /\ l \in Nat /\ p \in Nat /\ q \in Nat /\ a = R[k - 1] /\ b = R[k] /\ l = Len(M[k]) /\ p = P[k - 1] /\ q = o[k - 1]
  /\ a = p - q /\ P[k] = p + l /\ o[k] \in Nat /\ q <= o[k] /\ b = (p + l) - o[k]
  /\ Positive(-a) + Positive(b) <= l /\ (k = 1 => a = 0) /\ (k = n => b = 0)

\* The numbers of a shift.
LEMMA ScaleIs ==
  ASSUME NEW n \in Nat, NEW M, NEW P, Heights(n, M, P), NEW o, NEW R, Shifts(n, M, P, o, R), NEW k \in 1..n
  PROVE  \E a, b, l, p, q : Scale(n, M, P, o, R, k, a, b, l, p, q)
<1>1. k \in 0..n /\ k - 1 \in 0..n /\ 0 \in 0..n /\ n \in 0..n
  OBVIOUS
<1>2. P[k] \in Nat /\ P[k - 1] \in Nat /\ P[0] = 0 /\ o[k] \in Nat /\ o[k - 1] \in Nat /\ o[0] = 0 /\ P[k] = P[k - 1] + Len(M[k])
      /\ Len(M[k]) \in Nat /\ P[n] \in Nat /\ o[n] = P[n]
  BY <1>1 DEF Heights, Shifts
<1>3. /\ R[k] = P[k] - o[k] /\ R[k - 1] = P[k - 1] - o[k - 1] /\ o[k - 1] <= o[k]
      /\ Positive(-R[k - 1]) + Positive(R[k]) <= Len(M[k])
  BY <1>1 DEF Shifts
<1>4. k = 1 => R[k - 1] = 0
  BY <1>2, <1>3
<1>5. k = n => R[k] = 0
  BY <1>2, <1>3
<1>6. R[k - 1] \in Int /\ R[k] \in Int /\ R[k] = (P[k - 1] + Len(M[k])) - o[k]
  BY <1>2, <1>3, SMTT(30)
<1>7. Scale(n, M, P, o, R, k, R[k - 1], R[k], Len(M[k]), P[k - 1], o[k - 1])
  BY <1>2, <1>3, <1>4, <1>5, <1>6 DEF Scale
<1> QED
  BY <1>7

\* What comes in, stays, and comes in from the other side, is what should be there.
LEMMA ShiftedLength ==
  ASSUME NEW a \in Int, NEW b \in Int, NEW l \in Nat, NEW p \in Nat, NEW q \in Nat, NEW z \in Nat,
         a = p - q, b = (p + l) - z, Positive(-a) + Positive(b) <= l
  PROVE  /\ Positive(a) \in Nat /\ l - Positive(-a) - Positive(b) \in Nat /\ Positive(-b) \in Nat
         /\ Positive(a) + (l - Positive(-a) - Positive(b)) + Positive(-b) = z - q
BY DEF Positive

\* Something comes from the left only when something was too much.
LEMMA SomeOf ==
  ASSUME NEW n \in Nat, NEW a \in Int, a <= 0 => n = 0, a > 0 => n = a, NEW x \in 1..n
  PROVE  a > 0 /\ n = a /\ x \in 1..a /\ a # 0
OBVIOUS
\* Something comes from the right only when something lacked.
LEMMA SomeLess ==
  ASSUME NEW n \in Nat, NEW b \in Int, b >= 0 => n = 0, b < 0 => n = -b, NEW x \in 1..n
  PROVE  b < 0 /\ n = -b /\ x \in 1..(-b) /\ b # 0 /\ b <= 0
OBVIOUS
\* No more than it has.
LEMMA NoMore ==
  ASSUME NEW n \in Nat, NEW a \in Int, NEW l \in Nat, n + a <= l PROVE a <= l
OBVIOUS

\* After the shift, a task has what it should have.
LEMMA ShiftedIs ==
  ASSUME NEW n \in Nat, NEW M, NEW P, NEW c, Joined(n, M, P, c), NEW o, NEW R, Shifts(n, M, P, o, R),
         NEW k \in 1..n, NEW t, ShiftedTo(M, R, k, t)
  PROVE  Len(t) = o[k] - o[k - 1] /\ \A x \in 1..Len(t) : t[x] = c[o[k - 1] + x]
<1>0. Heights(n, M, P)
  BY DEF Joined
<1>1. PICK a, b, l, p, q : Scale(n, M, P, o, R, k, a, b, l, p, q)
  BY <1>0, ScaleIs
<1>2. /\ a \in Int /\ b \in Int /\ l \in Nat /\ p \in Nat /\ q \in Nat /\ a = R[k - 1] /\ b = R[k] /\ l = Len(M[k])
      /\ p = P[k - 1] /\ q = o[k - 1] /\ a = p - q /\ P[k] = p + l /\ o[k] \in Nat /\ q <= o[k] /\ b = (p + l) - o[k]
      /\ Positive(-a) + Positive(b) <= l /\ (k = 1 => a = 0) /\ (k = n => b = 0)
  BY <1>1 DEF Scale
<1>3. PICK A, A1, B, B1, m : A = Positive(a) /\ A1 = Positive(-a) /\ B = Positive(b) /\ B1 = Positive(-b) /\ m = l - A1 - B
  OBVIOUS
<1>4. /\ A \in Nat /\ A1 \in Nat /\ B \in Nat /\ B1 \in Nat /\ m \in Nat /\ A - A1 = a /\ B - B1 = b /\ (A + m) + B1 = o[k] - q
      /\ (a <= 0 => A = 0) /\ (a > 0 => A = a) /\ (b >= 0 => B1 = 0) /\ (b < 0 => B1 = -b) /\ (b <= 0 => B = 0)
  <2>1. /\ A \in Nat /\ A1 \in Nat /\ A - A1 = a /\ (a <= 0 => A = 0) /\ (a > 0 => A = a)
    BY <1>2, <1>3, PositiveIs
  <2>2. /\ B \in Nat /\ B1 \in Nat /\ B - B1 = b /\ (b >= 0 => B1 = 0) /\ (b < 0 => B1 = -b) /\ (b <= 0 => B = 0)
    BY <1>2, <1>3, PositiveIs
  <2>3. A1 + B <= l
    BY <1>2, <1>3
  <2>4. PICK z \in Nat : z = o[k]
    BY <1>2
  <2>5. a = p - q /\ b = (p + l) - z /\ a \in Int /\ b \in Int /\ l \in Nat /\ p \in Nat /\ q \in Nat /\ m = l - A1 - B
    BY <1>2, <1>3, <2>4
  <2>6. m \in Nat /\ (A + m) + B1 = z - q
    BY <2>1, <2>2, <2>3, <2>5
  <2> QED
    BY <2>1, <2>2, <2>4, <2>6
<1>5. /\ t \in Seq(Elements) /\ Len(t) = (A + m) + B1
      /\ \A x \in 1..A : t[x] = M[k - 1][Len(M[k - 1]) - A + x]
      /\ \A x \in 1..m : t[A + x] = M[k][A1 + x]
      /\ \A x \in 1..B1 : t[(A + m) + x] = M[k + 1][x]
  BY <1>2, <1>3, SMTT(30) DEF ShiftedTo, Stays
<1>6. ASSUME NEW j \in 1..n, NEW y \in 1..Len(M[j]) PROVE c[P[j - 1] + y] = M[j][y]
  BY DEF Joined
<1>7. ASSUME NEW x \in 1..A PROVE t[x] = c[q + x]
  <2>1. a > 0 /\ A = a /\ x \in 1..a /\ k # 1
    <3>1. a > 0 /\ A = a /\ x \in 1..a /\ a # 0
      BY <1>2, <1>4, <1>7, SomeOf
    <3> QED
      BY <1>2, <3>1
  <2>2. k - 1 \in 1..n
    BY <2>1
  <2>3. PICK a1, b1, l1, p1, q1 : Scale(n, M, P, o, R, k - 1, a1, b1, l1, p1, q1)
    BY <1>0, <2>2, ScaleIs
  <2>4. /\ a1 \in Int /\ b1 \in Int /\ l1 \in Nat /\ p1 \in Nat /\ b1 = R[k - 1] /\ l1 = Len(M[k - 1])
        /\ p1 = P[(k - 1) - 1] /\ P[k - 1] = p1 + l1 /\ Positive(-a1) + Positive(b1) <= l1
    BY <2>3 DEF Scale
  <2>5. b1 = a /\ a <= l1
    <3>1. b1 = a /\ Positive(b1) = A
      BY <1>2, <1>3, <2>4
    <3>2. PICK z \in Nat : z = Positive(-a1)
      BY <2>4, PositiveIs
    <3>3. z + a <= l1
      BY <2>1, <2>4, <3>1, <3>2
    <3>4. a <= l1
      BY <1>2, <2>4, <3>3, NoMore
    <3> QED
      BY <3>1, <3>4
  <2>6. PICK y : y = l1 - a + x
    OBVIOUS
  <2>7. y \in 1..l1 /\ p1 + y = q + x
    <3>1. p = p1 + l1 /\ a = p - q /\ a \in Int /\ p \in Nat /\ q \in Nat /\ l1 \in Nat /\ p1 \in Nat /\ a <= l1
      BY <1>2, <2>4, <2>5
    <3> QED
      BY <2>1, <2>6, <3>1
  <2>8. t[x] = M[k - 1][y]
    BY <1>5, <1>7, <2>1, <2>4, <2>6
  <2>9. c[p1 + y] = M[k - 1][y]
    BY <1>6, <2>2, <2>4, <2>7
  <2> QED
    BY <2>7, <2>8, <2>9
<1>8. ASSUME NEW x \in 1..m PROVE t[A + x] = c[q + (A + x)]
  <2>1. PICK y : y = A1 + x
    OBVIOUS
  <2>2. y \in 1..l /\ p + y = q + (A + x)
    <3>1. /\ A - A1 = a /\ a = p - q /\ m = l - A1 - B /\ A \in Nat /\ A1 \in Nat /\ B \in Nat /\ m \in Nat /\ l \in Nat
          /\ p \in Nat /\ q \in Nat /\ a \in Int
      BY <1>2, <1>3, <1>4
    <3> QED
      BY <2>1, <3>1
  <2>3. t[A + x] = M[k][y]
    BY <1>5, <2>1
  <2>4. c[p + y] = M[k][y]
    BY <1>2, <1>6, <2>2
  <2> QED
    BY <2>2, <2>3, <2>4
<1>9. ASSUME NEW x \in 1..B1 PROVE t[(A + m) + x] = c[q + ((A + m) + x)]
  <2>1. b < 0 /\ B1 = -b /\ x \in 1..(-b) /\ k # n /\ B = 0
    <3>1. b < 0 /\ B1 = -b /\ x \in 1..(-b) /\ b # 0 /\ b <= 0
      BY <1>2, <1>4, <1>9, SomeLess
    <3> QED
      BY <1>2, <1>4, <3>1
  <2>2. k + 1 \in 1..n /\ (k + 1) - 1 = k
    BY <2>1
  <2>3. PICK a1, b1, l1, p1, q1 : Scale(n, M, P, o, R, k + 1, a1, b1, l1, p1, q1)
    BY <1>0, <2>2, ScaleIs
  <2>4. /\ a1 \in Int /\ b1 \in Int /\ l1 \in Nat /\ a1 = R[k] /\ l1 = Len(M[k + 1])
        /\ Positive(-a1) + Positive(b1) <= l1
    BY <2>2, <2>3 DEF Scale
  <2>5. -b <= l1
    <3>1. Positive(-a1) = B1
      BY <1>2, <1>3, <2>4
    <3>2. PICK z \in Nat : z = Positive(b1)
      BY <2>4, PositiveIs
    <3>3. (-b) + z <= l1
      BY <2>1, <2>4, <3>1, <3>2
    <3>4. PICK d \in Int : d = -b /\ z + d <= l1
      BY <1>2, <2>4, <3>2, <3>3, SMTT(30)
    <3>5. d <= l1
      BY <2>4, <3>4, NoMore
    <3> QED
      BY <3>4, <3>5
  <2>6. x \in 1..l1
    BY <1>2, <2>1, <2>4, <2>5, SMTT(30)
  <2>7. c[P[k] + x] = M[k + 1][x]
    BY <1>6, <2>2, <2>4, <2>6
  <2>8. P[k] + x = q + ((A + m) + x)
    <3>1. /\ A - A1 = a /\ a = p - q /\ m = l - A1 - B /\ B = 0 /\ A \in Nat /\ A1 \in Nat /\ l \in Nat
          /\ p \in Nat /\ q \in Nat /\ a \in Int /\ P[k] = p + l
      BY <1>2, <1>3, <1>4, <2>1
    <3> QED
      BY <3>1
  <2> QED
    BY <1>5, <2>7, <2>8
<1>10. ASSUME NEW x \in 1..Len(t) PROVE t[x] = c[q + x]
  <2>0. x \in Nat /\ x >= 1 /\ x <= (A + m) + B1
    BY <1>4, <1>5
  <2>1. CASE x <= A
    BY <1>4, <1>7, <2>0, <2>1
  <2>2. CASE x > A /\ x <= A + m
    <3>1. PICK y : y = x - A
      OBVIOUS
    <3>2. y \in 1..m /\ A + y = x
      BY <1>4, <2>0, <2>2, <3>1
    <3> QED
      BY <1>8, <3>2
  <2>3. CASE x > A + m
    <3>1. PICK y : y = x - (A + m)
      OBVIOUS
    <3>2. y \in 1..B1 /\ (A + m) + y = x
      BY <1>4, <2>0, <2>3, <3>1
    <3> QED
      BY <1>9, <3>2
  <2> QED
    BY <1>4, <2>0, <2>1, <2>2, <2>3
<1> QED
  BY <1>2, <1>4, <1>5, <1>10

---------------------------------------------------------------------------
(* What the tasks have together *)

\* A result has a value, or a place, for each element.
LEMMA ProjectedIs ==
  ASSUME NEW t \in Seq(Elements)
  PROVE  Projected(t) \in Seq(Int) /\ Len(Projected(t)) = Len(t) /\ DOMAIN Projected(t) = 1..Len(t)
         /\ \A k \in 1..Len(t) : Projected(t)[k] = IF input.argsort THEN t[k].i ELSE t[k].v
<1>1. DOMAIN t = 1..Len(t) /\ Len(t) \in Nat
  BY LenProperties
<1>2. \A k \in 1..Len(t) : t[k].i \in Int /\ t[k].v \in Int
  BY LineElements
<1>3. Projected(t) = [k \in 1..Len(t) |-> IF input.argsort THEN t[k].i ELSE t[k].v]
  BY <1>1 DEF Projected
<1>4. Projected(t) \in [1..Len(t) -> Int]
  BY <1>2, <1>3
<1> QED
  BY <1>1, <1>3, <1>4, NumbersAreSequences

\* The outcomes of n tasks, one after the other, are the outcome of their lines, one after the other.
ProjectedAll(n, S, o) == o = [k \in 1..n |-> o[k]] /\ \A k \in 1..n : o[k] = Projected(S[k])
\* The results one after the other are the result of the lines one after the other.
LEMMA ProjectedTogether ==
  ASSUME NEW n \in Nat, NEW S \in [1..n -> Seq(Elements)], NEW P, NEW c \in Seq(Elements), Joined(n, S, P, c),
         NEW o, ProjectedAll(n, S, o)
  PROVE  FlattenSeq(o) = Projected(c)
<1>0. Heights(n, S, P) /\ Len(c) = P[n]
  BY DEF Joined
<1>1. ASSUME NEW k \in 1..n
      PROVE  /\ o[k] \in Seq(Int) /\ Len(o[k]) = Len(S[k]) /\ S[k] \in Seq(Elements)
             /\ \A x \in 1..Len(S[k]) : o[k][x] = IF input.argsort THEN S[k][x].i ELSE S[k][x].v
  <2>1. o[k] = Projected(S[k]) /\ S[k] \in Seq(Elements)
    BY DEF ProjectedAll
  <2> QED
    BY <2>1, ProjectedIs
<1>2. o \in [1..n -> Seq(Int)]
  BY <1>1 DEF ProjectedAll
<1>3. PICK h : Joined(n, o, h, FlattenSeq(o))
  BY <1>2, LinesJoined DEF IsJoined
<1>4. Heights(n, o, P)
  BY <1>0, <1>1 DEF Heights
<1>5. Joined(n, o, P, Projected(c))
  <2>1. /\ IsSequence(Projected(c)) /\ Len(Projected(c)) = P[n]
        /\ \A k \in 1..Len(c) : Projected(c)[k] = IF input.argsort THEN c[k].i ELSE c[k].v
    BY <1>0, ProjectedIs DEF IsSequence
  <2>2. ASSUME NEW k \in 1..n, NEW x \in 1..Len(o[k]) PROVE Projected(c)[P[k - 1] + x] = o[k][x]
    <3>1. x \in 1..Len(S[k])
      BY <1>1
    <3>2. c[P[k - 1] + x] = S[k][x]
      BY <3>1 DEF Joined
    <3>3. P[k - 1] + x \in 1..Len(c)
      <4>1. k \in 0..n /\ n \in k..n /\ n \in 0..n
        OBVIOUS
      <4>2. P[k] <= P[n]
        BY <1>0, <4>1, HeightsGrow
      <4>3. P[k] = P[k - 1] + Len(S[k]) /\ P[k - 1] \in Nat /\ P[n] \in Nat /\ P[k] \in Nat /\ Len(S[k]) \in Nat
        BY <1>0 DEF Heights
      <4> QED
        BY <1>0, <3>1, <4>2, <4>3, SMTT(30)
    <3>4. Projected(c)[P[k - 1] + x] = IF input.argsort THEN c[P[k - 1] + x].i ELSE c[P[k - 1] + x].v
      BY <2>1, <3>3
    <3>5. o[k][x] = IF input.argsort THEN S[k][x].i ELSE S[k][x].v
      BY <1>1, <3>1
    <3> QED
      BY <3>2, <3>4, <3>5
  <2> QED
    BY <1>4, <2>1, <2>2 DEF Joined
<1> QED
  BY <1>3, <1>5, JoinedSame

\* Empty lines behind change nothing.
LEMMA NothingBehind ==
  ASSUME NEW n \in Nat, NEW m \in Nat, m <= n, NEW s, NEW P, NEW c, Joined(m, s, P, c),
         NEW S, \A k \in 1..m : S[k] = s[k], \A k \in 1..n : k > m => S[k] = << >>
  PROVE  \E h : Joined(n, S, h, c)
<1>0. Heights(m, s, P) /\ Len(c) = P[m] /\ IsSequence(c)
  BY DEF Joined
<1>1. P \in [0..m -> Nat] /\ P[0] = 0
  BY <1>0 DEF Heights
<1>2. PICK h : h = [k \in 0..n |-> IF k <= m THEN P[k] ELSE P[m]]
  OBVIOUS
<1>3. /\ \A k \in 0..m : h[k] = P[k] /\ P[k] \in Nat /\ k \in 0..n
      /\ \A k \in 0..n : k > m => h[k] = P[m]
  BY <1>1, <1>2
<1>4. h \in [0..n -> Nat]
  BY <1>1, <1>2, <1>3
<1>5. ASSUME NEW k \in 1..n PROVE Len(S[k]) \in Nat /\ h[k] = h[k - 1] + Len(S[k])
  <2>1. CASE k <= m
    <3>1. k \in 1..m /\ k \in 0..m /\ k - 1 \in 0..m
      BY <2>1
    <3>2. Len(s[k]) \in Nat /\ P[k] = P[k - 1] + Len(s[k])
      BY <1>0, <3>1 DEF Heights
    <3> QED
      BY <1>3, <3>1, <3>2
  <2>2. CASE k > m
    <3>1. Len(S[k]) = 0 /\ h[k] = P[m]
      BY <1>3, <2>2
    <3>2. h[k - 1] = P[m]
      <4>1. CASE k - 1 = m
        BY <1>3, <4>1
      <4>2. CASE k - 1 # m
        <5>1. k - 1 \in 0..n /\ k - 1 > m
          BY <2>2, <4>2
        <5> QED
          BY <1>3, <5>1
      <4> QED
        BY <4>1, <4>2
    <3>3. P[m] \in Nat
      BY <1>1
    <3> QED
      BY <3>1, <3>2, <3>3
  <2> QED
    BY <2>1, <2>2
<1>6. h[0] = 0 /\ h[n] = P[m]
  <2>1. 0 \in 0..m /\ n \in 0..n /\ (n = m \/ n > m)
    OBVIOUS
  <2> QED
    BY <1>1, <1>3, <2>1
<1>7. ASSUME NEW k \in 1..n, NEW x \in 1..Len(S[k]) PROVE c[h[k - 1] + x] = S[k][x]
  <2>1. k <= m
    <3> SUFFICES ASSUME k > m PROVE FALSE
      OBVIOUS
    <3>1. Len(S[k]) = 0
      OBVIOUS
    <3> QED
      BY <3>1
  <2>2. k \in 1..m /\ k - 1 \in 0..m
    BY <2>1
  <2>3. S[k] = s[k] /\ h[k - 1] = P[k - 1]
    BY <1>3, <2>2
  <2>4. c[P[k - 1] + x] = s[k][x]
    BY <2>2, <2>3 DEF Joined
  <2> QED
    BY <2>3, <2>4
<1>8. Heights(n, S, h)
  BY <1>4, <1>5, <1>6 DEF Heights
<1>9. Joined(n, S, h, c)
  BY <1>0, <1>6, <1>7, <1>8 DEF Joined
<1> QED
  BY <1>9

---------------------------------------------------------------------------
(* Lines in order *)

\* Who has the elements of another has no others.
LEMMA CountsComeFrom ==
  ASSUME NEW s, NEW t, IsSequence(s), IsSequence(t), SameCounts(s, t)
  PROVE  ComeFrom(s, t)
<1> SUFFICES ASSUME NEW x \in 1..Len(t) PROVE \E k \in 1..Len(s) : t[x] = s[k]
  BY DEF ComeFrom
<1>1. DOMAIN s = 1..Len(s) /\ DOMAIN t = 1..Len(t)
  BY SequenceFacts
<1> DEFINE K == { k \in DOMAIN t : t[k] \in {t[x]} }
           L == { k \in DOMAIN s : s[k] \in {t[x]} }
<1>2. IsFiniteSet(K) /\ Cardinality(K) = CountIn(t, {t[x]}) /\ Cardinality(L) = CountIn(s, {t[x]})
  BY CountType DEF CountIn
<1>3. x \in K
  BY <1>1
<1>4. CountIn(t, {t[x]}) = CountIn(s, {t[x]})
  BY DEF SameCounts
<1> HIDE DEF K
<1>5. Cardinality(K) # 0
  BY <1>2, <1>3, FS_EmptySet
<1>6. Cardinality(L) # 0
  BY <1>2, <1>4, <1>5
<1>7. L # {}
  BY <1>6, FS_EmptySet
<1>8. PICK k \in DOMAIN s : s[k] \in {t[x]}
  BY <1>7
<1> QED
  BY <1>1, <1>8

\* Sequences with the same elements come from each other and are equally long.
LEMMA CountsCome ==
  ASSUME NEW X, NEW s \in Seq(X), NEW t \in Seq(X), SameCounts(s, t)
  PROVE  ComeFrom(s, t) /\ ComeFrom(t, s) /\ Len(t) = Len(s)
<1>1. IsSequence(s) /\ IsSequence(t)
  BY DEF IsSequence
<1>2. \A W : CountIn(t, W) = CountIn(s, W)
  BY DEF SameCounts
<1>3. SameCounts(t, s)
  BY <1>2 DEF SameCounts
<1>4. ComeFrom(s, t)
  BY <1>1, CountsComeFrom
<1>5. ComeFrom(t, s)
  BY <1>1, <1>3, CountsComeFrom
<1>6. CountIn(s, X) = Len(s) /\ CountIn(t, X) = Len(t)
  BY CountAll
<1> QED
  BY <1>2, <1>4, <1>5, <1>6

\* Line s of group g, with its places.
Placed0(g, s) == [k \in DOMAIN input.lines[g][s] |-> [v |-> input.lines[g][s][k], i |-> k - 1]]

\* InOrder is the line in order of values and places, with the elements of the line.
LEMMA InOrderIs ==
  ASSUME input \in Problems, NEW g \in 1..Len(input.lines), NEW s \in 1..Len(input.lines[g]), NEW line, line = InOrder(g, s)
  PROVE  /\ Placed0(g, s) \in Seq(Elements) /\ Len(Placed0(g, s)) = segment_size_g
         /\ line \in Seq(Elements) /\ Len(line) = segment_size_g /\ Tidy(TRUE, line) /\ SameCounts(Placed0(g, s), line)
<1>1. input.lines[g][s] \in Seq(Values) /\ Len(input.lines[g][s]) = segment_size_g /\ segment_size_g \in Nat
  BY LineType
<1>2. DOMAIN input.lines[g][s] = 1..segment_size_g
  BY <1>1, LenProperties
<1>3. PICK w : w = Placed0(g, s)
  OBVIOUS
<1>4. w = [k \in 1..segment_size_g |-> [v |-> input.lines[g][s][k], i |-> k - 1]]
  BY <1>2, <1>3 DEF Placed0
<1>5. ASSUME NEW k \in 1..segment_size_g PROVE [v |-> input.lines[g][s][k], i |-> k - 1] \in Elements
  <2>1. input.lines[g][s][k] \in Int
    BY <1>1, ElementOfSeq, ValuesAssumption
  <2>2. k - 1 \in Int
    OBVIOUS
  <2> QED
    BY <2>1, <2>2 DEF Elements
<1>6. w \in [1..segment_size_g -> Elements]
  BY <1>4, <1>5
<1>7. w \in Seq(Elements) /\ Len(w) = segment_size_g
  BY <1>1, <1>6, NumbersAreSequences
<1>8. PlacesGoUp(w)
  <2> SUFFICES ASSUME NEW x \in 1..Len(w), NEW y \in 1..Len(w), x < y PROVE w[x].i < w[y].i
    BY DEF PlacesGoUp
  <2>1. w[x].i = x - 1 /\ w[y].i = y - 1
    BY <1>4, <1>7
  <2> QED
    BY <2>1
<1>9. line = StableSort(w)
  BY <1>3 DEF InOrder, Placed0
<1>10. line \in Seq(Elements) /\ Len(line) = Len(w) /\ Tidy(TRUE, line) /\ SameCounts(w, line)
  BY <1>7, <1>8, <1>9, StableSorted
<1> QED
  BY <1>3, <1>7, <1>10

\* The values of a line are those of its elements, with or without their places.
LEMMA WholeValues ==
  ASSUME input \in Problems, NEW g \in 1..Len(input.lines), NEW s \in 1..Len(input.lines[g])
  PROVE  SameValues(Placed0(g, s), Whole(g, s)) /\ (input.argsort => Whole(g, s) = Placed0(g, s))
<1>1. input.lines[g][s] \in Seq(Values) /\ Len(input.lines[g][s]) = segment_size_g /\ segment_size_g \in Nat
  BY LineType
<1>2. DOMAIN input.lines[g][s] = 1..segment_size_g
  BY <1>1, LenProperties
<1>3. PICK w, u : w = Placed0(g, s) /\ u = Whole(g, s)
  OBVIOUS
<1>4. w \in Seq(Elements) /\ Len(w) = segment_size_g /\ u \in Seq(Elements) /\ Len(u) = segment_size_g
  BY <1>3, InOrderIs, WholeIs
<1>5. DOMAIN w = 1..segment_size_g /\ DOMAIN u = 1..segment_size_g
  BY <1>4, LenProperties
<1>6. ASSUME NEW k \in 1..segment_size_g PROVE w[k].v = u[k].v /\ w[k] \in Elements /\ u[k] \in Elements
  <2>1. w[k].v = input.lines[g][s][k]
    BY <1>2, <1>3 DEF Placed0
  <2>2. u[k].v = input.lines[g][s][k]
    BY <1>3 DEF Whole, ElementAt
  <2> QED
    BY <1>4, <2>1, <2>2, ElementOfSeq
<1>7. ASSUME NEW a \in Int PROVE CountIn(u, LessThan(a)) = CountIn(w, LessThan(a))
  <2>1. { k \in DOMAIN u : u[k] \in LessThan(a) } = { k \in DOMAIN w : w[k] \in LessThan(a) }
    BY <1>5, <1>6 DEF LessThan
  <2> QED
    BY <2>1 DEF CountIn
<1>8. ASSUME input.argsort PROVE u = w
  <2>1. w = [k \in 1..segment_size_g |-> [v |-> input.lines[g][s][k], i |-> k - 1]]
    BY <1>2, <1>3 DEF Placed0
  <2>2. u = [k \in 1..segment_size_g |-> [v |-> input.lines[g][s][k], i |-> k - 1]]
    BY <1>3, <1>8 DEF Whole, ElementAt
  <2> QED
    BY <2>1, <2>2
<1> QED
  BY <1>3, <1>7, <1>8 DEF SameValues

\* The property of one line, of what is found of it.
LineInOrder(g, s, line, found) ==
  IF ~input.argsort THEN found = [k \in DOMAIN line |-> line[k].v]
  ELSE IF input.stable THEN found = [k \in DOMAIN line |-> line[k].i]
  ELSE /\ { found[k] : k \in DOMAIN found } = { line[k].i : k \in DOMAIN line }
       /\ Len(found) = Len(line)
       /\ \A k \in DOMAIN line : input.lines[g][s][found[k] + 1] = line[k].v

\* A line of elements in order that has the elements of the input gives the result that is asked for.
LEMMA FoundInOrder ==
  ASSUME input \in Problems, NEW g \in 1..Len(input.lines), NEW s \in 1..Len(input.lines[g]),
         NEW c \in Seq(Elements), Tidy(Steady, c), SameCounts(Whole(g, s), c)
  PROVE  LineInOrder(g, s, InOrder(g, s), Projected(c))
<1>1. PICK line, w, u, found : line = InOrder(g, s) /\ w = Placed0(g, s) /\ u = Whole(g, s) /\ found = Projected(c)
  OBVIOUS
<1>2. /\ w \in Seq(Elements) /\ Len(w) = segment_size_g /\ line \in Seq(Elements) /\ Len(line) = segment_size_g
      /\ Tidy(TRUE, line) /\ SameCounts(w, line)
  BY <1>1, InOrderIs
<1>3. SameValues(w, u) /\ (input.argsort => u = w) /\ u \in Seq(Elements) /\ Len(u) = segment_size_g
  BY <1>1, WholeValues, WholeIs
<1>4. input.argsort \in BOOLEAN /\ input.stable \in BOOLEAN /\ Steady \in BOOLEAN /\ TRUE \in BOOLEAN
  BY ProblemsWellFormed DEF WellFormed, Steady
<1>5. Len(c) = segment_size_g /\ ComeFrom(u, c) /\ SameCounts(u, c)
  <2>1. SameCounts(u, c)
    BY <1>1
  <2> QED
    BY <1>3, <2>1, CountsCome
<1>6. InOrderOfValues(line) /\ InOrderOfValues(c)
  BY <1>2, <1>4, TidyValues
<1>7. SameValues(line, c)
  BY <1>2, <1>3, <1>5 DEF SameValues, SameCounts
<1>8. DOMAIN line = 1..segment_size_g /\ DOMAIN c = 1..segment_size_g /\ Len(line) = Len(c)
  BY <1>2, <1>5, LenProperties
<1>9. ASSUME NEW k \in 1..segment_size_g PROVE c[k].v = line[k].v
  <2>1. line[k].v = c[k].v
    BY <1>2, <1>5, <1>6, <1>7, <1>8, ValuesInPlace
  <2> QED
    BY <2>1
<1>10. CASE ~input.argsort
  <2>1. found = [k \in 1..segment_size_g |-> c[k].v]
    BY <1>1, <1>8, <1>10 DEF Projected
  <2>2. found = [k \in DOMAIN line |-> line[k].v]
    BY <1>8, <1>9, <2>1
  <2> QED
    BY <1>1, <1>10, <2>2 DEF LineInOrder
<1>11. CASE input.argsort
  <2>1. found = [k \in 1..segment_size_g |-> c[k].i]
    BY <1>1, <1>8, <1>11 DEF Projected
  <2>2. SameCounts(line, c)
    BY <1>2, <1>3, <1>5, <1>11 DEF SameCounts
  <2>3. CASE input.stable
    <3>1. Tidy(TRUE, c)
      BY <1>4, <1>11, <2>3 DEF Steady, Tidy
    <3>2. ASSUME NEW k \in 1..segment_size_g PROVE c[k].i = line[k].i
      <4>1. line[k] = c[k]
        BY <1>2, <1>8, <2>2, <3>1, TidySame
      <4> QED
        BY <4>1
    <3>3. found = [k \in DOMAIN line |-> line[k].i]
      BY <1>8, <2>1, <3>2
    <3> QED
      BY <1>1, <1>11, <2>3, <3>3 DEF LineInOrder
  <2>4. CASE ~input.stable
    <3>1. ComeFrom(line, c) /\ ComeFrom(c, line)
      BY <1>2, <2>2, CountsCome
    <3>2. \A k \in 1..segment_size_g : \E j \in 1..segment_size_g : c[k] = line[j]
      BY <1>2, <1>5, <3>1 DEF ComeFrom
    <3>3. \A k \in 1..segment_size_g : \E j \in 1..segment_size_g : line[k] = c[j]
      BY <1>2, <1>5, <3>1 DEF ComeFrom
    <3>4. DOMAIN found = 1..segment_size_g /\ Len(found) = segment_size_g
      BY <1>1, <1>5, ProjectedIs
    <3>5. { found[k] : k \in DOMAIN found } = { line[k].i : k \in DOMAIN line }
      <4>1. \A k \in 1..segment_size_g : found[k] = c[k].i
        BY <2>1
      <4>2. ASSUME NEW k \in 1..segment_size_g PROVE \E j \in 1..segment_size_g : found[k] = line[j].i
        BY <3>2, <4>1
      <4>3. ASSUME NEW k \in 1..segment_size_g PROVE \E j \in 1..segment_size_g : line[k].i = found[j]
        BY <3>3, <4>1
      <4> QED
        <5>1. ASSUME NEW e \in { found[k] : k \in DOMAIN found } PROVE e \in { line[k].i : k \in DOMAIN line }
          <6>1. PICK k \in 1..segment_size_g : e = found[k]
            BY <3>4, <5>1
          <6>2. PICK j \in 1..segment_size_g : found[k] = line[j].i
            BY <4>2
          <6> QED
            BY <1>8, <6>1, <6>2
        <5>2. ASSUME NEW e \in { line[k].i : k \in DOMAIN line } PROVE e \in { found[k] : k \in DOMAIN found }
          BY <1>8, <3>4, <4>3, <5>2
        <5> QED
          BY <5>1, <5>2
    <3>6. ASSUME NEW k \in 1..segment_size_g PROVE input.lines[g][s][found[k] + 1] = line[k].v
      <4>1. PICK j \in 1..segment_size_g : c[k] = u[j]
        BY <1>3, <1>5 DEF ComeFrom
      <4>2. u[j].v = input.lines[g][s][j] /\ u[j].i = j - 1
        BY <1>1, <1>11 DEF Whole, ElementAt
      <4>3. found[k] = j - 1 /\ (j - 1) + 1 = j
        BY <2>1, <4>1, <4>2
      <4>4. c[k].v = input.lines[g][s][found[k] + 1]
        BY <4>1, <4>2, <4>3
      <4> QED
        BY <1>9, <4>4
    <3> QED
      BY <1>1, <1>2, <1>8, <1>11, <2>4, <3>4, <3>5, <3>6, ZenonT(40) DEF LineInOrder
  <2> QED
    BY <2>3, <2>4
<1> QED
  BY <1>4, <1>10, <1>11

---------------------------------------------------------------------------
(* What the tasks hold, inductively *)

\* t are the lines of task r, sorted for themselves.
SortedLocally(r, t) == \A s \in 1..num_segments_l(r) : t[s] \in LocalSorts(Part(r, s))
\* What task r cut off is cut at the splitters of its group.
Cutting(r) == CutRight(Exchangers(r), num_segments_l(r), sort_rank(r), SamplesGot(r), piece[r], cut[r])
\* What was cut off for r of line s, and the same in order.
Delivered(r, s) == FlattenSeq([k \in 1..Exchangers(r) |-> cut[Mate(r, k)][sort_rank(r) + 1][s]])
MergeOf(r, s) == StableSort(Delivered(r, s))
\* What it sends to the left, to the right, and keeps of it.
LeftOf(r, s) == Read(merged[r][s], 1, ToLeft(r, s))
RightOf(r, s) == Read(merged[r][s], Len(merged[r][s]) - Positive(ToRight(r, s)) + 1, Len(merged[r][s]))
MiddleOf(r, s) == Read(merged[r][s], Positive(ToLeft(r, s)) + 1, Len(merged[r][s]) - Positive(ToRight(r, s)))
\* What it has of line s after the shift.
FromLeft(r, s) == IF ToLeft(r, s) < 0 THEN RightOf(r - 1, s) ELSE << >>
FromRight(r, s) == IF ToRight(r, s) < 0 THEN LeftOf(r + 1, s) ELSE << >>
Balanced(r, s) == FromLeft(r, s) \o MiddleOf(r, s) \o FromRight(r, s)
ValuesOf(line) == [k \in DOMAIN line |-> line[k].v]
PlacesOf(line) == [k \in DOMAIN line |-> line[k].i]

Sent(r, n, Of(_)) == \A q \in Ranks : q \in Mates(r) => posted[r][n].send[q] = Of(FlattenSeq(cut[r][sort_rank(q) + 1]))
AllMerged(r) == merged[r] = [s \in 1..num_segments_l(r) |-> MergeOf(r, s)]
Shifted(r) ==
  \A q \in Ranks :
    /\ q = r - 1 => posted[r][Exchanges + 2].send[q] = FlattenSeq([s \in 1..num_segments_l(r) |-> LeftOf(r, s)])
    /\ q = r + 1 => posted[r][Exchanges + 2].send[q] = FlattenSeq([s \in 1..num_segments_l(r) |-> RightOf(r, s)])
\* What is known of the elements of a task once it posted so many contributions; and of its result.
Order(r, n) ==
  /\ n = 1 => SortedLocally(r, piece[r])
  /\ n = 3 /\ Exchangers(r) # 0 => Cutting(r)
  /\ n = 4 => Sent(r, 4, ValuesOf)
  /\ n = 5 /\ input.argsort => Sent(r, 5, PlacesOf)
  /\ n = Exchanges + 1 => AllMerged(r)
  /\ n = Exchanges + 2 => Shifted(r)
SortedAlone(r) ==
  \E t : SortedLocally(r, t) /\ out[r] = << [s \in 1..num_segments_l(r) |-> Projected(t[s])] >>
Outcome(r) ==
  out[r] # << >> =>
    IF Alone(r) THEN (volume(r) = 0 /\ out[r] = << << >> >>) \/ SortedAlone(r)
    ELSE IF input.bound THEN out[r] = << [s \in 1..num_segments_l(r) |-> Projected(Balanced(r, s))] >>
    ELSE out[r] = << [s \in 1..num_segments_l(r) |-> Projected(MergeOf(r, s))] >>
InLine == InExchanges /\ \A r \in Ranks : (\A n \in 1..Len(posted[r]) : Order(r, n)) /\ Outcome(r)

\* What a step leaves alone of them.
LEMMA SameLines ==
  ASSUME input' = input, NEW r, NEW s
  PROVE  /\ Part(r, s)' = Part(r, s) /\ LocalSorts(Part(r, s))' = LocalSorts(Part(r, s))
         /\ \A t : Projected(t)' = Projected(t)
         /\ Alone(r)' = Alone(r) /\ volume(r)' = volume(r)
<1>1. Offset(r)' = Offset(r) /\ segment_size_l(r)' = segment_size_l(r) /\ group(r)' = group(r) /\ num_segments_l(r)' = num_segments_l(r)
  BY SameExchange DEF Offset
<1>2. Part(r, s)' = Part(r, s)
  BY <1>1 DEF Part
<1>3. LocalSorts(Part(r, s))' = LocalSorts(Part(r, s))
  BY <1>2 DEF LocalSorts
<1>4. \A t : Projected(t)' = Projected(t)
  BY DEF Projected
<1>5. Alone(r)' = Alone(r)
  BY SameInput
<1> QED
  BY <1>1, <1>2, <1>3, <1>4, <1>5 DEF volume

\* The input stays, and so do its sorts.
LEMMA SortedLocallyKept ==
  ASSUME input' = input, NEW r, NEW t, SortedLocally(r, t) PROVE SortedLocally(r, t)'
BY SameLines, SameExchange DEF SortedLocally

\* A piece stays once it is sorted.
LEMMA PiecesKept ==
  ASSUME Grows, NEW r \in Ranks, Len(posted[r]) >= 1, SortedLocally(r, piece[r]) PROVE SortedLocally(r, piece[r])'
<1>1. piece'[r] = piece[r] /\ input' = input
  BY DEF Grows, Grown
<1> QED
  BY <1>1, SameLines, SameExchange DEF SortedLocally

\* The samples that a task got are those of its group as long as it goes on.
LEMMA SamplesGotKept ==
  ASSUME InExchanges, Grows, NEW r \in Ranks, Len(posted[r]) >= 2
  PROVE  SamplesGot(r)' = SamplesGot(r)
<1>1. input' = input /\ input \in Problems /\ ~Alone(r) /\ Len(posted[r]) \in Nat
  BY Behind DEF Grows
<1>2. Exchangers(r) \in 0..SortRanks
  BY <1>1, MembersAre
<1>3. ASSUME NEW k \in 1..Exchangers(r) PROVE Sampling(Mate(r, k))' = Sampling(Mate(r, k))
  <2>1. Mate(r, k) \in Ranks /\ Mate(r, k)' = Mate(r, k)
    BY <1>1, <1>2, MateIs, SameExchange
  <2>2. PICK q \in Ranks : q = Mate(r, k)
    BY <2>1
  <2>3. Len(posted[q]) >= 1
    BY <1>1, Behind
  <2>4. Sampling(q)' = Sampling(q)
    BY <2>3, SamplingKept
  <2> QED
    BY <2>1, <2>2, <2>4
<1>4. Exchangers(r)' = Exchangers(r)
  BY <1>1, SameExchange
<1> QED
  BY <1>3, <1>4 DEF SamplesGot

\* What was cut off stays.
LEMMA CuttingKept ==
  ASSUME InExchanges, Grows, NEW r \in Ranks, Len(posted[r]) >= 3, Cutting(r) PROVE Cutting(r)'
<1>1. piece'[r] = piece[r] /\ cut'[r] = cut[r] /\ input' = input /\ Len(posted[r]) \in Nat
  BY Behind DEF Grows, Grown
<1>2. SamplesGot(r)' = SamplesGot(r)
  BY <1>1, SamplesGotKept
<1>3. /\ Exchangers(r)' = Exchangers(r) /\ num_segments_l(r)' = num_segments_l(r) /\ sort_rank(r)' = sort_rank(r)
  BY <1>1, SameExchange
<1> QED
  BY <1>1, <1>2, <1>3 DEF Cutting

\* What was sent stays what was cut off.
LEMMA SentKept ==
  ASSUME InExchanges, Grows, NEW r \in Ranks, NEW n \in 4..Len(posted[r])
  PROVE  /\ Sent(r, n, ValuesOf) => Sent(r, n, ValuesOf)'
         /\ Sent(r, n, PlacesOf) => Sent(r, n, PlacesOf)'
<1>1. input' = input /\ Len(posted[r]) \in Nat
  BY Behind DEF Grows
<1>2. posted'[r][n] = posted[r][n] /\ cut'[r] = cut[r]
  BY <1>1 DEF Grows, Grown
<1> QED
  BY <1>1, <1>2, SameExchange DEF Sent

\* What is to be merged stays.
LEMMA DeliveredKept ==
  ASSUME InExchanges, Grows, NEW r \in Ranks, ~Alone(r), \A q \in Ranks : Len(posted[q]) >= 3, NEW s
  PROVE  MergeOf(r, s)' = MergeOf(r, s)
<1>1. input' = input /\ input \in Problems
  BY Behind DEF Grows
<1>2. Exchangers(r) \in 0..SortRanks
  BY <1>1, MembersAre
<1>3. ASSUME NEW k \in 1..Exchangers(r) PROVE cut'[Mate(r, k)] = cut[Mate(r, k)]
  <2>1. Mate(r, k) \in Ranks
    BY <1>1, <1>2, MateIs
  <2> QED
    BY <2>1 DEF Grows, Grown
<1>4. Exchangers(r)' = Exchangers(r) /\ sort_rank(r)' = sort_rank(r) /\ \A k : Mate(r, k)' = Mate(r, k)
  BY <1>1, SameExchange
<1>5. Delivered(r, s)' = Delivered(r, s)
  BY <1>3, <1>4 DEF Delivered
<1> QED
  BY <1>5 DEF MergeOf

\* A task shifts to the right only if there is a member to the right, and to the left likewise.
LEMMA RightMember ==
  ASSUME InExchanges, NEW r \in Ranks, ~Alone(r), \A p \in Ranks : Len(posted[p]) >= Exchanges + 1,
         NEW s \in 1..num_segments_l(r), ToRight(r, s) # 0
  PROVE  r + 1 \in Ranks /\ r + 1 \in Mates(r) /\ r + 1 = Mate(r, sort_rank(r) + 2) /\ sort_rank(r) + 2 \in 1..Exchangers(r)
<1> DEFINE n == Exchangers(r)
           j == sort_rank(r)
<1>1. n \in Nat /\ j \in Nat /\ j + 1 <= n /\ input \in Problems /\ n \in 0..SortRanks /\ Mate(r, j + 1) = r /\ group(r) * SortRanks \in Nat
  <2>1. num_segments_l(r) # 0 /\ input \in Problems
    BY Behind
  <2> QED
    BY <2>1, PlaceIs, MembersAre
<1>2. j + 1 # n
  <2>1. SumOf(Surpluses(r, s, 0, n)) = 0
    BY <1>1, NothingLost
  <2> QED
    BY <2>1 DEF ToRight
<1>3. j + 2 \in 1..n
  BY <1>1, <1>2
<1>4. Mate(r, j + 2) \in Ranks /\ Mate(r, j + 2) \in Mates(r)
  BY <1>1, <1>3, MateIs
<1>5. Mate(r, j + 2) = r + 1
  BY <1>1 DEF Mate
<1> QED
  BY <1>3, <1>4, <1>5

\* The same to the left.
LEMMA LeftMember ==
  ASSUME InExchanges, NEW r \in Ranks, ~Alone(r), \A p \in Ranks : Len(posted[p]) >= Exchanges + 1,
         NEW s \in 1..num_segments_l(r), ToLeft(r, s) # 0
  PROVE  r - 1 \in Ranks /\ r - 1 \in Mates(r) /\ r - 1 = Mate(r, sort_rank(r)) /\ sort_rank(r) \in 1..Exchangers(r)
<1> DEFINE n == Exchangers(r)
           j == sort_rank(r)
<1>1. n \in Nat /\ j \in Nat /\ j + 1 <= n /\ input \in Problems /\ n \in 0..SortRanks /\ Mate(r, j + 1) = r /\ group(r) * SortRanks \in Nat
  <2>1. num_segments_l(r) # 0 /\ input \in Problems
    BY Behind
  <2> QED
    BY <2>1, PlaceIs, MembersAre
<1>2. j # 0
  <2>1. SumOf(Surpluses(r, s, 0, n)) = 0
    BY <1>1, NothingLost
  <2>2. n - 0 = n
    BY <1>1
  <2> QED
    BY <2>1, <2>2 DEF ToLeft
<1>3. j \in 1..n
  BY <1>1, <1>2
<1>4. Mate(r, j) \in Ranks /\ Mate(r, j) \in Mates(r)
  BY <1>1, <1>3, MateIs
<1>5. Mate(r, j) = r - 1
  <2>1. Mate(r, j + 1) = group(r) * SortRanks + (j + 1) - 1 /\ Mate(r, j) = group(r) * SortRanks + j - 1
    BY DEF Mate
  <2> QED
    BY <1>1, <2>1
<1> QED
  BY <1>3, <1>4, <1>5

\* What is known when all tasks know what is too much.
AtShift == InExchanges /\ \A q \in Ranks : Len(posted[q]) >= Exchanges + 1

\* What is to be shifted stays.
LEMMA EdgesKept ==
  ASSUME AtShift, Grows, NEW r \in Ranks, ~Alone(r), NEW s \in 1..num_segments_l(r)
  PROVE  LeftOf(r, s)' = LeftOf(r, s) /\ RightOf(r, s)' = RightOf(r, s) /\ MiddleOf(r, s)' = MiddleOf(r, s)
<1>1. merged'[r] = merged[r]
  BY DEF AtShift, Grows, Grown
<1>2. ToLeft(r, s)' = ToLeft(r, s) /\ ToRight(r, s)' = ToRight(r, s)
  BY SurplusesKept DEF AtShift
<1> QED
  BY <1>1, <1>2 DEF LeftOf, RightOf, MiddleOf

\* What comes of the shift stays.
LEMMA BalancedKept ==
  ASSUME AtShift, Grows, NEW r \in Ranks, ~Alone(r), NEW s \in 1..num_segments_l(r)
  PROVE  Balanced(r, s)' = Balanced(r, s)
<1>0. input \in Problems /\ Exchangers(r) \in 0..SortRanks
  BY Behind, MembersAre DEF AtShift
<1>1. ToLeft(r, s)' = ToLeft(r, s) /\ ToRight(r, s)' = ToRight(r, s)
  BY SurplusesKept DEF AtShift
<1>2. MiddleOf(r, s)' = MiddleOf(r, s)
  BY EdgesKept
<1>3. ToLeft(r, s) # 0 => RightOf(r - 1, s)' = RightOf(r - 1, s)
  <2>1. SUFFICES ASSUME ToLeft(r, s) # 0 PROVE RightOf(r - 1, s)' = RightOf(r - 1, s)
    OBVIOUS
  <2>2. r - 1 \in Ranks /\ r - 1 = Mate(r, sort_rank(r)) /\ sort_rank(r) \in 1..Exchangers(r)
    BY <2>1, LeftMember DEF AtShift
  <2>3. PICK q \in Ranks : q = r - 1
    BY <2>2
  <2>4. ~Alone(q) /\ s \in 1..num_segments_l(q)
    BY <1>0, <2>2, <2>3, MateIs
  <2>5. RightOf(q, s)' = RightOf(q, s)
    BY <2>4, EdgesKept
  <2> QED
    BY <2>3, <2>5
<1>4. ToRight(r, s) # 0 => LeftOf(r + 1, s)' = LeftOf(r + 1, s)
  <2>1. SUFFICES ASSUME ToRight(r, s) # 0 PROVE LeftOf(r + 1, s)' = LeftOf(r + 1, s)
    OBVIOUS
  <2>2. r + 1 \in Ranks /\ r + 1 = Mate(r, sort_rank(r) + 2) /\ sort_rank(r) + 2 \in 1..Exchangers(r)
    BY <2>1, RightMember DEF AtShift
  <2>3. PICK q \in Ranks : q = r + 1
    BY <2>2
  <2>4. ~Alone(q) /\ s \in 1..num_segments_l(q)
    BY <1>0, <2>2, <2>3, MateIs
  <2>5. LeftOf(q, s)' = LeftOf(q, s)
    BY <2>4, EdgesKept
  <2> QED
    BY <2>3, <2>5
<1>5. FromLeft(r, s)' = FromLeft(r, s)
  <2>1. CASE ToLeft(r, s) < 0
    <3>1. ToLeft(r, s) # 0
      BY <2>1
    <3> QED
      BY <1>1, <1>3, <2>1, <3>1 DEF FromLeft
  <2>2. CASE ~(ToLeft(r, s) < 0)
    BY <1>1, <2>2 DEF FromLeft
  <2> QED
    BY <2>1, <2>2
<1>6. FromRight(r, s)' = FromRight(r, s)
  <2>1. CASE ToRight(r, s) < 0
    <3>1. ToRight(r, s) # 0
      BY <2>1
    <3> QED
      BY <1>1, <1>4, <2>1, <3>1 DEF FromRight
  <2>2. CASE ~(ToRight(r, s) < 0)
    BY <1>1, <2>2 DEF FromRight
  <2> QED
    BY <2>1, <2>2
<1> QED
  BY <1>2, <1>5, <1>6 DEF Balanced

\* What was sent in the shift stays.
LEMMA ShiftedKept ==
  ASSUME AtShift, Grows, NEW r \in Ranks, Len(posted[r]) >= Exchanges + 2, Shifted(r) PROVE Shifted(r)'
<1>1. input' = input /\ Len(posted[r]) \in Nat /\ Exchanges \in 4..5 /\ ~Alone(r)
  <2>1. Exchanges \in 4..5 /\ InExchanges
    BY DEF Exchanges, AtShift
  <2>2. Len(posted[r]) \in Nat /\ (posted[r] = << >> <=> Len(posted[r]) = 0) /\ (posted[r] # << >> => ~Alone(r))
    BY <2>1, Behind
  <2> QED
    BY <2>1, <2>2 DEF Grows
<1>2. posted'[r][Exchanges + 2] = posted[r][Exchanges + 2]
  BY <1>1 DEF Grows, Grown
<1>3. \A s \in 1..num_segments_l(r) : LeftOf(r, s)' = LeftOf(r, s) /\ RightOf(r, s)' = RightOf(r, s)
  BY <1>1, EdgesKept
<1>4. Ranks' = Ranks /\ num_segments_l(r)' = num_segments_l(r) /\ Exchanges' = Exchanges
  BY <1>1, SameExchange
<1>5. /\ [s \in 1..num_segments_l(r) |-> LeftOf(r, s)]' = [s \in 1..num_segments_l(r) |-> LeftOf(r, s)]
      /\ [s \in 1..num_segments_l(r) |-> RightOf(r, s)]' = [s \in 1..num_segments_l(r) |-> RightOf(r, s)]
  BY <1>3, <1>4
<1> QED
  BY <1>2, <1>4, <1>5 DEF Shifted

\* What was merged stays.
LEMMA AllMergedKept ==
  ASSUME InExchanges, Grows, NEW r \in Ranks, Len(posted[r]) >= Exchanges + 1, AllMerged(r) PROVE AllMerged(r)'
<1>1. Exchanges \in 4..5
  BY DEF Exchanges
<1>2. Len(posted[r]) \in Nat /\ (posted[r] = << >> <=> Len(posted[r]) = 0) /\ (posted[r] # << >> => ~Alone(r))
      /\ \A q \in Ranks : Len(posted[q]) \in Nat /\ Len(posted[q]) + 1 >= Len(posted[r])
  BY Behind
<1>3. ~Alone(r) /\ \A q \in Ranks : Len(posted[q]) >= 3
  BY <1>1, <1>2
<1>4. \A s : MergeOf(r, s)' = MergeOf(r, s)
  BY <1>3, DeliveredKept
<1>5. merged'[r] = merged[r] /\ num_segments_l(r)' = num_segments_l(r)
  BY SameExchange DEF Grows, Grown
<1> QED
  BY <1>4, <1>5 DEF AllMerged

\* All that is known of a task's contributions stays.
LEMMA OrderKept ==
  ASSUME InExchanges, Grows, NEW r \in Ranks, NEW n \in 1..Len(posted[r]), Order(r, n) PROVE Order(r, n)'
<1>1. Exchanges \in 4..5 /\ Exchanges' = Exchanges /\ input' = input
  BY SameExchange DEF Exchanges, Grows
<1>2. Len(posted[r]) \in Nat /\ \A q \in Ranks : Len(posted[q]) \in Nat /\ Len(posted[q]) + 1 >= Len(posted[r])
  BY Behind
<1>3. n = 1 => SortedLocally(r, piece[r])'
  BY <1>2, PiecesKept DEF Order
<1>4. n = 3 /\ Exchangers(r)' # 0 => Cutting(r)'
  BY <1>1, <1>2, CuttingKept, SameExchange DEF Order
<1>5. n = 4 => Sent(r, 4, ValuesOf)'
  BY <1>2, SentKept DEF Order
<1>6. n = 5 /\ input'.argsort => Sent(r, 5, PlacesOf)'
  BY <1>1, <1>2, SentKept DEF Order
<1>7. n = Exchanges + 1 => AllMerged(r)'
  BY <1>1, <1>2, AllMergedKept DEF Order
<1>8. n = Exchanges + 2 => Shifted(r)'
  <2>1. SUFFICES ASSUME n = Exchanges + 2 PROVE Shifted(r)'
    OBVIOUS
  <2>2. AtShift /\ Len(posted[r]) >= Exchanges + 2
    BY <1>1, <1>2, <2>1 DEF AtShift
  <2> QED
    BY <2>1, <2>2, ShiftedKept DEF Order
<1> QED
  BY <1>1, <1>3, <1>4, <1>5, <1>6, <1>7, <1>8 DEF Order

\* How far all tasks are when one has come to its end.
LEMMA AtEnd ==
  ASSUME InExchanges, NEW r \in Ranks, out[r] # << >>, ~Alone(r)
  PROVE  /\ Len(posted[r]) = Collectives /\ \A q \in Ranks : Len(posted[q]) >= 3
         /\ input.bound => AtShift
<1>1. Exchanges \in 4..5 /\ Collectives = Exchanges + (IF input.bound THEN 2 ELSE 0)
  BY DEF Exchanges, Collectives
<1>2. Followed(r) /\ \A q \in Ranks : Len(posted[q]) \in Nat /\ Len(posted[q]) + 1 >= Len(posted[r])
  BY Behind DEF InExchanges, InCounts, InStep
<1>3. Len(posted[r]) = Collectives
  BY <1>2 DEF Followed
<1> QED
  BY <1>1, <1>2, <1>3 DEF AtShift

\* Results stay what they are.
LEMMA OutcomeKept ==
  ASSUME InExchanges, Grows, NEW r \in Ranks, out'[r] = out[r], Outcome(r) PROVE Outcome(r)'
<1>1. input' = input
  BY DEF Grows
<1>2. SUFFICES ASSUME out[r] # << >> PROVE Outcome(r)'
  BY DEF Outcome
<1>3. Alone(r)' = Alone(r) /\ volume(r)' = volume(r) /\ num_segments_l(r)' = num_segments_l(r) /\ \A t : Projected(t)' = Projected(t)
  BY <1>1, SameLines, SameExchange
<1>4. CASE Alone(r)
  <2>1. CASE SortedAlone(r)
    <3>1. PICK t : SortedLocally(r, t) /\ out[r] = << [s \in 1..num_segments_l(r) |-> Projected(t[s])] >>
      BY <2>1 DEF SortedAlone
    <3>2. SortedLocally(r, t)'
      BY <1>1, <3>1, SortedLocallyKept
    <3>3. SortedAlone(r)'
      <4>1. [s \in 1..num_segments_l(r) |-> Projected(t[s])]' = [s \in 1..num_segments_l(r) |-> Projected(t[s])]
        BY <1>3
      <4>2. out'[r] = << [s \in 1..num_segments_l(r) |-> Projected(t[s])] >>'
        BY <3>1, <4>1
      <4> QED
        BY <3>2, <4>2 DEF SortedAlone
    <3> QED
      BY <1>3, <1>4, <3>3 DEF Outcome
  <2>2. CASE volume(r) = 0 /\ out[r] = << << >> >>
    BY <1>3, <1>4, <2>2 DEF Outcome
  <2> QED
    BY <1>2, <1>4, <2>1, <2>2 DEF Outcome
<1>5. CASE ~Alone(r) /\ input.bound
  <2>1. AtShift
    BY <1>2, <1>5, AtEnd
  <2>2. \A s \in 1..num_segments_l(r) : Balanced(r, s)' = Balanced(r, s)
    BY <1>5, <2>1, BalancedKept
  <2>3. [s \in 1..num_segments_l(r) |-> Projected(Balanced(r, s))]' = [s \in 1..num_segments_l(r) |-> Projected(Balanced(r, s))]
    BY <1>1, <1>3, <2>2 DEF Projected
  <2> QED
    BY <1>1, <1>2, <1>3, <1>5, <2>3 DEF Outcome
<1>6. CASE ~Alone(r) /\ ~input.bound
  <2>1. \A s : MergeOf(r, s)' = MergeOf(r, s)
    BY <1>2, <1>6, AtEnd, DeliveredKept
  <2>2. [s \in 1..num_segments_l(r) |-> Projected(MergeOf(r, s))]' = [s \in 1..num_segments_l(r) |-> Projected(MergeOf(r, s))]
    BY <1>1, <1>3, <2>1 DEF Projected
  <2> QED
    BY <1>1, <1>2, <1>3, <1>6, <2>2 DEF Outcome
<1> QED
  BY <1>4, <1>5, <1>6

---------------------------------------------------------------------------
(* What a step says of the elements of its task *)

\* The local sort sorts the lines of the task.
LEMMA LocalSortSorts ==
  ASSUME InExchanges, NEW r \in Ranks, LocalSort(r) PROVE SortedLocally(r, piece[r])'
<1>1. PICK sorted \in [1..num_segments_l(r) -> UNION { LocalSorts(Part(r, s)) : s \in 1..num_segments_l(r) }] :
         /\ \A s \in DOMAIN sorted : sorted[s] \in LocalSorts(Part(r, s))
         /\ piece' = [piece EXCEPT ![r] = sorted]
  BY DEF LocalSort
<1>2. SortedLocally(r, sorted)
  BY <1>1 DEF SortedLocally
<1>3. piece'[r] = sorted /\ input' = input
  BY <1>1 DEF InExchanges, InCounts, LocalSort
<1>4. SortedLocally(r, sorted)'
  BY <1>2, <1>3, SortedLocallyKept
<1> QED
  BY <1>3, <1>4 DEF SortedLocally

\* Who selected splitters cut at them.
LEMMA SelectSplittersCuts ==
  ASSUME InExchanges, NEW r \in Ranks, SelectSplitters(r), Exchangers(r)' # 0 PROVE Cutting(r)'
<1>1. Grows
  <2>1. Step(r)
    BY DEF Step
  <2> QED
    BY <2>1, StepGrows
<1>2. UNCHANGED << input, piece >> /\ Len(posted[r]) = 2
  BY DEF SelectSplitters, Returned
<1>3. /\ Exchangers(r)' = Exchangers(r) /\ num_segments_l(r)' = num_segments_l(r) /\ sort_rank(r)' = sort_rank(r)
  BY <1>2, SameExchange
<1>4. CutRight(Exchangers(r), num_segments_l(r), sort_rank(r), SamplesGot(r), piece[r], cut'[r])
  BY <1>3, SelectSplittersSays
<1>5. SamplesGot(r)' = SamplesGot(r)
  BY <1>1, <1>2, SamplesGotKept
<1> QED
  BY <1>2, <1>3, <1>4, <1>5 DEF Cutting

\* What is sent are the values of what was cut off.
LEMMA SendValuesSends ==
  ASSUME InExchanges, NEW r \in Ranks, SendValues(r) PROVE Sent(r, 4, ValuesOf)'
<1> DEFINE send == [q \in Ranks |-> IF q \in Members(r) THEN ValuesOf(FlattenSeq(cut[r][sort_rank(q) + 1])) ELSE << >>]
<1>1. Returned(r, 3) /\ UNCHANGED << input, cut, num_sort_ranks >> /\ \E recv : Post(r, "values", send, recv)
  <2>1. UNCHANGED << input, cut, num_sort_ranks >> /\ Returned(r, 3)
    BY DEF SendValues
  <2>2. SendParts(r, "values", LAMBDA e : e.v)
    BY DEF SendValues
  <2>3. \E recv : Post(r, "values", send, recv)
    BY <2>2 DEF SendParts, ValuesOf
  <2> QED
    BY <2>1, <2>3
<1>2. Len(posted[r]) = 3 /\ num_sort_ranks[r] = Exchangers(r)
  <2>1. 3 \in Nat \ {0} /\ 3 >= 2
    OBVIOUS
  <2> QED
    BY <1>1, <2>1, ReturnedFrom
<1>3. PICK recv : Post(r, "values", send, recv)
  BY <1>1
<1>4. posted'[r][4].send = send
  <2> HIDE DEF send
  <2>1. posted'[r][Len(posted[r]) + 1].send = send
    BY <1>3, PostedNext
  <2> QED
    BY <1>2, <2>1
<1>5. Members(r) = Mates(r)
  BY <1>2 DEF Members, Mates
<1>6. \A q \in Ranks : q \in Mates(r) => posted'[r][4].send[q] = ValuesOf(FlattenSeq(cut[r][sort_rank(q) + 1]))
  BY <1>4, <1>5
<1> QED
  BY <1>1, <1>6, SameExchange DEF Sent

\* And then their places.
LEMMA SendIndicesSends ==
  ASSUME InExchanges, NEW r \in Ranks, SendIndices(r) PROVE Sent(r, 5, PlacesOf)'
<1> DEFINE send == [q \in Ranks |-> IF q \in Members(r) THEN PlacesOf(FlattenSeq(cut[r][sort_rank(q) + 1])) ELSE << >>]
<1>1. Returned(r, 4) /\ UNCHANGED << input, cut, num_sort_ranks >> /\ \E recv : Post(r, "indices", send, recv)
  <2>1. UNCHANGED << input, cut, num_sort_ranks >> /\ Returned(r, 4)
    BY DEF SendIndices
  <2>2. SendParts(r, "indices", LAMBDA e : e.i)
    BY DEF SendIndices
  <2>3. \E recv : Post(r, "indices", send, recv)
    BY <2>2 DEF SendParts, PlacesOf
  <2> QED
    BY <2>1, <2>3
<1>2. Len(posted[r]) = 4 /\ num_sort_ranks[r] = Exchangers(r)
  <2>1. 4 \in Nat \ {0} /\ 4 >= 2
    OBVIOUS
  <2> QED
    BY <1>1, <2>1, ReturnedFrom
<1>3. PICK recv : Post(r, "indices", send, recv)
  BY <1>1
<1>4. posted'[r][5].send = send
  <2> HIDE DEF send
  <2>1. posted'[r][Len(posted[r]) + 1].send = send
    BY <1>3, PostedNext
  <2> QED
    BY <1>2, <2>1
<1>5. Members(r) = Mates(r)
  BY <1>2 DEF Members, Mates
<1>6. \A q \in Ranks : q \in Mates(r) => posted'[r][5].send[q] = PlacesOf(FlattenSeq(cut[r][sort_rank(q) + 1]))
  BY <1>4, <1>5
<1> QED
  BY <1>1, <1>6, SameExchange DEF Sent

\* A sum of the first i lengths is the height of the first i sequences.
LEMMA PrefixSum ==
  ASSUME NEW t \in Seq(Int), NEW i \in 0..Len(t), NEW h, h[0] = 0, \A k \in 1..i : h[k] = h[k - 1] + t[k]
  PROVE  SumOf(SubSeq(t, 1, i)) = h[i]
<1>1. SubSeq(t, 1, i) \in Seq(Int) /\ Len(SubSeq(t, 1, i)) = i /\ \A k \in 1..i : SubSeq(t, 1, i)[k] = t[k]
  <2>1. CASE i = 0
    <3>1. SubSeq(t, 1, i) = << >>
      BY <2>1, SubSeqEmpty
    <3> QED
      BY <2>1, <3>1
  <2>2. CASE i # 0
    BY <2>2, SubSeqProperties
  <2> QED
    BY <2>1, <2>2
<1>2. PICK u : u = SubSeq(t, 1, i)
  OBVIOUS
<1>3. u \in Seq(Int) /\ Len(u) = i /\ \A k \in 1..i : u[k] = t[k]
  BY <1>1, <1>2
<1>4. \A k \in 1..Len(u) : h[k] = h[k - 1] + u[k]
  BY <1>3
<1>5. SumOf(u) = h[i]
  BY <1>3, <1>4, SumIs
<1> QED
  BY <1>2, <1>5

\* x is what of t follows the first `before`.
Slice(t, before, x) ==
  before \in Nat /\ Len(x) \in Nat /\ \A k \in 1..Len(x) : before + k \in 1..Len(t) /\ t[before + k] = x[k]

\* A line of a part follows the lines before in the part's elements.
LEMMA JoinedSlice ==
  ASSUME NEW m \in Nat, NEW part, NEW h, NEW t, Joined(m, part, h, t), NEW s \in 1..m
  PROVE  Slice(t, h[s - 1], part[s])
<1>1. /\ h[s - 1] \in Nat /\ Len(part[s]) \in Nat /\ h[s] = h[s - 1] + Len(part[s]) /\ Len(t) = h[m] /\ h[m] \in Nat
      /\ \A x \in 1..Len(part[s]) : t[h[s - 1] + x] = part[s][x]
  <2>1. s - 1 \in 0..m /\ m \in 0..m
    OBVIOUS
  <2> QED
    BY <2>1 DEF Joined, Heights
<1>2. h[s] <= h[m]
  <2>1. s \in 0..m /\ m \in s..m /\ Heights(m, part, h)
    BY DEF Joined
  <2> QED
    BY <2>1, HeightsGrow
<1>3. \A x \in 1..Len(part[s]) : h[s - 1] + x \in 1..Len(t)
  <2>1. PICK a \in Nat, b \in Nat, c \in Nat : a = h[s - 1] /\ b = Len(part[s]) /\ c = Len(t) /\ a + b <= c
    BY <1>1, <1>2
  <2>2. \A x \in 1..b : a + x \in 1..c
    BY <2>1
  <2> QED
    BY <2>1, <2>2
<1> QED
  BY <1>1, <1>3 DEF Slice

\* The prefix sums of its sizes say where a line is in the flattened part.
LEMMA PartSlice ==
  ASSUME NEW m \in Nat, NEW part \in [1..m -> Seq(Elements)], NEW s \in 1..m
  PROVE  Slice(FlattenSeq(part), SumOf(SubSeq(WithTotal(part), 1, s - 1)), part[s])
<1>1. PICK t : t = FlattenSeq(part)
  OBVIOUS
<1>2. PICK h : Joined(m, part, h, t)
  BY <1>1, LinesJoined DEF IsJoined
<1>3. \A k \in 1..m : Len(part[k]) \in Nat /\ WithTotal(part)[k] = Len(part[k])
  BY TotalIs
<1>4. WithTotal(part) \in Seq(Int) /\ Len(WithTotal(part)) = m + 1
  <2>1. PICK l : l = SizesOf(m, part)
    OBVIOUS
  <2>2. l \in Numbers(m) /\ SumOf(l) \in Int
    BY <2>1, TotalIs, SumType
  <2>3. l \in Seq(Int) /\ Len(l) = m
    BY <2>2, NumbersAreSequences DEF Numbers
  <2>4. DOMAIN part = 1..m
    OBVIOUS
  <2>5. WithTotal(part) = Append(l, SumOf(l))
    BY <2>1, <2>4 DEF WithTotal, SizesOf
  <2>6. Append(l, SumOf(l)) \in Seq(Int) /\ Len(Append(l, SumOf(l))) = Len(l) + 1
    BY <2>2, <2>3, AppendProperties
  <2> QED
    BY <2>3, <2>5, <2>6
<1>5. PICK w : w = WithTotal(part)
  OBVIOUS
<1>6. SumOf(SubSeq(w, 1, s - 1)) = h[s - 1]
  <2>1. s - 1 \in 0..Len(w)
    BY <1>4, <1>5
  <2>2. h[0] = 0 /\ \A k \in 1..m : h[k] = h[k - 1] + Len(part[k])
    BY <1>2 DEF Joined, Heights
  <2>3. \A k \in 1..(s - 1) : h[k] = h[k - 1] + w[k]
    <3>1. \A k \in 1..(s - 1) : k \in 1..m
      OBVIOUS
    <3> QED
      BY <1>3, <1>5, <2>2, <3>1
  <2> QED
    BY <1>4, <1>5, <2>1, <2>2, <2>3, PrefixSum
<1>7. Slice(t, h[s - 1], part[s])
  BY <1>2, JoinedSlice
<1> QED
  BY <1>1, <1>5, <1>6, <1>7

\* Without an argsort, elements have no places.
Plain(line) == \A k \in 1..Len(line) : line[k].i = 0

\* A piece has no places without an argsort.
LEMMA PiecePlain ==
  ASSUME input \in Problems, ~input.argsort, NEW q \in Ranks, NEW s \in 1..num_segments_l(q), NEW t \in LocalSorts(Part(q, s))
  PROVE  t \in Seq(Elements) /\ Plain(t)
<1>1. input.argsort \in BOOLEAN /\ input.stable \in BOOLEAN
  BY RankFacts DEF WellFormed
<1>2. Part(q, s) \in Seq(Elements) /\ Len(Part(q, s)) = segment_size_l(q)
  BY PartIs
<1>3. Steady => PlacesGoUp(Part(q, s))
  BY DEF Steady
<1>4. SortedFrom(Part(q, s), t)
  BY <1>1, <1>2, <1>3, LocalSorted
<1>5. \A k \in 1..segment_size_l(q) : Part(q, s)[k].i = 0
  BY DEF Part
<1> QED
  BY <1>2, <1>4, <1>5 DEF SortedFrom, ComeFrom, Plain

\* Neither has what is cut off.
LEMMA CutPlain ==
  ASSUME input \in Problems, ~input.argsort, NEW q \in Ranks, SortedLocally(q, piece[q]), Cutting(q), Exchangers(q) \in Nat \ {0},
         NEW d \in 1..Exchangers(q), NEW s \in 1..num_segments_l(q)
  PROVE  Plain(cut[q][d][s])
<1>1. PICK n, m : n = Exchangers(q) /\ m = num_segments_l(q)
  OBVIOUS
<1>2. PICK F : cut[q] = PartsOfLines(n, m, piece[q], F)
               /\ \A z \in 1..m : CutAt(n, SamplesGot(q), z, sort_rank(q), piece[q][z], F[z])
  BY <1>1 DEF Cutting, CutRight
<1>3. PICK line, G, part : line = piece[q][s] /\ G = F[s] /\ part = cut[q][d][s]
  OBVIOUS
<1>4. part = PartOf(line, G, d)
  BY <1>1, <1>2, <1>3 DEF PartsOfLines
<1>5. CutsAre(n, line, G)
  BY <1>1, <1>2, <1>3 DEF CutAt
<1>6. line \in Seq(Elements) /\ Plain(line)
  BY <1>3, PiecePlain DEF SortedLocally
<1>7. PICK a : a = From(G, d)
  OBVIOUS
<1>8. CutOut(line, G, d, a)
  BY <1>1, <1>5, <1>6, <1>7, PartIsOf
<1>9. a \in 0..Len(line) /\ G[d] \in 0..Len(line) /\ Len(line) \in Nat /\ Len(part) = G[d] - a
      /\ \A z \in 1..(G[d] - a) : part[z] = line[a + z]
  BY <1>4, <1>8 DEF CutOut
<1>10. \A z \in 1..(G[d] - a) : a + z \in 1..Len(line)
  BY <1>9
<1>11. ASSUME NEW k \in 1..Len(part) PROVE part[k].i = 0
  <2>1. k \in 1..(G[d] - a)
    BY <1>9
  <2>2. part[k] = line[a + k] /\ a + k \in 1..Len(line)
    BY <1>9, <1>10, <2>1
  <2> QED
    BY <1>6, <2>2 DEF Plain
<1> QED
  BY <1>3, <1>11 DEF Plain

\* What a task gets of a line from another one is what that one cut off for it.
LEMMA ElementOf ==
  ASSUME NEW e \in Elements
  PROVE  e = [v |-> e.v, i |-> e.i]
BY DEF Elements

\* What a task reads of a line, from what was sent flattened, is what was cut off for it.
LEMMA ReceivedIs ==
  ASSUME InLine, NEW r \in Ranks, ~Alone(r), \A p \in Ranks : Len(posted[p]) >= Exchanges,
         NEW s \in 1..num_segments_l(r), NEW k \in 1..Exchangers(r)
  PROVE  Received(r, Mate(r, k), s) = cut[Mate(r, k)][sort_rank(r) + 1][s]
<1>1. InExchanges /\ input \in Problems /\ Exchanges \in 4..5 /\ Exchangers(r) \in 0..SortRanks
  <2>1. InExchanges /\ Exchanges \in 4..5
    BY DEF InLine, Exchanges
  <2> QED
    BY <2>1, Behind, MembersAre
<1>2. PICK q \in Ranks : q = Mate(r, k)
  BY <1>1, MateIs
<1>3. /\ q \in Ranks /\ r \in Mates(q) /\ ~Alone(q) /\ Exchangers(q) = Exchangers(r) /\ s \in 1..num_segments_l(q)
      /\ num_segments_l(q) \in Nat
  BY <1>1, <1>2, MateIs, MembersAre
<1>4. Exchangers(r) # 0 /\ Exchangers(r) \in Nat \ {0} /\ sort_rank(r) + 1 \in 1..Exchangers(r)
  <2>1. num_segments_l(r) # 0
    OBVIOUS
  <2> QED
    BY <1>1, <2>1, MembersAre, RankFacts
<1>5. Len(posted[q]) \in Nat /\ Len(posted[q]) >= Exchanges
  BY <1>1, Behind
<1>6. /\ SortedLocally(q, piece[q]) /\ Cutting(q) /\ CutFact(q) /\ Sent(q, 4, ValuesOf)
      /\ input.argsort => Sent(q, 5, PlacesOf)
  <2>1. 1 \in 1..Len(posted[q]) /\ 3 \in 1..Len(posted[q]) /\ 4 \in 1..Len(posted[q])
    BY <1>1, <1>5
  <2>2. Order(q, 1) /\ Order(q, 3) /\ Order(q, 4) /\ Fact(q, 3)
    BY <2>1 DEF InLine, InExchanges
  <2>3. input.argsort => Order(q, 5)
    <3>1. input.argsort => 5 \in 1..Len(posted[q])
      BY <1>5 DEF Exchanges
    <3> QED
      BY <3>1 DEF InLine
  <2>4. Exchangers(q) # 0
    BY <1>3, <1>4
  <2> QED
    BY <2>2, <2>3, <2>4 DEF Order, Fact
<1>7. PICK part : part = cut[q][sort_rank(r) + 1]
  OBVIOUS
<1>8. PICK m \in Nat : m = num_segments_l(q) /\ s \in 1..m
  BY <1>3
<1>9. part \in [1..m -> Seq(Elements)]
  BY <1>3, <1>4, <1>6, <1>7, <1>8 DEF CutFact, TakenApart
<1>10. Sizes(r, q) = WithTotal(part)
  BY <1>3, <1>6, <1>7 DEF CutFact, Sizes, FromTask
<1>11. PICK t, before, x : t = FlattenSeq(part) /\ before = SumOf(SubSeq(WithTotal(part), 1, s - 1)) /\ x = part[s]
  OBVIOUS
<1>12. /\ before \in Nat /\ Len(x) \in Nat /\ t \in Seq(Elements) /\ x \in Seq(Elements) /\ Sizes(r, q)[s] = Len(x)
       /\ \A j \in 1..Len(x) : before + j \in 1..Len(t) /\ t[before + j] = x[j]
  <2>1. Slice(t, before, x)
    BY <1>8, <1>9, <1>11, PartSlice
  <2>2. t \in Seq(Elements) /\ WithTotal(part)[s] = Len(x)
    <3>1. FlattenSeq(part) \in Seq(Elements) /\ \A z \in 1..m : WithTotal(part)[z] = Len(part[z])
      BY <1>9, TotalIs
    <3> QED
      BY <1>8, <1>11, <3>1
  <2>3. x \in Seq(Elements)
    BY <1>8, <1>9, <1>11
  <2> QED
    BY <1>10, <2>1, <2>2, <2>3 DEF Slice
<1>13. FromTask(r, 4, q) = ValuesOf(t) /\ (input.argsort => FromTask(r, 5, q) = PlacesOf(t))
  BY <1>3, <1>6, <1>7, <1>11 DEF Sent, FromTask
<1>14. ~input.argsort => Plain(x)
  BY <1>1, <1>3, <1>4, <1>6, <1>7, <1>11, CutPlain
<1>15. ASSUME NEW j \in 1..Len(x)
       PROVE  [v |-> FromTask(r, 4, q)[before + j], i |-> IF input.argsort THEN FromTask(r, 5, q)[before + j] ELSE 0] = x[j]
  <2>1. before + j \in DOMAIN t /\ t[before + j] = x[j]
    BY <1>12, LenProperties
  <2>2. ValuesOf(t)[before + j] = x[j].v /\ PlacesOf(t)[before + j] = x[j].i
    BY <2>1 DEF ValuesOf, PlacesOf
  <2>3. ~input.argsort => x[j].i = 0
    BY <1>14 DEF Plain
  <2>4. x[j] \in Elements
    BY <1>12, LineElements
  <2>5. x[j] = [v |-> x[j].v, i |-> x[j].i]
    BY <2>4, ElementOf
  <2>6. FromTask(r, 4, q)[before + j] = x[j].v /\ (IF input.argsort THEN FromTask(r, 5, q)[before + j] ELSE 0) = x[j].i
    BY <1>13, <2>2, <2>3
  <2> QED
    BY <2>5, <2>6
<1>16. Received(r, q, s) = [j \in 1..Len(x) |-> x[j]]
  <2>1. Received(r, q, s) = [j \in 1..Len(x) |-> [v |-> FromTask(r, 4, q)[before + j], i |-> IF input.argsort THEN FromTask(r, 5, q)[before + j] ELSE 0]]
    BY <1>10, <1>11, <1>12 DEF Received
  <2> QED
    BY <1>15, <2>1
<1>17. x = [j \in 1..Len(x) |-> x[j]]
  BY <1>12
<1> QED
  BY <1>2, <1>7, <1>11, <1>16, <1>17

\* A task merges what was cut off for it.
LEMMA MergedIsInLine ==
  ASSUME InLine, NEW r \in Ranks, Returned(r, Exchanges), NEW s \in 1..num_segments_l(r)
  PROVE  MergedLine(r, s) = MergeOf(r, s)
<1>1. ~Alone(r) /\ num_sort_ranks[r] = Exchangers(r) /\ \A p \in Ranks : Len(posted[p]) >= Exchanges
  <2>1. InExchanges /\ Exchanges \in Nat \ {0} /\ Exchanges >= 2
    BY DEF InLine, Exchanges
  <2> QED
    BY <2>1, ReturnedFrom
<1>2. \A k \in 1..Exchangers(r) : Received(r, group(r) * SortRanks + k - 1, s) = cut[Mate(r, k)][sort_rank(r) + 1][s]
  BY <1>1, ReceivedIs DEF Mate
<1> QED
  BY <1>1, <1>2 DEF MergedLine, MergeOf, Delivered

\* After Merge, all lines are merged; an unbound result is these lines.
LEMMA MergeMerges ==
  ASSUME InLine, NEW r \in Ranks, Merge(r)
  PROVE  /\ posted' # posted => AllMerged(r)'
         /\ out'[r] # out[r] => Outcome(r)'
<1> DEFINE m == num_segments_l(r)
           lines == [s \in 1..m |-> MergedLine(r, s)]
           all == [s \in 1..m |-> MergeOf(r, s)]
<1>1. Returned(r, Exchanges) /\ input' = input /\ merged' = [merged EXCEPT ![r] = lines]
  BY DEF Merge
<1>2. IF input.bound THEN out' = out
      ELSE out' = [out EXCEPT ![r] = << [s \in DOMAIN lines |-> Projected(lines[s])] >>] /\ posted' = posted
  BY DEF Merge
<1>3. lines = all
  BY <1>1, MergedIsInLine
<1> HIDE DEF lines
<1>4. InExchanges /\ Grows /\ ~Alone(r) /\ \A q \in Ranks : Len(posted[q]) >= 3
  <2>1. InExchanges /\ Exchanges \in Nat \ {0} /\ Exchanges \in 4..5 /\ Step(r)
    BY DEF InLine, Exchanges, Step
  <2>2. ~Alone(r) /\ \A q \in Ranks : Len(posted[q]) \in Nat /\ Len(posted[q]) >= Exchanges
    BY <1>1, <2>1, ReturnedFrom
  <2> QED
    BY <2>1, <2>2, StepGrows
<1>5. merged'[r] = all
  BY <1>1, <1>3, <1>4 DEF InExchanges
<1>6. \A s : MergeOf(r, s)' = MergeOf(r, s)
  BY <1>4, DeliveredKept
<1>7. num_segments_l(r)' = m /\ Alone(r)' = Alone(r) /\ \A t : Projected(t)' = Projected(t)
  BY <1>1, SameExchange, SameLines
<1>8. AllMerged(r)'
  BY <1>5, <1>6, <1>7 DEF AllMerged
<1>9. out'[r] # out[r] => Outcome(r)'
  <2>1. SUFFICES ASSUME out'[r] # out[r] PROVE Outcome(r)'
    OBVIOUS
  <2>2. ~input.bound /\ out' = [out EXCEPT ![r] = << [s \in DOMAIN lines |-> Projected(lines[s])] >>]
    BY <1>2, <2>1
  <2>3. DOMAIN out = Ranks
    BY <1>4 DEF InExchanges, InCounts, InStep
  <2>4. out'[r] = << [s \in 1..m |-> Projected(MergeOf(r, s))] >>
    BY <1>3, <2>2, <2>3
  <2>5. [s \in 1..num_segments_l(r) |-> Projected(MergeOf(r, s))]' = [s \in 1..m |-> Projected(MergeOf(r, s))]
    BY <1>1, <1>6, <1>7 DEF Projected
  <2>6. ~input'.bound /\ ~Alone(r)'
    BY <1>1, <1>4, <1>7, <2>2
  <2>7. out'[r] = << [s \in 1..num_segments_l(r) |-> Projected(MergeOf(r, s))]' >>
    BY <2>4, <2>5
  <2> QED
    BY <2>6, <2>7 DEF Outcome
<1> QED
  BY <1>8, <1>9

\* A task without elements returns nothing.
LEMMA ReturnEarlyReturned ==
  ASSUME InLine, NEW r \in Ranks, ReturnEarly(r) PROVE Outcome(r)'
<1>1. out' = [out EXCEPT ![r] = << << >> >>] /\ input' = input /\ volume(r) = 0 /\ Alone(r)
  BY DEF ReturnEarly, returns_early, Alone
<1>2. DOMAIN out = Ranks
  BY DEF InLine, InExchanges, InCounts, InStep
<1>3. out'[r] = << << >> >>
  BY <1>1, <1>2
<1>4. volume(r)' = 0 /\ Alone(r)'
  BY <1>1, SameLines
<1> QED
  BY <1>3, <1>4 DEF Outcome

\* A task that sorts alone returns its lines sorted.
LEMMA SortAloneSorts ==
  ASSUME InLine, NEW r \in Ranks, SortAlone(r) PROVE Outcome(r)'
<1>1. PICK sorted \in [1..num_segments_l(r) -> UNION { LocalSorts(Part(r, s)) : s \in 1..num_segments_l(r) }] :
         /\ \A s \in DOMAIN sorted : sorted[s] \in LocalSorts(Part(r, s))
         /\ out' = [out EXCEPT ![r] = << [s \in DOMAIN sorted |-> Projected(sorted[s])] >>]
  BY DEF SortAlone
<1>2. SortedLocally(r, sorted)
  BY <1>1 DEF SortedLocally
<1>3. DOMAIN out = Ranks /\ input' = input /\ Alone(r)
  BY DEF InLine, InExchanges, InCounts, InStep, SortAlone, Alone
<1>4. out'[r] = << [s \in 1..num_segments_l(r) |-> Projected(sorted[s])] >>
  BY <1>1, <1>3
<1>5. SortedLocally(r, sorted)'
  BY <1>2, <1>3, SortedLocallyKept
<1>6. Alone(r)' /\ num_segments_l(r)' = num_segments_l(r) /\ \A t : Projected(t)' = Projected(t)
  BY <1>3, SameLines, SameExchange
<1>7. [s \in 1..num_segments_l(r) |-> Projected(sorted[s])]' = [s \in 1..num_segments_l(r) |-> Projected(sorted[s])]
  BY <1>6
<1>8. out'[r] = << [s \in 1..num_segments_l(r) |-> Projected(sorted[s])]' >>
  BY <1>4, <1>7
<1>9. SortedAlone(r)'
  BY <1>5, <1>8 DEF SortedAlone
<1> QED
  BY <1>6, <1>9 DEF Outcome

---------------------------------------------------------------------------
(* The shift, as the tasks do it *)

\* Elements from..to of a line.
ReadOf(line, from, n, t) ==
  t \in Seq(Elements) /\ Len(t) = Positive(n) /\ \A k \in 1..Len(t) : from + (k - 1) \in 1..Len(line) => t[k] = line[from + (k - 1)]

\* What Read returns.
LEMMA ReadIsOf ==
  ASSUME NEW line \in Seq(Elements), NEW from \in Int, NEW to \in Int, NEW n \in Int, n = to - from + 1, NEW t, t = Read(line, from, to)
  PROVE  ReadOf(line, from, n, t)
<1>1. PICK p \in Nat : p = Positive(to - from + 1) /\ p = Positive(n)
  <2>1. Positive(n) \in Nat
    BY DEF Positive
  <2> QED
    BY <2>1
<1>2. DOMAIN line = 1..Len(line)
  BY LenProperties
<1>3. t = [k \in 1..p |-> IF from + k - 1 \in 1..Len(line) THEN line[from + k - 1] ELSE [v |-> 0, i |-> -1]]
  BY <1>1, <1>2 DEF Read
<1>4. [v |-> 0, i |-> -1] \in Elements
  BY DEF Elements
<1>5. \A k \in 1..p : t[k] \in Elements
  <2>1. ASSUME NEW k \in 1..p PROVE t[k] \in Elements
    <3>1. CASE from + k - 1 \in 1..Len(line)
      <4>1. line[from + k - 1] \in Elements
        BY <3>1, LineElements
      <4> QED
        BY <1>3, <3>1, <4>1
    <3>2. CASE from + k - 1 \notin 1..Len(line)
      BY <1>3, <1>4, <3>2
    <3> QED
      BY <3>1, <3>2
  <2> QED
    BY <2>1
<1>6. t \in [1..p -> Elements]
  BY <1>3, <1>5
<1>7. t \in Seq(Elements) /\ Len(t) = p
  BY <1>6, NumbersAreSequences
<1>8. \A k \in 1..p : from + (k - 1) \in 1..Len(line) => t[k] = line[from + (k - 1)]
  <2>1. ASSUME NEW k \in 1..p, from + (k - 1) \in 1..Len(line) PROVE t[k] = line[from + (k - 1)]
    <3>1. from + k - 1 = from + (k - 1)
      OBVIOUS
    <3> QED
      BY <1>3, <2>1, <3>1
  <2> QED
    BY <2>1
<1> QED
  BY <1>1, <1>7, <1>8 DEF ReadOf

\* What is cut off for a task, and what it merges of it.
LEMMA MergeOfIs ==
  ASSUME InExchanges, NEW r \in Ranks, ~Alone(r), \A q \in Ranks : Len(posted[q]) >= 3, NEW s \in 1..num_segments_l(r)
  PROVE  /\ Delivered(r, s) \in Seq(Elements) /\ Len(Delivered(r, s)) = SumOf(Got(r, s)) /\ SumOf(Got(r, s)) \in Nat
         /\ MergeOf(r, s) \in Seq(Elements) /\ Len(MergeOf(r, s)) = SumOf(Got(r, s))
<1> DEFINE n == Exchangers(r)
           d == [k \in 1..n |-> cut[Mate(r, k)][sort_rank(r) + 1][s]]
<1>1. input \in Problems /\ n \in Nat /\ n \in 0..SortRanks /\ sort_rank(r) + 1 \in 1..n
  <2>1. num_segments_l(r) # 0 /\ input \in Problems
    BY Behind
  <2> QED
    BY <2>1, MembersAre, PlaceIs
<1>2. ASSUME NEW k \in 1..n PROVE d[k] \in Seq(Elements) /\ Len(d[k]) = Got(r, s)[k]
  <2>1. PICK q \in Ranks : q = Mate(r, k)
    BY <1>1, MateIs
  <2>2. Exchangers(q) = n /\ num_segments_l(q) = num_segments_l(r)
    BY <1>1, <2>1, MateIs
  <2>3. CutFact(q)
    <3>1. 3 \in 1..Len(posted[q])
      BY Behind
    <3>2. Fact(q, 3)
      BY <3>1 DEF InExchanges
    <3> QED
      BY <3>2 DEF Fact
  <2>4. cut[q] \in [1..n -> [1..num_segments_l(r) -> Seq(Elements)]]
    BY <2>2, <2>3 DEF CutFact, TakenApart
  <2>5. cut[q][sort_rank(r) + 1][s] \in Seq(Elements)
    BY <1>1, <2>4
  <2>6. Got(r, s)[k] = Len(cut[Mate(r, k)][sort_rank(r) + 1][s])
    BY GotIs
  <2> QED
    BY <2>1, <2>5, <2>6
<1>3. Got(r, s) \in Numbers(n) /\ Got(r, s) \in [1..n -> Nat]
  BY GotType
<1>4. d = [k \in 1..n |-> d[k]] /\ Delivered(r, s) = FlattenSeq(d)
  BY DEF Delivered
<1> HIDE DEF d, n
<1>5. IsSequence(d) /\ Len(d) = n
  BY <1>1, <1>4, FunctionIs
<1>6. LengthsOf(n, d, Got(r, s))
  BY <1>2 DEF LengthsOf
<1>7. FlattenSeq(d) \in Seq(Elements) /\ Len(FlattenSeq(d)) = SumOf(Got(r, s))
  BY <1>1, <1>2, <1>3, <1>5, <1>6, FlattenSum
<1>8. Len(FlattenSeq(d)) \in Nat
  BY <1>7, LenProperties
<1>9. PICK t : t = StableSort(FlattenSeq(d))
  OBVIOUS
<1>10. t \in Seq(Elements) /\ Len(t) = Len(FlattenSeq(d))
  BY <1>7, <1>9, StableSortIs
<1> QED
  BY <1>4, <1>7, <1>8, <1>9, <1>10 DEF MergeOf

\* A task that merged, and knows what is too much.
MergedAt(r) == InExchanges /\ ~Alone(r) /\ (\A q \in Ranks : Len(posted[q]) >= Exchanges + 1) /\ AllMerged(r)
Edges(r, s, line) ==
  /\ line = merged[r][s] /\ line = MergeOf(r, s) /\ line \in Seq(Elements) /\ Len(line) = SumOf(Got(r, s)) /\ Len(line) \in Nat
  /\ ToLeft(r, s) \in Int /\ ToRight(r, s) \in Int
  /\ ReadOf(line, 1, ToLeft(r, s), LeftOf(r, s))
  /\ ReadOf(line, Len(line) - Positive(ToRight(r, s)) + 1, Positive(ToRight(r, s)), RightOf(r, s))
  /\ ReadOf(line, Positive(ToLeft(r, s)) + 1, Len(line) - Positive(ToRight(r, s)) - Positive(ToLeft(r, s)), MiddleOf(r, s))

\* What the code sends to the left and right, and keeps, are the ends and the middle of what was merged.
LEMMA EdgesAre ==
  ASSUME NEW r \in Ranks, MergedAt(r), num_sort_ranks[r] = Exchangers(r), NEW s \in 1..num_segments_l(r)
  PROVE  /\ \E line : Edges(r, s, line)
         /\ Leftmost(r, s) = LeftOf(r, s) /\ Rightmost(r, s) = RightOf(r, s) /\ Middle(r, s) = MiddleOf(r, s)
<1>1. /\ InExchanges /\ ~Alone(r) /\ \A q \in Ranks : Len(posted[q]) \in Nat /\ Len(posted[q]) >= Exchanges + 1 /\ Len(posted[q]) >= 3
  <2>1. Exchanges \in 4..5 /\ InExchanges /\ ~Alone(r) /\ \A q \in Ranks : Len(posted[q]) >= Exchanges + 1
    BY DEF Exchanges, MergedAt
  <2> QED
    BY <2>1, Behind
<1>2. merged[r][s] = MergeOf(r, s)
  BY DEF MergedAt, AllMerged
<1>3. PICK line : line = merged[r][s]
  OBVIOUS
<1>4. line \in Seq(Elements) /\ Len(line) = SumOf(Got(r, s)) /\ Len(line) \in Nat
  BY <1>1, <1>2, <1>3, MergeOfIs
<1>5. send_left(r, s) = ToLeft(r, s) /\ send_right(r, s) = ToRight(r, s) /\ ToLeft(r, s) \in Int /\ ToRight(r, s) \in Int
  BY <1>1, ShiftsAre
<1>6. PICK a \in Int, b \in Int : a = ToLeft(r, s) /\ b = ToRight(r, s)
  BY <1>5
<1>7. PICK p \in Nat, q \in Nat : p = Positive(a) /\ q = Positive(b)
  BY PositiveIs
<1>8. PICK l \in Nat : l = Len(line)
  BY <1>4
<1>9. ReadOf(line, 1, a, LeftOf(r, s))
  <2>1. 1 \in Int /\ a = a - 1 + 1
    OBVIOUS
  <2>2. PICK t : t = Read(line, 1, a)
    OBVIOUS
  <2>3. ReadOf(line, 1, a, t)
    BY <1>4, <2>1, <2>2, ReadIsOf
  <2> QED
    BY <1>3, <1>6, <2>2, <2>3 DEF LeftOf
<1>10. ReadOf(line, l - q + 1, q, RightOf(r, s))
  <2>1. PICK f \in Int : f = l - q + 1
    OBVIOUS
  <2>2. q = l - f + 1 /\ q \in Int /\ l \in Int
    BY <2>1
  <2>3. PICK t : t = Read(line, f, l)
    OBVIOUS
  <2>4. ReadOf(line, f, q, t)
    BY <1>4, <2>2, <2>3, ReadIsOf
  <2> QED
    BY <1>3, <1>6, <1>7, <1>8, <2>1, <2>3, <2>4 DEF RightOf
<1>11. ReadOf(line, p + 1, l - q - p, MiddleOf(r, s))
  <2>1. PICK f \in Int, e \in Int, n \in Int : f = p + 1 /\ e = l - q /\ n = l - q - p
    OBVIOUS
  <2>2. n = e - f + 1
    BY <2>1
  <2>3. PICK t : t = Read(line, f, e)
    OBVIOUS
  <2>4. ReadOf(line, f, n, t)
    BY <1>4, <2>2, <2>3, ReadIsOf
  <2> QED
    BY <1>3, <1>6, <1>7, <1>8, <2>1, <2>3, <2>4 DEF MiddleOf
<1>12. Edges(r, s, line)
  BY <1>2, <1>3, <1>4, <1>5, <1>6, <1>7, <1>8, <1>9, <1>10, <1>11 DEF Edges
<1>13. Leftmost(r, s) = LeftOf(r, s) /\ Rightmost(r, s) = RightOf(r, s) /\ Middle(r, s) = MiddleOf(r, s)
  BY <1>5 DEF Leftmost, Rightmost, Middle, LeftOf, RightOf, MiddleOf
<1> QED
  BY <1>12, <1>13

\* What is known at the shift.
LEMMA AtShiftKnown ==
  ASSUME InLine, NEW r \in Ranks, Returned(r, Exchanges + 1) \/ Returned(r, Exchanges + 2), NEW q \in Ranks
  PROVE  /\ MergedAt(q) /\ num_sort_ranks[q] = Exchangers(q) /\ num_segments_l(q) \in Nat /\ input \in Problems
         /\ DOMAIN merged[q] = 1..num_segments_l(q)
<1>1. Exchanges \in 4..5 /\ InExchanges /\ InCounts
  BY DEF Exchanges, InLine, InExchanges
<1>2. \A p \in Ranks : Len(posted[p]) \in Nat /\ Len(posted[p]) >= Exchanges + 1
  BY <1>1, Behind DEF Returned
<1>3. ~Alone(q) /\ input \in Problems
  <2>1. (posted[q] = << >> <=> Len(posted[q]) = 0) /\ input \in Problems /\ (posted[q] # << >> => ~Alone(q))
    BY <1>1, Behind
  <2> QED
    BY <1>1, <1>2, <2>1
<1>4. Exchanges + 1 \in 1..Len(posted[q])
  BY <1>1, <1>2
<1>5. AllMerged(q)
  BY <1>4 DEF InLine, Order
<1>6. DOMAIN merged[q] = 1..num_segments_l(q)
  BY <1>5 DEF AllMerged
<1>7. num_sort_ranks[q] = Exchangers(q)
  <2>1. Len(posted[q]) >= 2
    BY <1>1, <1>2
  <2> QED
    BY <1>1, <2>1 DEF InCounts, Counted
<1>8. num_segments_l(q) \in Nat
  BY <1>3, RankParts
<1> QED
  BY <1>1, <1>2, <1>3, <1>5, <1>6, <1>7, <1>8 DEF MergedAt

\* A task sends the ends of its lines to its neighbours, flattened.
LEMMA BalanceShifts ==
  ASSUME InLine, NEW r \in Ranks, Balance(r) PROVE Shifted(r)'
<1> DEFINE m == num_segments_l(r)
           left == [s \in 1..m |-> LeftOf(r, s)]
           right == [s \in 1..m |-> RightOf(r, s)]
           send == [q \in Ranks |-> IF q = r - 1 THEN FlattenSeq(left) ELSE IF q = r + 1 THEN FlattenSeq(right) ELSE << >>]
<1>1. Returned(r, Exchanges + 1) /\ input' = input
  BY DEF Balance
<1>2. /\ MergedAt(r) /\ num_sort_ranks[r] = Exchangers(r) /\ DOMAIN merged[r] = 1..m /\ Exchanges \in 4..5
      /\ Len(posted[r]) = Exchanges + 1 /\ InExchanges /\ input \in Problems
  <2>1. Exchanges \in 4..5
    BY DEF Exchanges
  <2> QED
    BY <1>1, <2>1, AtShiftKnown DEF Returned, InLine
<1>3. \A s \in 1..m : Leftmost(r, s) = LeftOf(r, s) /\ Rightmost(r, s) = RightOf(r, s)
  BY <1>2, EdgesAre
<1>4. [s \in DOMAIN merged[r] |-> Leftmost(r, s)] = left /\ [s \in DOMAIN merged[r] |-> Rightmost(r, s)] = right
  BY <1>2, <1>3
<1>6. \E recv : Post(r, "neighbours", send, recv)
  BY <1>4 DEF Balance, OverLines
<1>7. PICK recv : Post(r, "neighbours", send, recv)
  BY <1>6
<1>8. posted'[r][Exchanges + 2].send = send
  <2> HIDE DEF send
  <2>1. posted'[r][Len(posted[r]) + 1].send = send
    BY <1>2, <1>7, PostedNext
  <2>2. Len(posted[r]) + 1 = Exchanges + 2
    BY <1>2
  <2> QED
    BY <2>1, <2>2
<1>9. \A s \in 1..m : LeftOf(r, s)' = LeftOf(r, s) /\ RightOf(r, s)' = RightOf(r, s)
  <2>1. Grows
    <3>1. Step(r)
      BY DEF Step
    <3> QED
      BY <1>2, <3>1, StepGrows
  <2>2. AtShift /\ ~Alone(r)
    BY <1>2 DEF AtShift, MergedAt
  <2> QED
    BY <2>1, <2>2, EdgesKept
<1>10. Ranks' = Ranks /\ Exchanges' = Exchanges /\ num_segments_l(r)' = m
  BY <1>1, SameExchange
<1>11. [s \in 1..num_segments_l(r) |-> LeftOf(r, s)]' = left /\ [s \in 1..num_segments_l(r) |-> RightOf(r, s)]' = right
  BY <1>9, <1>10
<1>12. \A q \in Ranks : /\ q = r - 1 => posted'[r][Exchanges + 2].send[q] = FlattenSeq(left)
                        /\ q = r + 1 => posted'[r][Exchanges + 2].send[q] = FlattenSeq(right)
  <2>1. r \in Int /\ \A q \in Ranks : q \in Int
    BY <1>2, RankParts, RankFacts DEF Ranks
  <2> HIDE DEF left, right
  <2> QED
    BY <1>8, <2>1
<1> HIDE DEF left, right, m, send
<1> QED
  BY <1>10, <1>11, <1>12 DEF Shifted

\* Reading a line of what came in gives the line.
LEMMA ReadSlice ==
  ASSUME NEW m \in Nat, NEW f \in [1..m -> Seq(Elements)], NEW c \in Numbers(m), LengthsOf(m, f, c), NEW s \in 1..m,
         NEW b \in Numbers(s - 1), SameTo(s - 1, c, b), NEW before, before = SumOf(b), NEW to, to = before + c[s]
  PROVE  Read(FlattenSeq(f), before + 1, to) = f[s]
<1>1. PICK t : t = FlattenSeq(f)
  OBVIOUS
<1>2. PICK h : Joined(m, f, h, t)
  BY <1>1, LinesJoined DEF IsJoined
<1>3. h[0] = 0 /\ \A k \in 1..m : h[k] = h[k - 1] + Len(f[k])
  BY <1>2 DEF Joined, Heights
<1>4. before = h[s - 1]
  <2>1. s - 1 \in Nat /\ \A k \in 1..(s - 1) : k \in 1..m
    OBVIOUS
  <2>2. \A k \in 1..(s - 1) : h[k] = h[k - 1] + b[k]
    BY <1>3, <2>1 DEF SameTo, LengthsOf
  <2>3. SumOf(b) = h[s - 1]
    BY <1>3, <2>1, <2>2, SumEquals
  <2> QED
    BY <2>3
<1>5. PICK x \in Seq(Elements) : x = f[s]
  OBVIOUS
<1>6. before \in Nat /\ Len(x) \in Nat /\ \A k \in 1..Len(x) : before + k \in 1..Len(t) /\ t[before + k] = x[k]
  <2>1. Slice(t, h[s - 1], f[s])
    BY <1>2, JoinedSlice
  <2> QED
    BY <1>4, <1>5, <2>1 DEF Slice
<1>7. PICK l \in Nat : l = Len(x) /\ c[s] = l
  BY <1>5, <1>6 DEF LengthsOf
<1>8. to - (before + 1) + 1 = l /\ Positive(l) = l
  BY <1>6, <1>7, SMTT(30) DEF Positive
<1>9. t \in Seq(Elements)
  BY <1>1, LinesJoined
<1>10. DOMAIN t = 1..Len(t)
  BY <1>9, LenProperties
<1>11. Read(t, before + 1, to) = [k \in 1..l |-> IF before + 1 + k - 1 \in DOMAIN t THEN t[before + 1 + k - 1] ELSE [v |-> 0, i |-> -1]]
  BY <1>8 DEF Read
<1>12. \A k \in 1..l : (IF before + 1 + k - 1 \in DOMAIN t THEN t[before + 1 + k - 1] ELSE [v |-> 0, i |-> -1]) = x[k]
  <2>1. ASSUME NEW k \in 1..l
        PROVE  (IF before + 1 + k - 1 \in DOMAIN t THEN t[before + 1 + k - 1] ELSE [v |-> 0, i |-> -1]) = x[k]
    <3>1. before + 1 + k - 1 = before + k
      BY <1>6
    <3>2. before + k \in DOMAIN t /\ t[before + k] = x[k]
      BY <1>6, <1>7, <1>10
    <3> QED
      BY <3>1, <3>2
  <2> QED
    BY <2>1
<1>13. x = [k \in 1..l |-> x[k]]
  BY <1>7
<1>14. Read(t, before + 1, to) = x
  BY <1>11, <1>12, <1>13
<1> QED
  BY <1>1, <1>5, <1>14

\* The lines that come from the left, and how long they are.
LEMMA RightLines ==
  ASSUME InLine, NEW r \in Ranks, Returned(r, Exchanges + 2), NEW q \in Ranks, r = q + 1, q \in Mates(r)
  PROVE  \E f \in [1..num_segments_l(r) -> Seq(Elements)] :
           /\ f = [t \in 1..num_segments_l(r) |-> RightOf(q, t)]
           /\ \A t \in 1..num_segments_l(r) : Len(f[t]) = Positive(-ToLeft(r, t))
           /\ FromTask(r, Exchanges + 2, q) = FlattenSeq(f)
<1> DEFINE m == num_segments_l(r)
           f == [t \in 1..m |-> RightOf(q, t)]
<1>1. Exchanges \in 4..5 /\ InExchanges
  BY DEF Exchanges, InLine
<1>2. MergedAt(q) /\ MergedAt(r) /\ num_sort_ranks[q] = Exchangers(q) /\ input \in Problems
  BY AtShiftKnown
<1>3. r \in Mates(q) /\ num_segments_l(q) = m
  BY <1>2, MembersFind DEF Mates, MergedAt
<1>4. ASSUME NEW t \in 1..m PROVE RightOf(q, t) \in Seq(Elements) /\ Len(RightOf(q, t)) = Positive(-ToLeft(r, t))
  <2>1. PICK line : Edges(q, t, line)
    BY <1>2, <1>3, EdgesAre
  <2>2. PICK b \in Int : b = ToRight(q, t)
    BY <2>1 DEF Edges
  <2>3. RightOf(q, t) \in Seq(Elements) /\ Len(RightOf(q, t)) = Positive(Positive(b))
    BY <2>1, <2>2 DEF Edges, ReadOf
  <2>4. Positive(Positive(b)) = Positive(b)
    BY DEF Positive
  <2>5. ToRight(q, t) = -ToLeft(r, t)
    BY <1>2, <1>3, NextMember DEF MergedAt
  <2> QED
    BY <2>2, <2>3, <2>4, <2>5
<1>5. FromTask(r, Exchanges + 2, q) = FlattenSeq(f)
  <2>1. Exchanges + 2 \in 1..Len(posted[q])
    BY <1>1, Behind DEF Returned
  <2>2. Shifted(q)
    BY <2>1 DEF InLine, Order
  <2> QED
    BY <1>3, <2>2 DEF Shifted, FromTask
<1>6. f \in [1..m -> Seq(Elements)] /\ \A t \in 1..m : Len(f[t]) = Positive(-ToLeft(r, t))
  BY <1>4
<1> QED
  BY <1>5, <1>6

\* The same for the lines that come from the right.
LEMMA LeftLines ==
  ASSUME InLine, NEW r \in Ranks, Returned(r, Exchanges + 2), NEW q \in Ranks, q = r + 1, q \in Mates(r)
  PROVE  \E f \in [1..num_segments_l(r) -> Seq(Elements)] :
           /\ f = [t \in 1..num_segments_l(r) |-> LeftOf(q, t)]
           /\ \A t \in 1..num_segments_l(r) : Len(f[t]) = Positive(-ToRight(r, t))
           /\ FromTask(r, Exchanges + 2, q) = FlattenSeq(f)
<1> DEFINE m == num_segments_l(r)
           f == [t \in 1..m |-> LeftOf(q, t)]
<1>1. Exchanges \in 4..5 /\ InExchanges
  BY DEF Exchanges, InLine
<1>2. MergedAt(q) /\ MergedAt(r) /\ num_sort_ranks[q] = Exchangers(q) /\ input \in Problems
  BY AtShiftKnown
<1>3. r \in Mates(q) /\ num_segments_l(q) = m /\ r = q - 1
  <2>1. r \in Int
    BY <1>2, RankParts, RankFacts DEF Ranks
  <2> QED
    BY <1>2, <2>1, MembersFind DEF Mates, MergedAt
<1>4. ASSUME NEW t \in 1..m PROVE LeftOf(q, t) \in Seq(Elements) /\ Len(LeftOf(q, t)) = Positive(-ToRight(r, t))
  <2>1. PICK line : Edges(q, t, line)
    BY <1>2, <1>3, EdgesAre
  <2>2. LeftOf(q, t) \in Seq(Elements) /\ Len(LeftOf(q, t)) = Positive(ToLeft(q, t))
    BY <2>1 DEF Edges, ReadOf
  <2>3. ToRight(r, t) = -ToLeft(q, t) /\ ToLeft(q, t) \in Int
    BY <1>2, <1>3, NextMember DEF MergedAt
  <2>4. -ToRight(r, t) = ToLeft(q, t)
    BY <2>3
  <2> QED
    BY <2>2, <2>4
<1>5. FromTask(r, Exchanges + 2, q) = FlattenSeq(f)
  <2>1. Exchanges + 2 \in 1..Len(posted[q])
    BY <1>1, Behind DEF Returned
  <2>2. Shifted(q)
    BY <2>1 DEF InLine, Order
  <2> QED
    BY <1>3, <2>2 DEF Shifted, FromTask
<1>6. f \in [1..m -> Seq(Elements)] /\ \A t \in 1..m : Len(f[t]) = Positive(-ToRight(r, t))
  BY <1>4
<1> QED
  BY <1>5, <1>6

\* What a task reads of what came in is the end of the line of its neighbour.
LEMMA IncomingIs ==
  ASSUME InLine, NEW r \in Ranks, Returned(r, Exchanges + 2), NEW s \in 1..num_segments_l(r)
  PROVE  Incoming(r, r - 1, s, send_left) = FromLeft(r, s) /\ Incoming(r, r + 1, s, send_right) = FromRight(r, s)
<1> DEFINE m == num_segments_l(r)
<1>1. MergedAt(r) /\ num_sort_ranks[r] = Exchangers(r) /\ input \in Problems /\ m \in Nat
  BY AtShiftKnown
<1>2. InExchanges /\ ~Alone(r) /\ \A p \in Ranks : Len(posted[p]) >= Exchanges + 1
  BY <1>1 DEF MergedAt
<1>3. \A t \in 1..m : send_left(r, t) = ToLeft(r, t) /\ send_right(r, t) = ToRight(r, t) /\ ToLeft(r, t) \in Int /\ ToRight(r, t) \in Int
  BY <1>1, <1>2, ShiftsAre
<1>4. \A t \in 1..(s - 1) : t \in 1..m
  BY <1>1
<1>5. r \in Int
  BY <1>1, RankParts, RankFacts DEF Ranks
<1>6. Incoming(r, r - 1, s, send_left) = FromLeft(r, s)
  <2>1. CASE ~(ToLeft(r, s) < 0)
    BY <1>3, <2>1 DEF Incoming, FromLeft
  <2>2. CASE ToLeft(r, s) < 0
    <3>1. ToLeft(r, s) # 0
      BY <2>2
    <3>2. PICK q \in Ranks : q = r - 1 /\ q \in Mates(r) /\ r = q + 1
      <4>1. r - 1 \in Ranks /\ r - 1 \in Mates(r) /\ r = (r - 1) + 1
        BY <1>2, <1>5, <3>1, LeftMember
      <4> QED
        BY <4>1
    <3>3. PICK f \in [1..m -> Seq(Elements)] :
             /\ f = [t \in 1..m |-> RightOf(q, t)]
             /\ \A t \in 1..m : Len(f[t]) = Positive(-ToLeft(r, t))
             /\ FromTask(r, Exchanges + 2, q) = FlattenSeq(f)
      BY <3>2, RightLines
    <3>4. PICK c : c = [t \in 1..m |-> Positive(-ToLeft(r, t))]
      OBVIOUS
    <3>5. PICK b : b = [t \in 1..(s - 1) |-> Positive(-ToLeft(r, t))]
      OBVIOUS
    <3>6. \A t \in 1..m : Positive(-ToLeft(r, t)) \in Int
      BY <1>3 DEF Positive
    <3>7. c \in Numbers(m) /\ b \in Numbers(s - 1) /\ LengthsOf(m, f, c) /\ SameTo(s - 1, c, b)
      BY <1>4, <3>3, <3>4, <3>5, <3>6 DEF Numbers, LengthsOf, SameTo
    <3>8. [t \in 1..(s - 1) |-> Positive(-send_left(r, t))] = b
      BY <1>3, <1>4, <3>5
    <3>9. PICK before : before = SumOf(b)
      OBVIOUS
    <3>10. before \in Int
      BY <3>7, <3>9, SumType
    <3>11. c[s] = -ToLeft(r, s) /\ before - send_left(r, s) = before + c[s]
      <4>1. c[s] = Positive(-ToLeft(r, s)) /\ ToLeft(r, s) \in Int
        BY <1>3, <3>4
      <4>2. PICK a \in Int : a = ToLeft(r, s)
        BY <4>1
      <4>3. Positive(-a) = -a /\ before - a = before + (-a)
        BY <2>2, <3>10, <4>2 DEF Positive
      <4> QED
        BY <1>3, <4>1, <4>2, <4>3
    <3>12. Read(FlattenSeq(f), before + 1, before - send_left(r, s)) = f[s]
      <4>1. PICK to, M : to = before - send_left(r, s) /\ M = m
        OBVIOUS
      <4>2. f \in [1..M -> Seq(Elements)] /\ c \in Numbers(M) /\ LengthsOf(M, f, c) /\ SameTo(s - 1, c, b) /\ s \in 1..M /\ M \in Nat
        BY <1>1, <3>3, <3>7, <4>1
      <4>3. to = before + c[s] /\ b \in Numbers(s - 1)
        BY <3>7, <3>11, <4>1
      <4>4. Read(FlattenSeq(f), before + 1, to) = f[s]
        BY <3>9, <4>2, <4>3, ReadSlice
      <4> QED
        BY <4>1, <4>4
    <3>13. Incoming(r, q, s, send_left) = Read(FromTask(r, Exchanges + 2, q), before + 1, before - send_left(r, s))
      BY <1>3, <2>2, <3>8, <3>9 DEF Incoming
    <3>14. FromLeft(r, s) = RightOf(q, s)
      BY <2>2, <3>2 DEF FromLeft
    <3> QED
      BY <3>2, <3>3, <3>12, <3>13, <3>14
  <2> QED
    BY <2>1, <2>2
<1>7. Incoming(r, r + 1, s, send_right) = FromRight(r, s)
  <2>1. CASE ~(ToRight(r, s) < 0)
    BY <1>3, <2>1 DEF Incoming, FromRight
  <2>2. CASE ToRight(r, s) < 0
    <3>1. ToRight(r, s) # 0
      BY <2>2
    <3>2. PICK q \in Ranks : q = r + 1 /\ q \in Mates(r)
      BY <1>2, <3>1, RightMember
    <3>3. PICK f \in [1..m -> Seq(Elements)] :
             /\ f = [t \in 1..m |-> LeftOf(q, t)]
             /\ \A t \in 1..m : Len(f[t]) = Positive(-ToRight(r, t))
             /\ FromTask(r, Exchanges + 2, q) = FlattenSeq(f)
      BY <3>2, LeftLines
    <3>4. PICK c : c = [t \in 1..m |-> Positive(-ToRight(r, t))]
      OBVIOUS
    <3>5. PICK b : b = [t \in 1..(s - 1) |-> Positive(-ToRight(r, t))]
      OBVIOUS
    <3>6. \A t \in 1..m : Positive(-ToRight(r, t)) \in Int
      BY <1>3 DEF Positive
    <3>7. c \in Numbers(m) /\ b \in Numbers(s - 1) /\ LengthsOf(m, f, c) /\ SameTo(s - 1, c, b)
      BY <1>4, <3>3, <3>4, <3>5, <3>6 DEF Numbers, LengthsOf, SameTo
    <3>8. [t \in 1..(s - 1) |-> Positive(-send_right(r, t))] = b
      BY <1>3, <1>4, <3>5
    <3>9. PICK before : before = SumOf(b)
      OBVIOUS
    <3>10. before \in Int
      BY <3>7, <3>9, SumType
    <3>11. c[s] = -ToRight(r, s) /\ before - send_right(r, s) = before + c[s]
      <4>1. c[s] = Positive(-ToRight(r, s)) /\ ToRight(r, s) \in Int
        BY <1>3, <3>4
      <4>2. PICK a \in Int : a = ToRight(r, s)
        BY <4>1
      <4>3. Positive(-a) = -a /\ before - a = before + (-a)
        BY <2>2, <3>10, <4>2 DEF Positive
      <4> QED
        BY <1>3, <4>1, <4>2, <4>3
    <3>12. Read(FlattenSeq(f), before + 1, before - send_right(r, s)) = f[s]
      <4>1. PICK to, M : to = before - send_right(r, s) /\ M = m
        OBVIOUS
      <4>2. f \in [1..M -> Seq(Elements)] /\ c \in Numbers(M) /\ LengthsOf(M, f, c) /\ SameTo(s - 1, c, b) /\ s \in 1..M /\ M \in Nat
        BY <1>1, <3>3, <3>7, <4>1
      <4>3. to = before + c[s] /\ b \in Numbers(s - 1)
        BY <3>7, <3>11, <4>1
      <4>4. Read(FlattenSeq(f), before + 1, to) = f[s]
        BY <3>9, <4>2, <4>3, ReadSlice
      <4> QED
        BY <4>1, <4>4
    <3>13. Incoming(r, q, s, send_right) = Read(FromTask(r, Exchanges + 2, q), before + 1, before - send_right(r, s))
      BY <1>3, <2>2, <3>8, <3>9 DEF Incoming
    <3>14. FromRight(r, s) = LeftOf(q, s)
      BY <2>2, <3>2 DEF FromRight
    <3> QED
      BY <3>2, <3>3, <3>12, <3>13, <3>14
  <2> QED
    BY <2>1, <2>2
<1> QED
  BY <1>6, <1>7

\* A bound result is the lines after the shift.
LEMMA FinishBalances ==
  ASSUME InLine, NEW r \in Ranks, Finish(r) PROVE Outcome(r)'
<1> DEFINE m == num_segments_l(r)
<1>1. Returned(r, Exchanges + 2) /\ input' = input /\ input.bound
  BY DEF Finish
<1>2. MergedAt(r) /\ num_sort_ranks[r] = Exchangers(r) /\ DOMAIN merged[r] = 1..m /\ DOMAIN out = Ranks
  BY <1>1, AtShiftKnown DEF InLine, InExchanges, InCounts, InStep
<1>3. \A s \in 1..m : Projected(Incoming(r, r - 1, s, send_left) \o Middle(r, s) \o Incoming(r, r + 1, s, send_right)) = Projected(Balanced(r, s))
  BY <1>1, <1>2, IncomingIs, EdgesAre DEF Balanced
<1>4. out'[r] = << [s \in 1..m |-> Projected(Balanced(r, s))] >>
  <2>1. out'[r] = << [s \in DOMAIN merged[r] |-> Projected(Incoming(r, r - 1, s, send_left) \o Middle(r, s) \o Incoming(r, r + 1, s, send_right))] >>
    BY <1>2 DEF Finish
  <2> QED
    BY <1>2, <1>3, <2>1
<1>5. \A s \in 1..m : Balanced(r, s)' = Balanced(r, s)
  <2>1. Grows
    <3>1. Step(r) /\ InExchanges
      BY DEF Step, InLine
    <3> QED
      BY <3>1, StepGrows
  <2>2. AtShift /\ ~Alone(r)
    BY <1>2 DEF AtShift, MergedAt
  <2> QED
    BY <2>1, <2>2, BalancedKept
<1>6. num_segments_l(r)' = m /\ ~Alone(r)' /\ \A t : Projected(t)' = Projected(t)
  <2>1. ~Alone(r)
    BY <1>2 DEF MergedAt
  <2> QED
    BY <1>1, <2>1, SameExchange, SameLines
<1>7. [s \in 1..num_segments_l(r) |-> Projected(Balanced(r, s))]' = [s \in 1..m |-> Projected(Balanced(r, s))]
  BY <1>1, <1>5, <1>6 DEF Projected
<1>8. out'[r] = << [s \in 1..num_segments_l(r) |-> Projected(Balanced(r, s))]' >>
  BY <1>4, <1>7
<1> QED
  BY <1>1, <1>6, <1>8 DEF Outcome

---------------------------------------------------------------------------
(* Elements are in line *)

\* A contribution that is posted brings what Order says of it.
LEMMA OrderNext ==
  ASSUME InLine, NEW r \in Ranks, Step(r), Len(posted'[r]) = Len(posted[r]) + 1, NEW n \in Nat, n = Len(posted[r]) + 1
  PROVE  Order(r, n)'
<1>0. InExchanges
  BY DEF InLine
<1>1. /\ input' = input /\ Exchanges' = Exchanges /\ Exchanges \in 4..5 /\ (input.argsort <=> Exchanges = 5) /\ Len(posted[r]) \in Nat
      /\ posted' # posted /\ (posted[r] = << >> <=> Len(posted[r]) = 0)
  <2>1. Len(posted[r]) \in Nat /\ (posted[r] = << >> <=> Len(posted[r]) = 0)
    BY <1>0, Behind
  <2>2. input' = input
    BY <1>0, PostedGrows
  <2> QED
    BY <2>1, <2>2, SameExchange DEF Exchanges
<1>2. CASE ReturnEarly(r) \/ SortAlone(r) \/ Finish(r)
  <2>1. posted' = posted
    BY <1>2 DEF ReturnEarly, SortAlone, Finish
  <2> QED
    BY <1>1, <2>1
<1>3. CASE LocalSort(r)
  <2>1. SortedLocally(r, piece[r])'
    BY <1>0, <1>3, LocalSortSorts
  <2>2. n = 1
    BY <1>1, <1>3 DEF LocalSort
  <2> QED
    BY <1>1, <2>1, <2>2 DEF Order
<1>4. CASE SelectSamples(r)
  <2>1. n = 2
    BY <1>1, <1>4 DEF SelectSamples, Returned
  <2> QED
    BY <1>1, <2>1 DEF Order
<1>5. CASE SelectSplitters(r)
  <2>1. Exchangers(r)' # 0 => Cutting(r)'
    BY <1>0, <1>5, SelectSplittersCuts
  <2>2. n = 3
    BY <1>1, <1>5 DEF SelectSplitters, Returned
  <2> QED
    BY <1>1, <2>1, <2>2 DEF Order
<1>6. CASE SendValues(r)
  <2>1. Sent(r, 4, ValuesOf)'
    BY <1>0, <1>6, SendValuesSends
  <2>2. n = 4
    BY <1>1, <1>6 DEF SendValues, Returned
  <2> QED
    BY <1>1, <2>1, <2>2 DEF Order
<1>7. CASE SendIndices(r)
  <2>1. Sent(r, 5, PlacesOf)'
    BY <1>0, <1>7, SendIndicesSends
  <2>2. n = 5 /\ Exchanges = 5
    BY <1>1, <1>7 DEF SendIndices, Returned
  <2> QED
    BY <1>1, <2>1, <2>2 DEF Order
<1>8. CASE Merge(r)
  <2>1. AllMerged(r)'
    BY <1>1, <1>8, MergeMerges
  <2>2. n = Exchanges + 1 /\ n \notin {1, 3, 4} /\ ~(n = 5 /\ input'.argsort) /\ n # Exchanges' + 2
    BY <1>1, <1>8 DEF Merge, Returned
  <2> QED
    BY <1>1, <2>1, <2>2 DEF Order
<1>9. CASE Balance(r)
  <2>1. Shifted(r)'
    BY <1>9, BalanceShifts
  <2>2. n = Exchanges + 2 /\ n \notin {1, 3, 4, 5} /\ n # Exchanges' + 1
    BY <1>1, <1>9 DEF Balance, Returned
  <2> QED
    BY <1>1, <2>1, <2>2 DEF Order
<1> QED
  BY <1>2, <1>3, <1>4, <1>5, <1>6, <1>7, <1>8, <1>9 DEF Step

\* A step gives no other results than those of Outcome.
LEMMA OutcomeNext ==
  ASSUME InLine, NEW r \in Ranks, Step(r), Grows, NEW q \in Ranks PROVE Outcome(q)'
<1>0. InExchanges /\ DOMAIN out = Ranks /\ Outcome(q)
  BY DEF InLine, InExchanges, InCounts, InStep
<1>1. CASE out'[q] = out[q]
  BY <1>0, <1>1, OutcomeKept
<1>2. CASE out'[q] # out[q]
  <2>1. CASE ReturnEarly(r)
    <3>1. q = r
      BY <1>0, <1>2, <2>1 DEF ReturnEarly
    <3> QED
      BY <2>1, <3>1, ReturnEarlyReturned
  <2>2. CASE SortAlone(r)
    <3>1. \E x : out' = [out EXCEPT ![r] = x]
      BY <2>2 DEF SortAlone
    <3>2. q = r
      BY <1>0, <1>2, <3>1
    <3> QED
      BY <2>2, <3>2, SortAloneSorts
  <2>3. CASE Merge(r)
    <3>1. out' = out \/ \E x : out' = [out EXCEPT ![r] = x]
      BY <2>3 DEF Merge
    <3>2. q = r
      BY <1>0, <1>2, <3>1
    <3> QED
      BY <1>2, <2>3, <3>2, MergeMerges
  <2>4. CASE Finish(r)
    <3>1. \E x : out' = [out EXCEPT ![r] = x]
      BY <2>4 DEF Finish
    <3>2. q = r
      BY <1>0, <1>2, <3>1
    <3> QED
      BY <2>4, <3>2, FinishBalances
  <2>5. CASE LocalSort(r) \/ SelectSamples(r) \/ SelectSplitters(r) \/ SendValues(r) \/ SendIndices(r) \/ Balance(r)
    <3>1. out' = out
      BY <2>5 DEF LocalSort, SelectSamples, SelectSplitters, SendValues, SendIndices, Balance
    <3> QED
      BY <1>2, <3>1
  <2> QED
    BY <2>1, <2>2, <2>3, <2>4, <2>5 DEF Step
<1> QED
  BY <1>1, <1>2

\* At the beginning nothing is posted.
LEMMA InLineInit ==
  Init => InLine
<1> SUFFICES ASSUME Init PROVE InLine
  OBVIOUS
<1>1. InExchanges
  BY InExchangesInit
<1>2. Len(<< >>) = 0 /\ \A r \in Ranks : posted[r] = << >> /\ out[r] = << >>
  BY EmptySeq DEF Init
<1>3. \A r \in Ranks : 1..Len(posted[r]) = {}
  BY <1>2
<1> QED
  BY <1>1, <1>2, <1>3 DEF InLine, Outcome

\* Each step keeps elements in line.
LEMMA InLineKept ==
  InLine /\ [Next]_vars => InLine'
<1> SUFFICES ASSUME InLine, [Next]_vars PROVE InLine'
  OBVIOUS
<1>0. InExchanges /\ \A q \in Ranks : (\A n \in 1..Len(posted[q]) : Order(q, n)) /\ Outcome(q)
  BY DEF InLine
<1>1. InExchanges'
  BY <1>0, InExchangesKept
<1>2. CASE UNCHANGED vars
  <2>1. UNCHANGED << input, posted, piece, cut, merged, out >>
    BY <1>2 DEF vars
  <2>2. Ranks' = Ranks
    BY <2>1, SameExchange
  <2>3. \A q \in Ranks : Len(posted[q]) \in Nat
    BY <1>0, Behind
  <2>4. Grows
    BY <2>1, <2>3 DEF Grows, Grown
  <2>5. \A q \in Ranks : \A n \in 1..Len(posted[q]) : Order(q, n)'
    BY <1>0, <2>4, OrderKept
  <2>6. \A q \in Ranks : Outcome(q)'
    BY <1>0, <2>1, <2>4, OutcomeKept
  <2> QED
    BY <1>1, <2>1, <2>2, <2>5, <2>6 DEF InLine
<1>3. ASSUME NEW r \in Ranks, Step(r) PROVE InLine'
  <2>1. /\ Grows /\ \A q \in Ranks : q # r => Len(posted'[q]) = Len(posted[q])
        /\ Len(posted'[r]) = Len(posted[r]) \/ Len(posted'[r]) = Len(posted[r]) + 1
    BY <1>0, <1>3, StepGrows
  <2>2. Ranks' = Ranks
    BY <2>1, SameExchange DEF Grows
  <2>3. \A q \in Ranks : \A n \in 1..Len(posted[q]) : Order(q, n)'
    BY <1>0, <2>1, OrderKept
  <2>4. Len(posted[r]) \in Nat
    BY <1>0, Behind
  <2>5. \A n \in Nat : Len(posted'[r]) = Len(posted[r]) + 1 /\ n = Len(posted[r]) + 1 => Order(r, n)'
    BY <1>3, OrderNext
  <2>6. ASSUME NEW q \in Ranks, NEW n \in 1..Len(posted'[q]) PROVE Order(q, n)'
    <3>1. CASE n \in 1..Len(posted[q])
      BY <2>3, <3>1
    <3>2. CASE n \notin 1..Len(posted[q])
      <4>1. q = r /\ n = Len(posted[r]) + 1 /\ Len(posted'[r]) = Len(posted[r]) + 1
        BY <2>1, <2>4, <3>2
      <4> QED
        BY <2>5, <4>1, <2>4
    <3> QED
      BY <3>1, <3>2
  <2>7. \A q \in Ranks : Outcome(q)'
    BY <1>3, <2>1, OutcomeNext
  <2> QED
    BY <1>1, <2>2, <2>6, <2>7 DEF InLine
<1> QED
  BY <1>2, <1>3 DEF Next

\* The inductive invariant holds.
LEMMA AlwaysInLine ==
  Spec => []InLine
BY InLineInit, InLineKept, PTL DEF Spec

---------------------------------------------------------------------------
(* What is found when all are done *)

\* The lines that a task has; with elements, all of its group.
LEMMA LinesAt ==
  ASSUME input \in Problems, NEW g \in 1..Len(input.lines), NEW k \in 1..SortRanks, NEW r, r = RankAt(g, k)
  PROVE  /\ r \in Ranks /\ sort_rank(r) = k - 1 /\ group(r) = g - 1 /\ segment_size_l(r) \in Nat /\ segment_size_l(r) = input.sizes[k]
         /\ num_segments_l(r) = IF segment_size_l(r) > 0 THEN Len(input.lines[g]) ELSE 0
         /\ Len(input.lines[g]) \in Nat /\ num_segments_l(r) \in Nat
         /\ \A j : Mate(r, j) = RankAt(g, j)
<1>1. r \in Ranks /\ sort_rank(r) = k - 1 /\ group(r) = g - 1
  BY RankAtIs
<1>2. segment_size_l(r) \in Nat /\ num_segments_l(r) \in Nat
  BY <1>1, RankFacts, RankParts
<1>3. group(r) + 1 = g /\ sort_rank(r) + 1 = k
  BY <1>1
<1>4. Len(input.lines[g]) \in Nat
  BY <1>1, <1>3, RankParts
<1>5. \A j : Mate(r, j) = RankAt(g, j)
  BY <1>1 DEF Mate, RankAt
<1> QED
  BY <1>1, <1>2, <1>3, <1>4, <1>5 DEF segment_size_l, num_segments_l

\* x is a result that has the lines of task r.
HasLines(r, x) == DOMAIN x = 1..num_segments_l(r) /\ Len(x) = num_segments_l(r)

\* A result has the lines of its task.
LEMMA ResultLines ==
  ASSUME InLine, NEW r \in Ranks, out[r] # << >>
  PROVE  HasLines(r, out[r][1]) /\ num_segments_l(r) \in Nat
<1>1. input \in Problems /\ Outcome(r)
  BY Behind DEF InLine
<1>2. num_segments_l(r) \in Nat /\ segment_size_l(r) \in Nat
  BY <1>1, RankParts, RankFacts
<1>3. CASE volume(r) = 0 /\ out[r] = << << >> >>
  <2>1. num_segments_l(r) = 0
    <3>1. PICK a \in Nat, b \in Nat : a = segment_size_l(r) /\ b = num_segments_l(r) /\ a * b = 0 /\ (a > 0 \/ b = 0)
      BY <1>2, <1>3 DEF volume, num_segments_l
    <3> QED
      BY <3>1
  <2>2. out[r][1] = << >>
    BY <1>3
  <2>3. DOMAIN << >> = {} /\ Len(<< >>) = 0 /\ 1..0 = {}
    OBVIOUS
  <2> QED
    BY <2>1, <2>2, <2>3 DEF HasLines
<1>4. CASE ~(volume(r) = 0 /\ out[r] = << << >> >>)
  <2>1. ASSUME NEW x, out[r] = << x >>, DOMAIN x = 1..num_segments_l(r) PROVE HasLines(r, out[r][1])
    <3>1. out[r][1] = x /\ DOMAIN x = 1..num_segments_l(r)
      BY <2>1
    <3>2. Len(x) = num_segments_l(r)
      BY <1>2, <3>1
    <3> QED
      BY <3>1, <3>2 DEF HasLines
  <2>2. CASE Alone(r)
    <3>1. PICK t : out[r] = << [s \in 1..num_segments_l(r) |-> Projected(t[s])] >>
      BY <1>1, <1>4, <2>2 DEF Outcome, SortedAlone
    <3>2. PICK x : x = [s \in 1..num_segments_l(r) |-> Projected(t[s])]
      OBVIOUS
    <3>3. DOMAIN x = 1..num_segments_l(r)
      BY <3>2
    <3> QED
      BY <1>2, <2>1, <3>1, <3>2, <3>3
  <2>3. CASE ~Alone(r) /\ input.bound
    <3>1. PICK x : x = [s \in 1..num_segments_l(r) |-> Projected(Balanced(r, s))]
      OBVIOUS
    <3>2. DOMAIN x = 1..num_segments_l(r)
      BY <3>1
    <3>3. out[r] = << x >>
      BY <1>1, <2>3, <3>1 DEF Outcome
    <3> QED
      BY <1>2, <2>1, <3>2, <3>3
  <2>4. CASE ~Alone(r) /\ ~input.bound
    <3>1. PICK x : x = [s \in 1..num_segments_l(r) |-> Projected(MergeOf(r, s))]
      OBVIOUS
    <3>2. DOMAIN x = 1..num_segments_l(r)
      BY <3>1
    <3>3. out[r] = << x >>
      BY <1>1, <2>4, <3>1 DEF Outcome
    <3> QED
      BY <1>2, <2>1, <3>2, <3>3
  <2> QED
    BY <2>2, <2>3, <2>4
<1> QED
  BY <1>2, <1>3, <1>4

\* S: what the tasks of a group have of line s, as elements; all of it together is c.
FoundAs(g, s, S) ==
  \A k \in 1..SortRanks :
    IF s \in 1..num_segments_l(RankAt(g, k)) THEN out[RankAt(g, k)][1][s] = Projected(S[k]) ELSE S[k] = << >>
Together(g, s, S, c) ==
  /\ S \in [1..SortRanks -> Seq(Elements)] /\ c \in Seq(Elements) /\ IsJoined(SortRanks, S, c) /\ FoundAs(g, s, S)
  /\ Tidy(Steady, c) /\ SameCounts(Whole(g, s), c)

\* The result of nothing.
LEMMA ProjectedNothing ==
  Projected(<< >>) = << >>
<1>1. << >> \in Seq(Elements) /\ Len(<< >>) = 0
  OBVIOUS
<1>2. Projected(<< >>) \in Seq(Int) /\ Len(Projected(<< >>)) = 0
  BY <1>1, ProjectedIs
<1> QED
  BY <1>2

\* A line that the tasks have together is found in order.
LEMMA FoundTogether ==
  ASSUME InLine, Done, NEW g \in 1..Len(input.lines), NEW s \in 1..Len(input.lines[g]), NEW S, NEW c, Together(g, s, S, c)
  PROVE  LineInOrder(g, s, InOrder(g, s), Concatenated(g, s))
<1> DEFINE o == [k \in 1..SortRanks |-> IF s \in DOMAIN out[(g - 1) * SortRanks + k - 1][1] THEN out[(g - 1) * SortRanks + k - 1][1][s] ELSE << >>]
<1>1. input \in Problems /\ SortRanks \in Nat
  <2>1. InStep
    BY DEF InLine, InExchanges, InCounts
  <2> QED
    BY <2>1, BordersExist DEF InStep
<1>2. ASSUME NEW k \in 1..SortRanks PROVE o[k] = Projected(S[k])
  <2>1. PICK r \in Ranks : r = RankAt(g, k)
    BY <1>1, RankAtIs
  <2>2. DOMAIN out[r][1] = 1..num_segments_l(r)
    BY <2>1, ResultLines DEF Done, HasLines
  <2>3. o[k] = IF s \in DOMAIN out[r][1] THEN out[r][1][s] ELSE << >>
    BY <2>1 DEF RankAt
  <2>4. IF s \in 1..num_segments_l(r) THEN out[r][1][s] = Projected(S[k]) ELSE S[k] = << >>
    BY <2>1 DEF Together, FoundAs
  <2> HIDE DEF o
  <2> QED
    BY <2>2, <2>3, <2>4, ProjectedNothing
<1>3. o = [k \in 1..SortRanks |-> o[k]] /\ Concatenated(g, s) = FlattenSeq(o)
  BY DEF Concatenated
<1> HIDE DEF o
<1>4. ProjectedAll(SortRanks, S, o)
  BY <1>2, <1>3 DEF ProjectedAll
<1>5. PICK P : Joined(SortRanks, S, P, c)
  BY DEF Together, IsJoined
<1>6. FlattenSeq(o) = Projected(c)
  BY <1>1, <1>4, <1>5, ProjectedTogether DEF Together
<1> QED
  BY <1>1, <1>3, <1>6, FoundInOrder DEF Together

\* Nothing to sort.
LEMMA EmptyLine ==
  ASSUME InLine, Done, NEW g \in 1..Len(input.lines), NEW s \in 1..Len(input.lines[g]), segment_size_g = 0
  PROVE  \E S, c : Together(g, s, S, c)
<1> DEFINE S == [k \in 1..SortRanks |-> << >>]
<1>1. input \in Problems /\ SortRanks \in Nat
  <2>1. InStep
    BY DEF InLine, InExchanges, InCounts
  <2> QED
    BY <2>1, BordersExist DEF InStep
<1>2. \A k \in 1..SortRanks : num_segments_l(RankAt(g, k)) = 0
  <2>1. ASSUME NEW k \in 1..SortRanks PROVE num_segments_l(RankAt(g, k)) = 0
    <3>1. PICK r \in Ranks : r = RankAt(g, k)
      BY <1>1, RankAtIs
    <3>2. Offset(r) \in Nat /\ segment_size_l(r) \in Nat /\ Offset(r) + segment_size_l(r) <= segment_size_g
      BY <1>1, OffsetFits
    <3>3. segment_size_l(r) = 0
      BY <3>2
    <3> QED
      BY <3>1, <3>3 DEF num_segments_l
  <2> QED
    BY <2>1
<1>3. FoundAs(g, s, S)
  BY <1>2 DEF FoundAs
<1>4. << >> \in Seq(Elements) /\ Len(<< >>) = 0 /\ S \in [1..SortRanks -> Seq(Elements)]
  OBVIOUS
<1>5. IsJoined(SortRanks, S, << >>)
  <2>1. PICK P : P = [k \in {0} |-> 0]
    OBVIOUS
  <2>2. Heights(0, << >>, P)
    <3>1. 0..0 = {0} /\ 1..0 = {}
      OBVIOUS
    <3> QED
      BY <2>1, <3>1 DEF Heights
  <2>3. IsSequence(<< >>) /\ 1..0 = {} /\ P[0] = 0
    BY <1>4, <2>1 DEF IsSequence
  <2>4. Joined(0, << >>, P, << >>)
    BY <1>4, <2>2, <2>3 DEF Joined
  <2>5. 0 \in Nat /\ 0 <= SortRanks /\ (\A k \in 1..0 : S[k] = << >>[k]) /\ \A k \in 1..SortRanks : k > 0 => S[k] = << >>
    BY <1>1
  <2> HIDE DEF S
  <2>6. \E h : Joined(SortRanks, S, h, << >>)
    BY <1>1, <2>4, <2>5, NothingBehind
  <2> QED
    BY <2>6 DEF IsJoined
<1>6. Tidy(Steady, << >>)
  BY <1>4 DEF Tidy
<1>7. Whole(g, s) = << >>
  <2>1. Whole(g, s) \in Seq(Elements) /\ Len(Whole(g, s)) = 0
    BY <1>1, WholeIs
  <2> QED
    BY <2>1, EmptySeq
<1>8. SameCounts(Whole(g, s), << >>)
  BY <1>7 DEF SameCounts
<1> HIDE DEF S
<1> QED
  BY <1>3, <1>4, <1>5, <1>6, <1>8 DEF Together

\* The whole line is with one task.
LEMMA AloneLine ==
  ASSUME InLine, Done, NEW g \in 1..Len(input.lines), NEW s \in 1..Len(input.lines[g]), segment_size_g # 0, SortRanks = 1
  PROVE  \E S, c : Together(g, s, S, c)
<1>1. input \in Problems
  BY DEF InLine, InExchanges, InCounts, InStep
<1>2. 1 \in 1..SortRanks /\ SortRanks \in 0..SortRanks /\ SortRanks \in Nat
  BY SortRanks = 1
<1>3. PICK h : Borders(h)
  BY <1>1, BordersExist
<1>4. PICK r : r = RankAt(g, 1)
  OBVIOUS
<1>5. /\ r \in Ranks /\ group(r) = g - 1 /\ segment_size_l(r) \in Nat /\ segment_size_l(r) = input.sizes[1]
      /\ num_segments_l(r) = IF segment_size_l(r) > 0 THEN Len(input.lines[g]) ELSE 0
      /\ Len(input.lines[g]) \in Nat
  BY <1>1, <1>2, <1>4, LinesAt
<1>6. segment_size_l(r) > 0 /\ s \in 1..num_segments_l(r) /\ num_segments_l(r) \in Nat
  <2>1. h[0] = 0 /\ h[1] = segment_size_g /\ h[1] = h[0] + input.sizes[1]
    BY <1>2, <1>3 DEF Borders
  <2>2. segment_size_l(r) > 0
    BY <1>5, <2>1
  <2> QED
    BY <1>5, <2>2
<1>7. volume(r) # 0
  BY <1>5, <1>6 DEF volume
<1>8. Alone(r)
  BY DEF Alone, need_distributed_sort
<1>9. PICK t : SortedLocally(r, t) /\ out[r] = << [z \in 1..num_segments_l(r) |-> Projected(t[z])] >>
  BY <1>5, <1>7, <1>8 DEF InLine, Outcome, Done, SortedAlone
<1>10. PICK c : c = t[s]
  OBVIOUS
<1>11. out[r][1][s] = Projected(c) /\ c \in LocalSorts(Part(r, s))
  BY <1>6, <1>9, <1>10 DEF SortedLocally
<1>12. SortedFrom(Part(r, s), c)
  BY <1>1, <1>2, <1>3, <1>4, <1>11, LocalPieceIs
<1>13. c \in Seq(Elements) /\ Tidy(Steady, c) /\ Len(c) \in Nat /\ IsSequence(c)
  BY <1>12 DEF SortedFrom, IsSequence
<1>14. PICK S : S = [k \in 1..1 |-> c]
  OBVIOUS
<1>15. S \in [1..SortRanks -> Seq(Elements)] /\ S[1] = c /\ S = [k \in 1..1 |-> S[k]]
  BY <1>13, <1>14
<1>16. IsJoined(1, S, c)
  <2>1. PICK f : f = [k \in 0..1 |-> IF k = 0 THEN 0 ELSE Len(c)]
    OBVIOUS
  <2>2. f \in [0..1 -> Nat] /\ f[0] = 0 /\ f[1] = Len(c)
    BY <1>13, <2>1
  <2>3. \A k \in 1..1 : k = 1 /\ k - 1 = 0
    OBVIOUS
  <2>4. \A k \in 1..1 : Len(S[k]) \in Nat /\ f[k] = f[k - 1] + Len(S[k])
    <3>1. Len(S[1]) \in Nat /\ f[1] = f[0] + Len(S[1])
      BY <1>13, <1>15, <2>2
    <3> QED
      BY <2>3, <3>1
  <2>5. Heights(1, S, f)
    BY <2>2, <2>4 DEF Heights
  <2>6. \A k \in 1..1 : \A x \in 1..Len(S[k]) : c[f[k - 1] + x] = S[k][x]
    <3>1. \A x \in 1..Len(c) : f[0] + x = x
      BY <2>2
    <3>2. \A x \in 1..Len(S[1]) : c[f[0] + x] = S[1][x]
      BY <1>15, <3>1
    <3> QED
      BY <2>3, <3>2
  <2>7. Joined(1, S, f, c)
    BY <1>13, <2>2, <2>5, <2>6 DEF Joined
  <2> QED
    BY <2>7 DEF IsJoined
<1>17. SameCounts(Whole(g, s), c)
  <2>1. LocalPieces(g, s, 1, S)
    <3>1. \A k \in 1..1 : k = 1
      OBVIOUS
    <3> QED
      BY <1>4, <1>11, <1>15, <3>1 DEF LocalPieces
  <2>2. h[1] = segment_size_g /\ 1 \in 0..SortRanks
    BY <1>3 DEF Borders
  <2>3. SameCounts(Whole(g, s), FlattenSeq(S))
    BY <1>1, <1>3, <1>15, <2>1, <2>2, PiecesAscend
  <2>4. IsJoined(1, S, FlattenSeq(S))
    <3>1. S \in [1..1 -> Seq(Elements)] /\ 1 \in Nat
      BY <1>15
    <3> QED
      BY <3>1, LinesJoined
  <2>5. FlattenSeq(S) = c
    <3>1. PICK f1 : Joined(1, S, f1, c)
      BY <1>16 DEF IsJoined
    <3>2. PICK f2 : Joined(1, S, f2, FlattenSeq(S))
      BY <2>4 DEF IsJoined
    <3>3. PICK u : u = FlattenSeq(S)
      OBVIOUS
    <3> QED
      BY <3>1, <3>2, <3>3, JoinedSame
  <2> QED
    BY <2>3, <2>5
<1>18. FoundAs(g, s, S)
  <2>1. \A k \in 1..SortRanks : k = 1
    OBVIOUS
  <2> QED
    BY <1>4, <1>6, <1>11, <1>15, <2>1 DEF FoundAs
<1>19. IsJoined(SortRanks, S, c)
  BY <1>16
<1> QED
  BY <1>13, <1>15, <1>17, <1>18, <1>19 DEF Together

\* The members of a group that exchange elements of a line, and the others.
LineMember(g, s, n, k) ==
  /\ RankAt(g, k) \in Ranks /\ ~Alone(RankAt(g, k)) /\ Exchangers(RankAt(g, k)) = n /\ sort_rank(RankAt(g, k)) = k - 1
  /\ s \in 1..num_segments_l(RankAt(g, k)) /\ num_segments_l(RankAt(g, k)) \in Nat
  /\ \A j : Mate(RankAt(g, k), j) = RankAt(g, j)
LineMembers(g, s, n) ==
  /\ n \in 1..SortRanks /\ SortRanks \in Nat /\ n \in Nat /\ n # 0
  /\ \A k \in 1..n : LineMember(g, s, n, k)
  /\ \A k \in 1..SortRanks : k > n => num_segments_l(RankAt(g, k)) = 0 /\ input.sizes[k] = 0

\* Those who exchange elements are the first tasks of the group, those with elements.
LEMMA LineMembersAre ==
  ASSUME input \in Problems, NEW g \in 1..Len(input.lines), NEW s \in 1..Len(input.lines[g]), segment_size_g # 0, SortRanks # 1
  PROVE  LineMembers(g, s, Populated)
<1>1. SortRanks \in Nat /\ SortRanks > 1 /\ 1 \in 1..SortRanks
  <2>1. PICK h : Borders(h)
    BY BordersExist
  <2>2. SortRanks # 0
    BY <2>1 DEF Borders
  <2>3. SortRanks \in Nat
    BY BordersExist
  <2> QED
    BY <2>2, <2>3
<1>2. ASSUME NEW r \in Ranks PROVE ~Alone(r)
  BY <1>1, AloneUnbound, AloneBound
<1>3. RankAt(g, 1) \in Ranks
  BY <1>1, RankAtIs
<1>4. Populated \in 1..SortRanks /\ \A q \in Ranks : segment_size_l(q) > 0 <=> sort_rank(q) < Populated
  BY <1>2, <1>3, PopulatedFirst
<1>5. ASSUME NEW k \in 1..SortRanks
      PROVE  /\ k <= Populated => LineMember(g, s, Populated, k)
             /\ k > Populated => num_segments_l(RankAt(g, k)) = 0 /\ input.sizes[k] = 0
  <2>1. PICK r : r = RankAt(g, k)
    OBVIOUS
  <2>2. /\ r \in Ranks /\ sort_rank(r) = k - 1 /\ segment_size_l(r) \in Nat /\ segment_size_l(r) = input.sizes[k]
        /\ num_segments_l(r) = IF segment_size_l(r) > 0 THEN Len(input.lines[g]) ELSE 0
        /\ Len(input.lines[g]) \in Nat /\ num_segments_l(r) \in Nat
        /\ \A j : Mate(r, j) = RankAt(g, j)
    BY <2>1, LinesAt
  <2>3. segment_size_l(r) > 0 <=> k - 1 < Populated
    BY <1>4, <2>2
  <2>4. CASE k <= Populated
    <3>1. segment_size_l(r) > 0
      BY <1>1, <1>4, <2>3, <2>4
    <3>2. s \in 1..num_segments_l(r)
      BY <2>2, <3>1
    <3>3. volume(r) # 0
      BY <2>2, <3>1, <3>2 DEF volume
    <3>4. Exchangers(r) = Populated
      BY <3>3 DEF Exchangers
    <3> QED
      BY <1>2, <1>4, <2>1, <2>2, <2>4, <3>2, <3>4 DEF LineMember
  <2>5. CASE k > Populated
    <3>1. segment_size_l(r) = 0
      BY <1>1, <1>4, <2>2, <2>3, <2>5
    <3> QED
      BY <1>4, <2>1, <2>2, <2>5, <3>1
  <2> QED
    BY <1>4, <2>4, <2>5
<1>6. \A k \in 1..Populated : k \in 1..SortRanks /\ k <= Populated
  BY <1>1, <1>4
<1> QED
  BY <1>1, <1>4, <1>5, <1>6 DEF LineMembers

\* Behind the last part with elements, the line has ended.
LEMMA BordersEnd ==
  ASSUME NEW h, Borders(h), SortRanks \in Nat, NEW n \in 0..SortRanks, \A k \in 1..SortRanks : k > n => input.sizes[k] = 0
  PROVE  h[n] = segment_size_g
<1> DEFINE G == { k \in 0..SortRanks : k >= n => h[k] = h[n] }
<1>1. 0 \in G
  OBVIOUS
<1>2. \A k \in 1..SortRanks : k - 1 \in G => k \in G
  <2> SUFFICES ASSUME NEW k \in 1..SortRanks, k - 1 \in G, k >= n PROVE h[k] = h[n]
    OBVIOUS
  <2>1. CASE k = n
    BY <2>1
  <2>2. CASE k # n
    <3>1. k > n /\ k - 1 >= n
      BY <2>2
    <3>2. h[k] = h[k - 1] + input.sizes[k] /\ input.sizes[k] = 0 /\ h[k - 1] = h[n] /\ k - 1 \in 0..SortRanks
      BY <3>1 DEF Borders
    <3>3. h[k - 1] \in Nat
      BY <3>2 DEF Borders
    <3> QED
      BY <3>2, <3>3
  <2> QED
    BY <2>1, <2>2
<1> HIDE DEF G
<1>3. \A k \in 0..SortRanks : k \in G
  BY <1>1, <1>2, Induction
<1>4. SortRanks \in G
  BY <1>3
<1>5. h[SortRanks] = h[n]
  BY <1>4 DEF G
<1> QED
  BY <1>5 DEF Borders

\* F cuts the piece of the k-th member at the splitters of the group.
MemberCut(g, s, n, k, F) ==
  /\ piece[RankAt(g, k)][s] \in LocalSorts(Part(RankAt(g, k), s))
  /\ CutAt(n, SamplesGot(RankAt(g, 1)), s, k - 1, piece[RankAt(g, k)][s], F)
  /\ \A d \in 1..n : cut[RankAt(g, k)][d][s] = PartOf(piece[RankAt(g, k)][s], F, d)

\* There is one cut for each line of a member, at the same splitters in all of them.
LEMMA MemberCuts ==
  ASSUME InLine, Done, NEW g, NEW s, NEW n, LineMembers(g, s, n), NEW k \in 1..n
  PROVE  \E F : MemberCut(g, s, n, k, F)
<1>1. PICK r : r = RankAt(g, k)
  OBVIOUS
<1>2. /\ r \in Ranks /\ ~Alone(r) /\ Exchangers(r) = n /\ sort_rank(r) = k - 1 /\ s \in 1..num_segments_l(r)
      /\ \A j : Mate(r, j) = RankAt(g, j)
  BY <1>1 DEF LineMembers, LineMember
<1>3. Exchangers(RankAt(g, 1)) = n /\ \A j : Mate(RankAt(g, 1), j) = RankAt(g, j)
  <2>1. 1 \in 1..n
    BY DEF LineMembers
  <2> QED
    BY <2>1 DEF LineMembers, LineMember
<1>4. SamplesGot(r) = SamplesGot(RankAt(g, 1))
  BY <1>2, <1>3 DEF SamplesGot
<1>5. InExchanges /\ 1 \in 1..Len(posted[r]) /\ 3 \in 1..Len(posted[r])
  <2>1. InExchanges /\ out[r] # << >>
    BY <1>2 DEF InLine, Done
  <2>2. Len(posted[r]) >= 3 /\ Len(posted[r]) \in Nat
    BY <1>2, <2>1, AtEnd, Behind
  <2> QED
    BY <2>1, <2>2
<1>6. SortedLocally(r, piece[r]) /\ Cutting(r)
  <2>1. Order(r, 1) /\ Order(r, 3)
    BY <1>2, <1>5 DEF InLine
  <2>2. n # 0
    BY DEF LineMembers
  <2> QED
    BY <1>2, <2>1, <2>2 DEF Order
<1>7. PICK F : /\ cut[r] = PartsOfLines(n, num_segments_l(r), piece[r], F)
               /\ \A z \in 1..num_segments_l(r) : CutAt(n, SamplesGot(r), z, sort_rank(r), piece[r][z], F[z])
  BY <1>2, <1>6 DEF Cutting, CutRight
<1>8. piece[r][s] \in LocalSorts(Part(r, s))
  BY <1>2, <1>6 DEF SortedLocally
<1>9. CutAt(n, SamplesGot(r), s, k - 1, piece[r][s], F[s])
  BY <1>2, <1>7
<1>10. \A d \in 1..n : cut[r][d][s] = PartOf(piece[r][s], F[s], d)
  BY <1>2, <1>7 DEF PartsOfLines
<1>11. MemberCut(g, s, n, k, F[s])
  BY <1>1, <1>4, <1>8, <1>9, <1>10 DEF MemberCut
<1> QED
  BY <1>11

\* What the members of a group merged of a line.
Merges(g, s, n, M) ==
  /\ M \in [1..n -> Seq(Elements)] /\ \A k \in 1..n : M[k] = MergeOf(RankAt(g, k), s)
  /\ Tidy(Steady, FlattenSeq(M)) /\ SameCounts(Whole(g, s), FlattenSeq(M))

\* What the members merged, one after the other, is the line in order.
LEMMA MergedTogether ==
  ASSUME InLine, Done, NEW g \in 1..Len(input.lines), NEW s \in 1..Len(input.lines[g]), NEW n, LineMembers(g, s, n)
  PROVE  \E M : Merges(g, s, n, M)
<1>1. input \in Problems
  BY DEF InLine, InExchanges, InCounts, InStep
<1>2. n \in Nat \ {0} /\ n \in 0..SortRanks /\ n \in Nat /\ SortRanks \in Nat
  <2>1. n \in 1..SortRanks /\ SortRanks \in Nat
    BY DEF LineMembers
  <2> QED
    BY <2>1
<1>3. PICK h : Borders(h)
  BY <1>1, BordersExist
<1>4. h[n] = segment_size_g
  <2>1. \A k \in 1..SortRanks : k > n => input.sizes[k] = 0
    BY DEF LineMembers
  <2> QED
    BY <1>2, <1>3, <2>1, BordersEnd
<1>5. PICK p : p = [k \in 1..n |-> piece[RankAt(g, k)][s]]
  OBVIOUS
<1>6. PICK f : f = [k \in 1..n |-> CHOOSE F : MemberCut(g, s, n, k, F)]
  OBVIOUS
<1>7. ASSUME NEW k \in 1..n PROVE MemberCut(g, s, n, k, f[k])
  <2>1. \E F : MemberCut(g, s, n, k, F)
    BY MemberCuts
  <2>2. f[k] = CHOOSE F : MemberCut(g, s, n, k, F)
    BY <1>6
  <2> QED
    BY <2>1, <2>2
<1>8. p = [k \in 1..n |-> p[k]] /\ \A k \in 1..n : p[k] = piece[RankAt(g, k)][s]
  BY <1>5
<1>9. LocalPieces(g, s, n, p)
  BY <1>7, <1>8 DEF LocalPieces, MemberCut
<1>10. p \in [1..n -> Seq(Elements)] /\ Ascending(Steady, n, p) /\ SameCounts(Whole(g, s), FlattenSeq(p))
  BY <1>1, <1>2, <1>3, <1>4, <1>8, <1>9, PiecesAscend
<1>11. PICK sp : sp = Cutters(n, SamplesGot(RankAt(g, 1)), s)
  OBVIOUS
<1>12. ASSUME NEW k \in 1..n
       PROVE  CutsAre(n, p[k], f[k]) /\ CutBelow(n, k - 1, p[k], sp, f[k]) /\ sp \in [1..(n - 1) -> Samples]
  BY <1>7, <1>8, <1>11 DEF MemberCut, CutAt
<1>13. Cut(n, p, f)
  BY <1>10, <1>12 DEF Cut
<1>14. Divided(n, p, f)
  <2>1. 1 \in 1..n
    BY <1>2
  <2>2. sp \in [1..(n - 1) -> Samples]
    BY <1>12, <2>1
  <2> QED
    BY <1>2, <1>12, <1>13, <2>2, CutsDivide
<1>15. ASSUME NEW d \in 1..n PROVE MergeOf(RankAt(g, d), s) = MergedOf(n, p, f, d)
  <2>1. PICK r : r = RankAt(g, d)
    OBVIOUS
  <2>2. Exchangers(r) = n /\ sort_rank(r) + 1 = d /\ \A j : Mate(r, j) = RankAt(g, j)
    <3>1. Exchangers(r) = n /\ sort_rank(r) = d - 1 /\ \A j : Mate(r, j) = RankAt(g, j)
      BY <2>1 DEF LineMembers, LineMember
    <3> QED
      BY <1>2, <3>1
  <2>3. Delivered(r, s) = FlattenSeq([k \in 1..n |-> cut[RankAt(g, k)][d][s]])
    BY <2>2 DEF Delivered
  <2>4. \A k \in 1..n : cut[RankAt(g, k)][d][s] = PartOf(p[k], f[k], d)
    BY <1>7, <1>8 DEF MemberCut
  <2>5. [k \in 1..n |-> cut[RankAt(g, k)][d][s]] = [k \in 1..n |-> PartOf(p[k], f[k], d)]
    BY <2>4
  <2>6. Delivered(r, s) = Parcel(n, p, f, d)
    BY <2>3, <2>5 DEF Parcel
  <2> QED
    BY <2>1, <2>6 DEF MergeOf, MergedOf
<1>16. PICK M : M = [d \in 1..n |-> MergedOf(n, p, f, d)]
  OBVIOUS
<1>17. Steady \in BOOLEAN
  BY DEF Steady
<1>18. M \in [1..n -> Seq(Elements)] /\ Tidy(Steady, FlattenSeq(M))
  <2>1. PICK c : c = FlattenSeq(M)
    OBVIOUS
  <2> QED
    BY <1>2, <1>10, <1>13, <1>14, <1>16, <1>17, <2>1, MergedTidy
<1>19. SameCounts(FlattenSeq(p), FlattenSeq(M))
  <2>1. MergesTo(n, p, f, M)
    BY <1>16 DEF MergesTo
  <2> QED
    BY <1>2, <1>13, <1>18, <2>1, MergedKeeps
<1>20. SameCounts(Whole(g, s), FlattenSeq(M))
  BY <1>10, <1>19 DEF SameCounts
<1>21. \A k \in 1..n : M[k] = MergeOf(RankAt(g, k), s)
  BY <1>15, <1>16
<1> QED
  BY <1>18, <1>20, <1>21 DEF Merges

\* The lines of n tasks, and nothing behind them.
FilledUp(n, M, S) == S = [k \in 1..SortRanks |-> IF k <= n THEN M[k] ELSE << >>]

\* Together with those that have nothing, the tasks have the same.
LEMMA FilledTogether ==
  ASSUME SortRanks \in Nat, NEW n \in 1..SortRanks, NEW M \in [1..n -> Seq(Elements)], NEW o, NEW c, Joined(n, M, o, c),
         NEW S, FilledUp(n, M, S)
  PROVE  S \in [1..SortRanks -> Seq(Elements)] /\ IsJoined(SortRanks, S, c)
<1>1. n \in Nat /\ n <= SortRanks /\ << >> \in Seq(Elements)
  OBVIOUS
<1>2. /\ \A k \in 1..n : k \in 1..SortRanks /\ k <= n
      /\ \A k \in 1..SortRanks : k <= n => k \in 1..n
      /\ \A k \in 1..SortRanks : k > n => ~(k <= n)
  OBVIOUS
<1>3. S \in [1..SortRanks -> Seq(Elements)]
  BY <1>1, <1>2 DEF FilledUp
<1>4. (\A k \in 1..n : S[k] = M[k]) /\ \A k \in 1..SortRanks : k > n => S[k] = << >>
  BY <1>2 DEF FilledUp
<1>5. \E h : Joined(SortRanks, S, h, c)
  BY <1>1, <1>4, NothingBehind
<1> QED
  BY <1>3, <1>5 DEF IsJoined

\* What the members of a group have of a line is all that is found of it.
FoundAt(g, s, n, B) == \A k \in 1..n : out[RankAt(g, k)][1][s] = Projected(B[k])
\* So the tasks have it together.
LEMMA MembersTogether ==
  ASSUME NEW g, NEW s, NEW n, LineMembers(g, s, n), NEW B \in [1..n -> Seq(Elements)], FoundAt(g, s, n, B),
         NEW o, NEW c \in Seq(Elements), Joined(n, B, o, c), Tidy(Steady, c), SameCounts(Whole(g, s), c)
  PROVE  \E S, d : Together(g, s, S, d)
<1>1. n \in 1..SortRanks /\ SortRanks \in Nat /\ n \in Nat
  BY DEF LineMembers
<1>2. PICK S : FilledUp(n, B, S)
  BY DEF FilledUp
<1>3. S \in [1..SortRanks -> Seq(Elements)] /\ IsJoined(SortRanks, S, c)
  BY <1>1, <1>2, FilledTogether
<1>4. ASSUME NEW k \in 1..SortRanks
      PROVE  IF s \in 1..num_segments_l(RankAt(g, k)) THEN out[RankAt(g, k)][1][s] = Projected(S[k]) ELSE S[k] = << >>
  <2>1. CASE k <= n
    <3>1. k \in 1..n
      BY <1>1, <2>1
    <3>2. s \in 1..num_segments_l(RankAt(g, k))
      BY <3>1 DEF LineMembers, LineMember
    <3>3. S[k] = B[k]
      BY <1>2, <2>1 DEF FilledUp
    <3> QED
      BY <3>1, <3>2, <3>3 DEF FoundAt
  <2>2. CASE ~(k <= n)
    <3>1. num_segments_l(RankAt(g, k)) = 0
      <4>1. k > n
        BY <1>1, <2>2
      <4> QED
        BY <4>1 DEF LineMembers
    <3>2. S[k] = << >>
      BY <1>2, <2>2 DEF FilledUp
    <3> QED
      BY <3>1, <3>2
  <2> QED
    BY <2>1, <2>2
<1>5. FoundAs(g, s, S)
  BY <1>4 DEF FoundAs
<1> QED
  BY <1>3, <1>5 DEF Together

\* Without a shift, that is what they merged.
LEMMA UnboundLine ==
  ASSUME InLine, Done, NEW g \in 1..Len(input.lines), NEW s \in 1..Len(input.lines[g]), NEW n, LineMembers(g, s, n), ~input.bound
  PROVE  \E S, c : Together(g, s, S, c)
<1>1. n \in Nat
  BY DEF LineMembers
<1>2. PICK M : Merges(g, s, n, M)
  BY MergedTogether
<1>3. M \in [1..n -> Seq(Elements)]
  BY <1>2 DEF Merges
<1>4. PICK c : c = FlattenSeq(M)
  OBVIOUS
<1>5. c \in Seq(Elements) /\ IsJoined(n, M, c)
  BY <1>1, <1>3, <1>4, LinesJoined
<1>6. PICK o : Joined(n, M, o, c)
  BY <1>5 DEF IsJoined
<1>7. ASSUME NEW k \in 1..n PROVE out[RankAt(g, k)][1][s] = Projected(M[k])
  <2>1. PICK r : r = RankAt(g, k)
    OBVIOUS
  <2>2. r \in Ranks /\ ~Alone(r) /\ s \in 1..num_segments_l(r)
    BY <2>1 DEF LineMembers, LineMember
  <2>3. out[r] = << [z \in 1..num_segments_l(r) |-> Projected(MergeOf(r, z))] >>
    BY <2>2 DEF InLine, Outcome, Done
  <2>4. out[r][1][s] = Projected(MergeOf(r, s))
    BY <2>2, <2>3
  <2>5. M[k] = MergeOf(r, s)
    BY <1>2, <2>1 DEF Merges
  <2> QED
    BY <2>1, <2>4, <2>5
<1>8. FoundAt(g, s, n, M)
  BY <1>7 DEF FoundAt
<1>9. Tidy(Steady, c) /\ SameCounts(Whole(g, s), c)
  BY <1>2, <1>4 DEF Merges
<1> QED
  BY <1>3, <1>5, <1>6, <1>8, <1>9, MembersTogether

\* Who exchanged and is done has shifted.
LEMMA AtEndShift ==
  ASSUME InLine, Done, ShiftsFit, input.bound, NEW r \in Ranks, ~Alone(r), NEW s \in 1..num_segments_l(r)
  PROVE  /\ AtShift /\ MergedAt(r) /\ num_sort_ranks[r] = Exchangers(r)
         /\ Positive(ToLeft(r, s)) + Positive(ToRight(r, s)) <= Len(merged[r][s])
<1>1. InExchanges /\ out[r] # << >> /\ Exchanges \in 4..5
  BY DEF InLine, Done, Exchanges
<1>2. AtShift /\ Len(posted[r]) = Exchanges + 2 /\ Len(posted[r]) \in Nat
  BY <1>1, AtEnd, Behind DEF Collectives
<1>3. Exchanges + 1 \in 1..Len(posted[r]) /\ Len(posted[r]) > Exchanges + 1 /\ Len(posted[r]) >= 2
  BY <1>1, <1>2
<1>4. AllMerged(r)
  BY <1>3 DEF InLine, Order
<1>5. MergedAt(r)
  BY <1>2, <1>4 DEF MergedAt, AtShift
<1>6. num_sort_ranks[r] = Exchangers(r)
  BY <1>1, <1>3 DEF InExchanges, InCounts, Counted
<1>7. s \in DOMAIN merged[r]
  BY <1>4 DEF AllMerged
<1>8. Positive(send_left(r, s)) + Positive(send_right(r, s)) <= Len(merged[r][s])
  BY <1>3, <1>7 DEF ShiftsFit
<1>9. send_left(r, s) = ToLeft(r, s) /\ send_right(r, s) = ToRight(r, s)
  BY <1>1, <1>2, <1>6, ShiftsAre DEF AtShift
<1> QED
  BY <1>2, <1>5, <1>6, <1>8, <1>9

\* R[k]: what the k-th member passes to the right.
Rights(g, s, n, R) == R = [k \in 0..n |-> IF k = 0 THEN 0 ELSE ToRight(RankAt(g, k), s)]
\* What the k-th member passes on, of what it merged.
MemberShifts(g, s, M, R, k) ==
  /\ R[k] \in Int /\ R[k - 1] \in Int /\ ToRight(RankAt(g, k), s) = R[k] /\ ToLeft(RankAt(g, k), s) = -R[k - 1]
  /\ Len(M[k]) \in Nat /\ M[k] \in Seq(Elements) /\ Positive(-R[k - 1]) + Positive(R[k]) <= Len(M[k])
  /\ ReadOf(M[k], 1, -R[k - 1], LeftOf(RankAt(g, k), s))
  /\ ReadOf(M[k], Len(M[k]) - Positive(R[k]) + 1, Positive(R[k]), RightOf(RankAt(g, k), s))
  /\ ReadOf(M[k], Positive(-R[k - 1]) + 1, Len(M[k]) - Positive(R[k]) - Positive(-R[k - 1]), MiddleOf(RankAt(g, k), s))

\* What a member passes to the left is the opposite of what its left neighbour passes to the right.
LEMMA LeftsAre ==
  ASSUME InLine, Done, ShiftsFit, input.bound, NEW g, NEW s, NEW n, LineMembers(g, s, n), NEW R, Rights(g, s, n, R), NEW k \in 1..n
  PROVE  R[k - 1] \in Int /\ ToLeft(RankAt(g, k), s) = -R[k - 1]
<1>1. PICK r : r = RankAt(g, k)
  OBVIOUS
<1>2. r \in Ranks /\ ~Alone(r) /\ Exchangers(r) = n /\ sort_rank(r) = k - 1 /\ s \in 1..num_segments_l(r)
  BY <1>1 DEF LineMembers, LineMember
<1>3. AtShift /\ n \in Nat
  BY <1>2, AtEndShift DEF LineMembers
<1>4. CASE k = 1
  <2>1. R[0] = 0
    <3>1. 0 \in 0..n
      BY <1>3
    <3> QED
      BY <3>1 DEF Rights
  <2>2. sort_rank(r) \notin 1..Exchangers(r)
    BY <1>2, <1>4
  <2>3. ToLeft(r, s) = 0
    BY <1>2, <1>3, <2>2, LeftMember DEF AtShift
  <2> QED
    BY <1>1, <1>4, <2>1, <2>3
<1>5. CASE k # 1
  <2>1. k - 1 \in 1..n /\ k - 1 \in 0..n /\ k - 1 # 0
    BY <1>3, <1>5
  <2>2. PICK j : j = k - 1
    OBVIOUS
  <2>3. PICK q : q = RankAt(g, j)
    OBVIOUS
  <2>4. /\ q \in Ranks /\ ~Alone(q) /\ Exchangers(q) = n /\ sort_rank(q) = j - 1 /\ s \in 1..num_segments_l(q)
        /\ \A i : Mate(q, i) = RankAt(g, i)
    BY <2>1, <2>2, <2>3 DEF LineMembers, LineMember
  <2>5. input \in Problems /\ n \in 0..SortRanks
    <3>1. input \in Problems
      BY DEF InLine, InExchanges, InCounts, InStep
    <3> QED
      BY <2>4, <3>1, MembersAre
  <2>6. r \in Mates(q)
    <3>1. Mate(q, k) \in Mates(q)
      BY <2>4, <2>5, MateIs
    <3> QED
      BY <1>1, <2>4, <3>1
  <2>7. r = q + 1
    <3>1. group(q) * SortRanks \in Nat /\ q = group(q) * SortRanks + (j - 1)
      <4>1. q = group(q) * SortRanks + sort_rank(q) /\ group(q) \in Nat /\ SortRanks \in Nat
        BY <2>4, <2>5, RankParts, RankFacts
      <4> QED
        BY <2>4, <4>1
    <3>2. r = group(q) * SortRanks + k - 1
      BY <1>1, <2>4 DEF Mate
    <3>3. PICK a : a = group(q) * SortRanks
      OBVIOUS
    <3>4. a \in Nat /\ q = a + (j - 1) /\ r = a + k - 1 /\ j = k - 1 /\ k \in Nat
      BY <1>3, <2>2, <3>1, <3>2, <3>3
    <3> QED
      BY <3>4
  <2>8. ToRight(q, s) \in Int /\ ToLeft(r, s) \in Int /\ ToRight(q, s) = -ToLeft(r, s)
    BY <1>2, <1>3, <2>4, <2>6, <2>7, NextMember DEF AtShift
  <2>9. R[j] = ToRight(q, s)
    BY <2>1, <2>2, <2>3 DEF Rights
  <2> QED
    BY <1>1, <2>2, <2>8, <2>9
<1> QED
  BY <1>4, <1>5

\* The numbers and lines of the shift of a member.
LEMMA MemberShiftsAre ==
  ASSUME InLine, Done, ShiftsFit, input.bound, NEW g, NEW s, NEW n, LineMembers(g, s, n), NEW M, Merges(g, s, n, M),
         NEW R, Rights(g, s, n, R), NEW k \in 1..n
  PROVE  MemberShifts(g, s, M, R, k)
<1>1. PICK r : r = RankAt(g, k)
  OBVIOUS
<1>2. r \in Ranks /\ ~Alone(r) /\ s \in 1..num_segments_l(r)
  BY <1>1 DEF LineMembers, LineMember
<1>3. MergedAt(r) /\ num_sort_ranks[r] = Exchangers(r) /\ Positive(ToLeft(r, s)) + Positive(ToRight(r, s)) <= Len(merged[r][s])
  BY <1>2, AtEndShift
<1>4. PICK line : Edges(r, s, line)
  BY <1>2, <1>3, EdgesAre
<1>5. line = M[k]
  BY <1>1, <1>4 DEF Edges, Merges
<1>6. R[k - 1] \in Int /\ ToLeft(r, s) = -R[k - 1]
  BY <1>1, LeftsAre
<1>7. R[k] = ToRight(r, s)
  <2>1. k \in 0..n /\ k # 0
    BY DEF LineMembers
  <2> QED
    BY <1>1, <2>1 DEF Rights
<1>8. PICK a, b : a = R[k - 1] /\ b = R[k]
  OBVIOUS
<1>9. /\ b \in Int /\ Len(line) \in Nat /\ line \in Seq(Elements) /\ Positive(-a) + Positive(b) <= Len(line)
      /\ ReadOf(line, 1, -a, LeftOf(r, s))
      /\ ReadOf(line, Len(line) - Positive(b) + 1, Positive(b), RightOf(r, s))
      /\ ReadOf(line, Positive(-a) + 1, Len(line) - Positive(b) - Positive(-a), MiddleOf(r, s))
  BY <1>3, <1>4, <1>6, <1>7, <1>8 DEF Edges
<1> QED
  BY <1>1, <1>5, <1>6, <1>7, <1>8, <1>9 DEF MemberShifts

\* What a member passes on is what is too much up to it.
LEMMA RightsAre ==
  ASSUME InLine, Done, ShiftsFit, input.bound, NEW g \in 1..Len(input.lines), NEW s \in 1..Len(input.lines[g]), NEW n, LineMembers(g, s, n),
         NEW M, Merges(g, s, n, M), NEW R, Rights(g, s, n, R), NEW P, Heights(n, M, P), NEW h, Borders(h), NEW k \in 0..n
  PROVE  R[k] = P[k] - h[k]
<1>0. n \in Nat /\ n \in 1..SortRanks /\ SortRanks \in Nat /\ input \in Problems
  BY DEF LineMembers, InLine, InExchanges, InCounts, InStep
<1>1. P[0] = 0 /\ h[0] = 0
  BY DEF Heights, Borders
<1>2. CASE k = 0
  BY <1>1, <1>2 DEF Rights
<1>3. CASE k # 0
  <2>1. k \in 1..n /\ k \in Nat
    BY <1>0, <1>3
  <2>2. PICK r : r = RankAt(g, k)
    OBVIOUS
  <2>3. /\ r \in Ranks /\ ~Alone(r) /\ Exchangers(r) = n /\ sort_rank(r) = k - 1 /\ s \in 1..num_segments_l(r)
        /\ \A j : Mate(r, j) = RankAt(g, j)
    BY <2>1, <2>2 DEF LineMembers, LineMember
  <2>4. AtShift /\ InExchanges /\ Exchanges \in 4..5
    <3>1. AtShift
      BY <2>3, AtEndShift
    <3>2. Exchanges \in 4..5
      BY DEF Exchanges
    <3> QED
      BY <3>1, <3>2 DEF AtShift
  <2>5. PICK f : f = Surpluses(r, s, 0, k)
    OBVIOUS
  <2>6. f \in Numbers(k) /\ \A j \in 1..k : f[j] = SumOf(Got(Mate(r, 0 + j), s)) - segment_size_l(Mate(r, 0 + j))
    <3>1. 0 \in Nat /\ k \in Int /\ 0 + k <= Exchangers(r)
      BY <2>1, <2>3
    <3> QED
      BY <2>3, <2>4, <2>5, <3>1, SurplusesAre DEF AtShift
  <2>7. ASSUME NEW j \in 1..k PROVE f[j] = Len(M[j]) - input.sizes[j] /\ j \in 1..n /\ j \in 1..SortRanks
    <3>1. j \in 1..n /\ j \in 1..SortRanks /\ 0 + j = j
      BY <1>0, <2>1
    <3>2. PICK q : q = RankAt(g, j)
      OBVIOUS
    <3>3. q \in Ranks /\ ~Alone(q) /\ s \in 1..num_segments_l(q)
      BY <3>1, <3>2 DEF LineMembers, LineMember
    <3>4. \A p \in Ranks : Len(posted[p]) >= 3
      <4>1. ASSUME NEW p \in Ranks PROVE Len(posted[p]) >= 3
        <5>1. Len(posted[p]) \in Nat /\ Len(posted[p]) >= Exchanges + 1
          BY <2>4, Behind DEF AtShift
        <5> QED
          BY <2>4, <5>1
      <4> QED
        BY <4>1
    <3>5. Len(MergeOf(q, s)) = SumOf(Got(q, s))
      BY <2>4, <3>3, <3>4, MergeOfIs
    <3>6. segment_size_l(q) = input.sizes[j]
      BY <1>0, <3>1, <3>2, LinesAt
    <3>7. M[j] = MergeOf(q, s)
      BY <3>1, <3>2 DEF Merges
    <3>8. Mate(r, 0 + j) = q
      BY <2>3, <3>1, <3>2
    <3> QED
      BY <2>6, <3>1, <3>5, <3>6, <3>7, <3>8
  <2>8. PICK D : D = [j \in 0..k |-> P[j] - h[j]]
    OBVIOUS
  <2>9. D[0] = 0 /\ D[k] = P[k] - h[k]
    BY <1>1, <2>1, <2>8
  <2>10. ASSUME NEW j \in 1..k PROVE D[j] = D[j - 1] + f[j]
    <3>1. j \in 0..k /\ j - 1 \in 0..k /\ j \in 0..n /\ j - 1 \in 0..n /\ j \in 0..SortRanks /\ j - 1 \in 0..SortRanks
      BY <1>0, <2>1
    <3>2. Len(M[j]) \in Nat /\ P[j] = P[j - 1] + Len(M[j]) /\ P[j - 1] \in Nat
      BY <2>7, <3>1 DEF Heights
    <3>3. input.sizes[j] \in Nat /\ h[j] = h[j - 1] + input.sizes[j] /\ h[j - 1] \in Nat
      BY <2>7, <3>1 DEF Borders
    <3>4. D[j] = P[j] - h[j] /\ D[j - 1] = P[j - 1] - h[j - 1] /\ f[j] = Len(M[j]) - input.sizes[j]
      BY <2>7, <2>8, <3>1
    <3>5. PICK a, b, c, d : a = P[j - 1] /\ b = h[j - 1] /\ c = Len(M[j]) /\ d = input.sizes[j]
      OBVIOUS
    <3>6. a \in Nat /\ b \in Nat /\ c \in Nat /\ d \in Nat /\ D[j] = (a + c) - (b + d) /\ D[j - 1] = a - b /\ f[j] = c - d
      BY <3>2, <3>3, <3>4, <3>5
    <3> QED
      BY <3>6
  <2>11. SumOf(f) = D[k]
    BY <2>1, <2>6, <2>9, <2>10, SumEquals
  <2>12. ToRight(r, s) = SumOf(f)
    <3>1. sort_rank(r) + 1 = k
      BY <2>1, <2>3
    <3> QED
      BY <2>5, <3>1 DEF ToRight
  <2>13. R[k] = ToRight(r, s)
    BY <1>3, <2>2 DEF Rights
  <2> QED
    BY <2>9, <2>11, <2>12, <2>13
<1> QED
  BY <1>2, <1>3

\* What is read of a line that has it.
LEMMA ReadFits ==
  ASSUME NEW line \in Seq(Elements), NEW b \in Nat, NEW n \in Nat, b + n <= Len(line), NEW from, from = b + 1, NEW t, ReadOf(line, from, n, t)
  PROVE  t \in Seq(Elements) /\ Len(t) = n /\ \A x \in 1..n : b + x \in 1..Len(line) /\ t[x] = line[b + x]
<1>1. t \in Seq(Elements) /\ Len(t) = n
  BY DEF ReadOf, Positive
<1>2. ASSUME NEW x \in 1..n PROVE b + x \in 1..Len(line) /\ t[x] = line[b + x]
  <2>1. from + (x - 1) = b + x /\ b + x \in 1..Len(line) /\ Len(line) \in Nat
    OBVIOUS
  <2>2. from + (x - 1) \in 1..Len(line) => t[x] = line[from + (x - 1)]
    BY <1>1 DEF ReadOf
  <2> QED
    BY <2>1, <2>2
<1> QED
  BY <1>1, <1>2

\* Three sequences, one after the other.
InThree(a, b, c, t) ==
  /\ t \in Seq(Elements) /\ Len(t) = Len(a) + Len(b) + Len(c)
  /\ \A x \in 1..Len(a) : t[x] = a[x]
  /\ \A x \in 1..Len(b) : t[Len(a) + x] = b[x]
  /\ \A x \in 1..Len(c) : t[Len(a) + Len(b) + x] = c[x]
\* Concatenation puts them so.
LEMMA ThreeParts ==
  ASSUME NEW a \in Seq(Elements), NEW b \in Seq(Elements), NEW c \in Seq(Elements), NEW t, t = a \o b \o c
  PROVE  InThree(a, b, c, t)
<1>1. PICK u : u = a \o b
  OBVIOUS
<1>2. u \in Seq(Elements) /\ Len(u) = Len(a) + Len(b) /\ t = u \o c /\ Len(a) \in Nat /\ Len(b) \in Nat /\ Len(c) \in Nat
  BY <1>1
<1>3. t \in Seq(Elements) /\ Len(t) = Len(a) + Len(b) + Len(c)
  <2>1. t \in Seq(Elements) /\ Len(t) = Len(u) + Len(c)
    BY <1>2, ConcatProperties
  <2> QED
    BY <1>2, <2>1
<1>4. ASSUME NEW x \in 1..Len(a) PROVE t[x] = a[x]
  <2>1. x \in 1..Len(u) /\ u[x] = a[x]
    BY <1>1, <1>2
  <2> QED
    BY <1>2, <2>1
<1>5. ASSUME NEW x \in 1..Len(b) PROVE t[Len(a) + x] = b[x]
  <2>1. PICK y : y = Len(a) + x
    OBVIOUS
  <2>2. y \in 1..Len(u)
    BY <1>2, <2>1
  <2>3. u[y] = b[x]
    BY <1>1, <1>2, <2>1
  <2>4. t[y] = u[y]
    BY <1>2, <2>2
  <2> QED
    BY <2>1, <2>3, <2>4
<1>6. ASSUME NEW x \in 1..Len(c) PROVE t[Len(a) + Len(b) + x] = c[x]
  <2>1. t[Len(u) + x] = c[x]
    BY <1>2
  <2> QED
    BY <1>2, <2>1
<1> QED
  BY <1>3, <1>4, <1>5, <1>6 DEF InThree

\* The tasks of a group are next to each other.
LEMMA RankBefore ==
  ASSUME SortRanks \in Nat, NEW g \in Nat, NEW k \in Nat
  PROVE  RankAt(g, k + 1) = RankAt(g, k) + 1 /\ RankAt(g, k - 1) = RankAt(g, k) - 1
<1>1. (g - 1) * SortRanks \in Int
  OBVIOUS
<1>2. PICK a : a = (g - 1) * SortRanks
  OBVIOUS
<1>3. RankAt(g, k) = a + k - 1 /\ RankAt(g, k + 1) = a + (k + 1) - 1 /\ RankAt(g, k - 1) = a + (k - 1) - 1
  BY <1>2 DEF RankAt
<1> QED
  BY <1>1, <1>2, <1>3

\* The k-th member after the shift.
LEMMA MemberBalanced ==
  ASSUME InLine, Done, ShiftsFit, input.bound, NEW g \in Nat, NEW s, NEW n, LineMembers(g, s, n), NEW M, Merges(g, s, n, M),
         NEW R, Rights(g, s, n, R), NEW k \in 1..n, R[n] = 0, NEW t, t = Balanced(RankAt(g, k), s)
  PROVE  ShiftedTo(M, R, k, t)
<1>0. n \in Nat /\ k \in Nat /\ SortRanks \in Nat
  <2>1. n \in Nat /\ n \in 1..SortRanks /\ SortRanks \in Nat
    BY DEF LineMembers
  <2> QED
    BY <2>1
<1>1. PICK r : r = RankAt(g, k)
  OBVIOUS
<1>2. PICK a, b : a = R[k - 1] /\ b = R[k]
  OBVIOUS
<1>3. PICK line : line = M[k]
  OBVIOUS
<1>4. /\ a \in Int /\ b \in Int /\ ToRight(r, s) = b /\ ToLeft(r, s) = -a
      /\ Len(line) \in Nat /\ line \in Seq(Elements) /\ Positive(-a) + Positive(b) <= Len(line)
      /\ ReadOf(line, Positive(-a) + 1, Len(line) - Positive(b) - Positive(-a), MiddleOf(r, s))
  <2>1. MemberShifts(g, s, M, R, k)
    BY MemberShiftsAre
  <2> QED
    BY <1>1, <1>2, <1>3, <2>1 DEF MemberShifts
<1>5. Positive(a) \in Nat /\ Positive(-a) \in Nat /\ Positive(b) \in Nat /\ Positive(-b) \in Nat
      /\ (a <= 0 => Positive(a) = 0) /\ (b >= 0 => Positive(-b) = 0) /\ (b < 0 => Positive(-b) = -b)
  BY <1>4, PositiveIs
<1>6. PICK mid, st : mid = MiddleOf(r, s) /\ st = Len(line) - Positive(-a) - Positive(b)
  OBVIOUS
<1>7. mid \in Seq(Elements) /\ Len(mid) = st /\ st \in Nat /\ \A x \in 1..st : mid[x] = line[Positive(-a) + x]
  <2>1. st \in Nat /\ Len(line) - Positive(b) - Positive(-a) = st /\ Positive(-a) + st <= Len(line)
    <3>1. PICK u, v, w : u = Positive(-a) /\ v = Positive(b) /\ w = Len(line)
      OBVIOUS
    <3>2. u \in Nat /\ v \in Nat /\ w \in Nat /\ u + v <= w /\ st = w - u - v
      BY <1>4, <1>5, <1>6, <3>1
    <3>3. st \in Nat /\ w - v - u = st /\ u + st <= w
      BY <3>2
    <3> QED
      BY <3>1, <3>3
  <2>2. ReadOf(line, Positive(-a) + 1, st, mid)
    BY <1>4, <1>6, <2>1
  <2>3. PICK from, u : from = Positive(-a) + 1 /\ u = Positive(-a)
    OBVIOUS
  <2>4. u \in Nat /\ u + st <= Len(line) /\ from = u + 1 /\ ReadOf(line, from, st, mid)
    BY <1>5, <2>1, <2>2, <2>3
  <2>5. mid \in Seq(Elements) /\ Len(mid) = st /\ \A x \in 1..st : mid[x] = line[u + x]
    BY <1>4, <2>1, <2>4, ReadFits
  <2> QED
    BY <2>1, <2>3, <2>5
<1>8. PICK fl : fl = FromLeft(r, s)
  OBVIOUS
<1>9. fl \in Seq(Elements) /\ Len(fl) = Positive(a) /\ \A x \in 1..Positive(a) : fl[x] = M[k - 1][Len(M[k - 1]) - Positive(a) + x]
  <2>1. CASE a <= 0
    <3>1. ~(-a < 0)
      BY <1>4, <2>1
    <3>2. fl = << >> /\ Positive(a) = 0 /\ 1..0 = {}
      BY <1>4, <1>5, <1>8, <2>1, <3>1 DEF FromLeft
    <3> QED
      BY <3>2
  <2>2. CASE ~(a <= 0)
    <3>1. k # 1
      <4>1. R[0] = 0
        <5>1. 0 \in 0..n
          BY <1>0
        <5> QED
          BY <5>1 DEF Rights
      <4>2. k = 1 => a = R[0]
        BY <1>2
      <4> QED
        BY <2>2, <4>1, <4>2
    <3>2. PICK j : j = k - 1
      OBVIOUS
    <3>3. j \in 1..n /\ j \in Nat
      BY <1>0, <3>1, <3>2
    <3>4. PICK q : q = RankAt(g, j)
      OBVIOUS
    <3>5. q = r - 1
      BY <1>0, <1>1, <3>2, <3>4, RankBefore
    <3>6. PICK prev : prev = M[j]
      OBVIOUS
    <3>7. Len(prev) \in Nat /\ prev \in Seq(Elements) /\ Positive(-R[j - 1]) + Positive(a) <= Len(prev) /\ R[j - 1] \in Int
          /\ ReadOf(prev, Len(prev) - Positive(a) + 1, Positive(a), RightOf(q, s))
      <4>1. MemberShifts(g, s, M, R, j)
        BY <3>3, MemberShiftsAre
      <4>2. R[j] = a
        BY <1>2, <3>2
      <4> QED
        BY <3>4, <3>6, <4>1, <4>2 DEF MemberShifts
    <3>8. fl = RightOf(q, s)
      <4>1. -a < 0
        BY <1>4, <2>2
      <4> QED
        BY <1>4, <1>8, <3>5, <4>1 DEF FromLeft
    <3>9. PICK pa, u, from : pa = Positive(a) /\ u = Len(prev) - pa /\ from = Len(prev) - pa + 1
      OBVIOUS
    <3>10. pa \in Nat /\ u \in Nat /\ u + pa <= Len(prev) /\ from = u + 1
      <4>1. Positive(-R[j - 1]) \in Nat
        BY <3>7, PositiveIs
      <4>2. PICK z : z = Positive(-R[j - 1])
        OBVIOUS
      <4>3. z \in Nat /\ pa \in Nat /\ Len(prev) \in Nat /\ z + pa <= Len(prev)
        BY <1>5, <3>7, <3>9, <4>1, <4>2
      <4> QED
        BY <3>9, <4>3, SMTT(30)
    <3>11. ReadOf(prev, from, pa, fl)
      BY <3>7, <3>8, <3>9
    <3>12. fl \in Seq(Elements) /\ Len(fl) = pa /\ \A x \in 1..pa : fl[x] = prev[u + x]
      BY <3>7, <3>10, <3>11, ReadFits
    <3> QED
      BY <3>2, <3>6, <3>9, <3>12
  <2> QED
    BY <2>1, <2>2
<1>10. PICK fr : fr = FromRight(r, s)
  OBVIOUS
<1>11. fr \in Seq(Elements) /\ Len(fr) = Positive(-b) /\ \A x \in 1..Positive(-b) : fr[x] = M[k + 1][x]
  <2>1. CASE b >= 0
    <3>1. ~(b < 0)
      BY <1>4, <2>1
    <3>2. fr = << >> /\ Positive(-b) = 0 /\ 1..0 = {}
      BY <1>4, <1>5, <1>10, <2>1, <3>1 DEF FromRight
    <3> QED
      BY <3>2
  <2>2. CASE b < 0
    <3>1. k # n
      BY <1>2, <2>2
    <3>2. PICK j : j = k + 1
      OBVIOUS
    <3>3. j \in 1..n /\ j \in Nat /\ j - 1 = k
      BY <1>0, <3>1, <3>2
    <3>4. PICK q : q = RankAt(g, j)
      OBVIOUS
    <3>5. q = r + 1
      BY <1>0, <1>1, <3>2, <3>4, RankBefore
    <3>6. PICK next : next = M[j]
      OBVIOUS
    <3>7. Len(next) \in Nat /\ next \in Seq(Elements) /\ Positive(-b) + Positive(R[j]) <= Len(next) /\ R[j] \in Int
          /\ ReadOf(next, 1, -b, LeftOf(q, s))
      <4>1. MemberShifts(g, s, M, R, j)
        BY <3>3, MemberShiftsAre
      <4>2. R[j - 1] = b
        BY <1>2, <3>3
      <4> QED
        BY <3>4, <3>6, <4>1, <4>2 DEF MemberShifts
    <3>8. fr = LeftOf(q, s)
      BY <1>4, <1>10, <2>2, <3>5 DEF FromRight
    <3>9. PICK pb : pb = -b
      OBVIOUS
    <3>10. pb \in Nat /\ 0 + pb <= Len(next) /\ Positive(-b) = pb
      <4>1. Positive(R[j]) \in Nat
        BY <3>7, PositiveIs
      <4>2. Positive(-b) = -b
        BY <1>5, <2>2
      <4>3. PICK z : z = Positive(R[j])
        OBVIOUS
      <4>4. z \in Nat /\ pb \in Nat /\ pb + z <= Len(next) /\ Len(next) \in Nat
        BY <1>4, <2>2, <3>7, <3>9, <4>1, <4>2, <4>3
      <4> QED
        BY <3>9, <4>2, <4>4
    <3>11. ReadOf(next, 1, pb, fr)
      BY <3>7, <3>8, <3>9
    <3>12. PICK from \in Nat, zero \in Nat : from = 1 /\ zero = 0 /\ from = zero + 1
      OBVIOUS
    <3>13. fr \in Seq(Elements) /\ Len(fr) = pb /\ \A x \in 1..pb : fr[x] = next[zero + x]
      <4>1. zero \in Nat /\ pb \in Nat /\ zero + pb <= Len(next) /\ from = zero + 1 /\ next \in Seq(Elements) /\ ReadOf(next, from, pb, fr)
        BY <3>7, <3>10, <3>11, <3>12
      <4> QED
        BY <4>1, ReadFits
    <3>14. \A x \in 1..pb : zero + x = x
      BY <3>10, <3>12
    <3> QED
      BY <3>2, <3>6, <3>10, <3>13, <3>14
  <2> QED
    BY <1>4, <2>1, <2>2
<1>12. t = fl \o mid \o fr
  BY <1>1, <1>6, <1>8, <1>10 DEF Balanced
<1>13. InThree(fl, mid, fr, t)
  BY <1>7, <1>9, <1>11, <1>12, ThreeParts
<1>14. Stays(M, R, k) = st
  BY <1>2, <1>3, <1>6 DEF Stays
<1>15. t \in Seq(Elements) /\ Len(t) = Positive(a) + st + Positive(-b)
  BY <1>7, <1>9, <1>11, <1>13 DEF InThree
<1>16. \A x \in 1..Positive(a) : t[x] = M[k - 1][Len(M[k - 1]) - Positive(a) + x]
  BY <1>9, <1>13 DEF InThree
<1>17. \A x \in 1..st : t[Positive(a) + x] = line[Positive(-a) + x]
  BY <1>7, <1>9, <1>13 DEF InThree
<1>18. \A x \in 1..Positive(-b) : t[Positive(a) + st + x] = M[k + 1][x]
  BY <1>7, <1>9, <1>11, <1>13 DEF InThree
<1> QED
  BY <1>2, <1>3, <1>14, <1>15, <1>16, <1>17, <1>18 DEF ShiftedTo

\* The members of a group shift what they merged to where the layout wants it.
Shifting(g, s, n, h, M, P, c, o, R) ==
  /\ Merges(g, s, n, M) /\ c = FlattenSeq(M) /\ c \in Seq(Elements) /\ Joined(n, M, P, c) /\ Rights(g, s, n, R) /\ R[n] = 0
  /\ Shifts(n, M, P, o, R) /\ \A k \in 0..n : o[k] = h[k]

\* There is such a shift: what is too much up to a member is what was merged less where its part ends.
LEMMA LineShifts ==
  ASSUME InLine, Done, ShiftsFit, input.bound, NEW g \in 1..Len(input.lines), NEW s \in 1..Len(input.lines[g]),
         NEW n, LineMembers(g, s, n), NEW h, Borders(h)
  PROVE  \E M, P, c, o, R : Shifting(g, s, n, h, M, P, c, o, R)
<1>1. input \in Problems /\ n \in Nat /\ n \in 0..SortRanks /\ SortRanks \in Nat
  <2>1. n \in 1..SortRanks /\ SortRanks \in Nat /\ n \in Nat
    BY DEF LineMembers
  <2>2. input \in Problems
    BY DEF InLine, InExchanges, InCounts, InStep
  <2> QED
    BY <2>1, <2>2
<1>2. PICK M : Merges(g, s, n, M)
  BY MergedTogether
<1>3. M \in [1..n -> Seq(Elements)]
  BY <1>2 DEF Merges
<1>4. PICK c : c = FlattenSeq(M)
  OBVIOUS
<1>5. c \in Seq(Elements) /\ IsJoined(n, M, c)
  BY <1>1, <1>3, <1>4, LinesJoined
<1>6. PICK P : Joined(n, M, P, c)
  BY <1>5 DEF IsJoined
<1>7. Heights(n, M, P) /\ Len(c) = P[n]
  BY <1>6 DEF Joined
<1>8. PICK R : Rights(g, s, n, R)
  BY DEF Rights
<1>9. PICK o : o = [k \in 0..n |-> h[k]]
  OBVIOUS
<1>10. \A k \in 0..n : o[k] = h[k] /\ h[k] \in Nat
  BY <1>1, <1>9, BordersType
<1>11. o \in [0..n -> Nat] /\ o[0] = 0
  <2>1. h[0] = 0 /\ 0 \in 0..n
    BY <1>1 DEF Borders
  <2> QED
    BY <1>9, <1>10, <2>1
<1>12. o[n] = P[n]
  <2>1. \A k \in 1..SortRanks : k > n => input.sizes[k] = 0
    BY DEF LineMembers
  <2>2. h[n] = segment_size_g
    BY <1>1, <2>1, BordersEnd
  <2>3. PICK w : w = Whole(g, s)
    OBVIOUS
  <2>4. w \in Seq(Elements) /\ Len(w) = segment_size_g
    BY <1>1, <2>3, WholeIs
  <2>5. SameCounts(w, c)
    BY <1>2, <1>4, <2>3 DEF Merges
  <2>6. Len(c) = Len(w)
    BY <1>5, <2>4, <2>5, CountsCome
  <2>7. n \in 0..n
    BY <1>1
  <2> QED
    BY <1>7, <1>10, <2>2, <2>4, <2>6, <2>7
<1>13. ASSUME NEW k \in 0..n PROVE R[k] = P[k] - o[k]
  <2>1. R[k] = P[k] - h[k]
    BY <1>2, <1>7, <1>8, RightsAre
  <2> QED
    BY <1>10, <2>1
<1>14. R[n] = 0
  <2>1. n \in 0..n /\ P[n] \in Nat
    BY <1>1, <1>7 DEF Heights
  <2>2. R[n] = P[n] - P[n]
    BY <1>12, <1>13, <2>1
  <2> QED
    BY <2>1, <2>2
<1>15. ASSUME NEW k \in 1..n PROVE o[k - 1] <= o[k] /\ Positive(-R[k - 1]) + Positive(R[k]) <= Len(M[k])
  <2>1. MemberShifts(g, s, M, R, k)
    BY <1>2, <1>8, MemberShiftsAre
  <2>2. k \in 0..n /\ k - 1 \in 0..n /\ k \in 1..SortRanks
    BY <1>1
  <2>3. h[k] = h[k - 1] + input.sizes[k] /\ input.sizes[k] \in Nat /\ h[k - 1] \in Nat
    BY <1>10, <2>2 DEF Borders
  <2>4. h[k - 1] <= h[k]
    BY <2>3
  <2> QED
    BY <1>10, <2>1, <2>2, <2>4 DEF MemberShifts
<1>16. Shifts(n, M, P, o, R)
  BY <1>11, <1>12, <1>13, <1>15 DEF Shifts
<1>17. Shifting(g, s, n, h, M, P, c, o, R)
  BY <1>2, <1>4, <1>5, <1>6, <1>8, <1>10, <1>14, <1>16 DEF Shifting
<1> QED
  BY <1>17

\* A member has its share of the line then.
ShareOf(n, o, c, k, t) ==
  t \in Seq(Elements) /\ Len(t) \in Nat /\ Len(t) = o[k] - o[k - 1] /\ \A x \in 1..Len(t) : t[x] = c[o[k - 1] + x]
\* It is what it reads after the shift.
LEMMA MemberHas ==
  ASSUME InLine, Done, ShiftsFit, input.bound, NEW g \in Nat, NEW s, NEW n, LineMembers(g, s, n), NEW h,
         NEW M, NEW P, NEW c, NEW o, NEW R, Shifting(g, s, n, h, M, P, c, o, R), NEW k \in 1..n, NEW t, t = Balanced(RankAt(g, k), s)
  PROVE  ShareOf(n, o, c, k, t)
<1>1. ShiftedTo(M, R, k, t)
  BY MemberBalanced DEF Shifting
<1>2. n \in Nat /\ t \in Seq(Elements)
  BY <1>1 DEF LineMembers, ShiftedTo
<1>3. Joined(n, M, P, c) /\ Shifts(n, M, P, o, R)
  BY DEF Shifting
<1>4. Len(t) = o[k] - o[k - 1] /\ \A x \in 1..Len(t) : t[x] = c[o[k - 1] + x]
  BY <1>1, <1>2, <1>3, ShiftedIs
<1> QED
  BY <1>2, <1>4 DEF ShareOf

\* After the shift, they still have the line together.
LEMMA BoundLine ==
  ASSUME InLine, Done, ShiftsFit, input.bound, NEW g \in 1..Len(input.lines), NEW s \in 1..Len(input.lines[g]), NEW n, LineMembers(g, s, n)
  PROVE  \E S, c : Together(g, s, S, c)
<1>1. input \in Problems /\ n \in Nat /\ g \in Nat
  <2>1. input \in Problems /\ n \in Nat
    BY DEF LineMembers, InLine, InExchanges, InCounts, InStep
  <2> QED
    BY <2>1
<1>2. PICK h : Borders(h)
  BY <1>1, BordersExist
<1>3. PICK M, P, c, o, R : Shifting(g, s, n, h, M, P, c, o, R)
  BY <1>2, LineShifts
<1>4. PICK B : B = [k \in 1..n |-> Balanced(RankAt(g, k), s)]
  OBVIOUS
<1>5. ASSUME NEW k \in 1..n PROVE ShareOf(n, o, c, k, B[k])
  <2>1. PICK t : t = Balanced(RankAt(g, k), s)
    OBVIOUS
  <2>2. B[k] = t
    BY <1>4, <2>1
  <2> QED
    BY <1>1, <1>3, <2>1, <2>2, MemberHas
<1>6. B \in [1..n -> Seq(Elements)]
  BY <1>4, <1>5 DEF ShareOf
<1>7. o \in [0..n -> Nat] /\ o[0] = 0 /\ o[n] = P[n]
  BY <1>3 DEF Shifting, Shifts
<1>8. ASSUME NEW k \in 1..n PROVE Len(B[k]) \in Nat /\ o[k] = o[k - 1] + Len(B[k])
  <2>1. Len(B[k]) = o[k] - o[k - 1] /\ Len(B[k]) \in Nat
    BY <1>5 DEF ShareOf
  <2>2. o[k] \in Nat /\ o[k - 1] \in Nat
    BY <1>1, <1>7
  <2> QED
    BY <2>1, <2>2
<1>9. Heights(n, B, o)
  BY <1>7, <1>8 DEF Heights
<1>10. Len(c) = P[n] /\ IsSequence(c) /\ c \in Seq(Elements)
  BY <1>3 DEF Shifting, Joined
<1>11. \A k \in 1..n : \A x \in 1..Len(B[k]) : c[o[k - 1] + x] = B[k][x]
  BY <1>5 DEF ShareOf
<1>12. Joined(n, B, o, c)
  BY <1>7, <1>9, <1>10, <1>11 DEF Joined
<1>13. ASSUME NEW k \in 1..n PROVE out[RankAt(g, k)][1][s] = Projected(B[k])
  <2>1. PICK r : r = RankAt(g, k)
    OBVIOUS
  <2>2. r \in Ranks /\ ~Alone(r) /\ s \in 1..num_segments_l(r)
    BY <2>1 DEF LineMembers, LineMember
  <2>3. out[r] = << [z \in 1..num_segments_l(r) |-> Projected(Balanced(r, z))] >>
    BY <2>2 DEF InLine, Outcome, Done
  <2>4. out[r][1][s] = Projected(Balanced(r, s))
    BY <2>2, <2>3
  <2> QED
    BY <1>4, <2>1, <2>4
<1>14. FoundAt(g, s, n, B)
  BY <1>13 DEF FoundAt
<1>15. Tidy(Steady, c) /\ SameCounts(Whole(g, s), c)
  BY <1>3 DEF Shifting, Merges
<1> QED
  BY <1>6, <1>10, <1>12, <1>14, <1>15, MembersTogether

\* Whatever the layout, what is found of a line is the line in order.
LEMMA LineFound ==
  ASSUME InLine, Done, ShiftsFit, NEW g \in 1..Len(input.lines), NEW s \in 1..Len(input.lines[g])
  PROVE  LineInOrder(g, s, InOrder(g, s), Concatenated(g, s))
<1>1. input \in Problems
  BY DEF InLine, InExchanges, InCounts, InStep
<1>2. CASE segment_size_g = 0
  BY <1>2, EmptyLine, FoundTogether
<1>3. CASE segment_size_g # 0 /\ SortRanks = 1
  BY <1>3, AloneLine, FoundTogether
<1>4. CASE segment_size_g # 0 /\ SortRanks # 1
  <2>1. LineMembers(g, s, Populated)
    BY <1>1, <1>4, LineMembersAre
  <2>2. \E S, c : Together(g, s, S, c)
    BY <2>1, BoundLine, UnboundLine
  <2> QED
    BY <2>2, FoundTogether
<1> QED
  BY <1>2, <1>3, <1>4

\* A bound result has the extents of the input.
LEMMA ExtentsKept ==
  ASSUME InLine, Done, ShiftsFit, input.bound, NEW r \in Ranks, NEW s \in 1..num_segments_l(r)
  PROVE  Len(out[r][1][s]) = segment_size_l(r)
<1>1. input \in Problems
  BY DEF InLine, InExchanges, InCounts, InStep
<1>2. /\ segment_size_l(r) \in Nat /\ num_segments_l(r) \in Nat /\ group(r) \in Nat /\ group(r) + 1 \in 1..Len(input.lines)
      /\ r = group(r) * SortRanks + sort_rank(r) /\ sort_rank(r) \in 0..(SortRanks - 1) /\ SortRanks \in Nat
  BY <1>1, RankParts, RankFacts
<1>3. segment_size_l(r) > 0 /\ s \in 1..Len(input.lines[group(r) + 1])
  BY <1>2 DEF num_segments_l
<1>4. volume(r) # 0
  BY <1>2, <1>3 DEF volume
<1>5. CASE Alone(r)
  <2>1. PICK t : SortedLocally(r, t) /\ out[r] = << [z \in 1..num_segments_l(r) |-> Projected(t[z])] >>
    BY <1>4, <1>5 DEF InLine, Outcome, Done, SortedAlone
  <2>2. PICK c : c = t[s]
    OBVIOUS
  <2>3. out[r][1][s] = Projected(c) /\ c \in LocalSorts(Part(r, s))
    BY <2>1, <2>2 DEF SortedLocally
  <2>4. Part(r, s) \in Seq(Elements) /\ Len(Part(r, s)) = segment_size_l(r)
    BY <1>1, PartIs
  <2>5. c \in Seq(Elements) /\ Len(c) = segment_size_l(r)
    BY <2>3, <2>4, LocalSortsAre
  <2> QED
    BY <2>3, <2>5, ProjectedIs
<1>6. CASE ~Alone(r)
  <2>1. SortRanks # 1
    BY <1>6 DEF Alone, need_distributed_sort
  <2>2. segment_size_g # 0
    <3>1. Offset(r) \in Nat /\ Offset(r) + segment_size_l(r) <= segment_size_g
      BY <1>1, OffsetFits
    <3> QED
      BY <1>2, <1>3, <3>1
  <2>3. PICK g, k, n : g = group(r) + 1 /\ k = sort_rank(r) + 1 /\ n = Populated
    OBVIOUS
  <2>4. g \in 1..Len(input.lines) /\ g \in Nat /\ s \in 1..Len(input.lines[g]) /\ k \in 1..SortRanks
    BY <1>2, <1>3, <2>3, SMTT(30)
  <2>5. RankAt(g, k) = r
    <3>1. PICK a, b, m : a = group(r) /\ b = sort_rank(r) /\ m = SortRanks
      OBVIOUS
    <3>2. a \in Nat /\ b \in Int /\ r = a * m + b /\ g = a + 1 /\ k = b + 1 /\ m \in Nat
      BY <1>2, <2>3, <3>1
    <3>3. g - 1 = a /\ a * m \in Int
      BY <3>2
    <3>4. (g - 1) * m + k - 1 = r
      BY <3>2, <3>3
    <3> QED
      BY <3>1, <3>4 DEF RankAt
  <2>6. LineMembers(g, s, n)
    BY <1>1, <2>1, <2>2, <2>3, <2>4, LineMembersAre
  <2>7. k \in 1..n /\ n \in Nat
    <3>1. n \in Nat /\ (k > n => num_segments_l(r) = 0)
      BY <2>4, <2>5, <2>6 DEF LineMembers
    <3>2. num_segments_l(r) # 0
      BY <1>2
    <3> QED
      BY <2>4, <3>1, <3>2
  <2>8. PICK h : Borders(h)
    BY <1>1, BordersExist
  <2>9. PICK M, P, c, o, R : Shifting(g, s, n, h, M, P, c, o, R)
    BY <2>4, <2>6, <2>8, LineShifts
  <2>10. PICK t : t = Balanced(r, s)
    OBVIOUS
  <2>11. ShareOf(n, o, c, k, t)
    BY <2>4, <2>5, <2>6, <2>7, <2>9, <2>10, MemberHas
  <2>12. Len(t) = h[k] - h[k - 1] /\ t \in Seq(Elements)
    <3>1. k \in 0..n /\ k - 1 \in 0..n
      BY <2>7
    <3>2. o[k] = h[k] /\ o[k - 1] = h[k - 1]
      BY <2>9, <3>1 DEF Shifting
    <3> QED
      BY <2>11, <3>2 DEF ShareOf
  <2>13. h[k] - h[k - 1] = segment_size_l(r)
    <3>1. input.sizes[k] \in Nat /\ h[k] = h[k - 1] + input.sizes[k] /\ segment_size_l(r) = input.sizes[k]
      BY <2>3, <2>4, <2>8 DEF Borders, segment_size_l
    <3>2. h[k - 1] \in Nat
      <4>1. k - 1 \in 0..SortRanks
        BY <1>2, <2>4
      <4> QED
        BY <2>8, <4>1 DEF Borders
    <3> QED
      BY <3>1, <3>2
  <2>14. out[r] = << [z \in 1..num_segments_l(r) |-> Projected(Balanced(r, z))] >>
    BY <1>6 DEF InLine, Outcome, Done
  <2>15. out[r][1][s] = Projected(t)
    BY <2>10, <2>14
  <2> QED
    BY <2>12, <2>13, <2>15, ProjectedIs
<1> QED
  BY <1>5, <1>6

---------------------------------------------------------------------------
(* The theorem *)

\* The inductive invariant implies the property: every line is found in order, and extents are kept.
LEMMA InLineSorts ==
  InLine => SortsTheWhole
<1> SUFFICES ASSUME InLine, Done, ShiftsFit PROVE SortsTheWhole
  BY DEF SortsTheWhole
<1>1. input \in Problems
  BY DEF InLine, InExchanges, InCounts, InStep
<1>2. input.lines \in Seq(Seq(Seq(Values)))
  BY <1>1, ProblemsWellFormed DEF WellFormed
<1>3. DOMAIN input.lines = 1..Len(input.lines) /\ \A g \in 1..Len(input.lines) : DOMAIN input.lines[g] = 1..Len(input.lines[g])
  <2>1. \A g \in 1..Len(input.lines) : input.lines[g] \in Seq(Seq(Values))
    BY <1>2, ElementOfSeq
  <2> QED
    BY <1>2, <2>1, LenProperties
<1>4. \A g \in DOMAIN input.lines : \A s \in DOMAIN input.lines[g] : LineInOrder(g, s, InOrder(g, s), Concatenated(g, s))
  BY <1>3, LineFound
<1>5. ASSUME input.bound, NEW r \in Ranks
      PROVE  Len(out[r][1]) = num_segments_l(r) /\ \A s \in DOMAIN out[r][1] : Len(out[r][1][s]) = segment_size_l(r)
  <2>1. HasLines(r, out[r][1])
    BY ResultLines DEF Done
  <2>2. \A s \in 1..num_segments_l(r) : Len(out[r][1][s]) = segment_size_l(r)
    BY <1>5, ExtentsKept
  <2> QED
    BY <2>1, <2>2 DEF HasLines
<1> QED
  BY <1>4, <1>5 DEF SortsTheWhole, LineInOrder

\* When all tasks of a sort are done, of whatever lines and layout, their results, one after the other,
\* are every line in order: its values, or for an argsort the places of its elements, each once, equal
\* ones in order of their places when the sort is stable; a bound result has the extents of the input.
\* That holds unless a task shifts more than it holds, which the code takes to be impossible
\* (sort_cpu.inl:214; the cuts at 600, the exchange at 822, the whole sort at 954).
THEOREM SortSorts == Spec => []SortsTheWhole
<1>1. Spec => []InLine
  BY AlwaysInLine
<1> QED
  BY <1>1, InLineSorts, PTL
=============================================================================
