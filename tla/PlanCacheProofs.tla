-------------------------- MODULE PlanCacheProofs --------------------------
(***************************************************************************)
(* Proofs that the assertion of cufftPlanCache::get_cufft_plan holds, and  *)
(* that the LRU indices rank the plans, for every MAX_PLANS.               *)
(***************************************************************************)
EXTENDS PlanCache, SequenceTheorems, WellFoundedInduction, TLAPS

\* The inductive invariant: Ranking is preserved because a hit permutes the
\* ranks below the one it resets, and a miss shifts them all by one.
IInv == TypeOK /\ Ranking /\ NoDuplicate

\* A nonempty set of slots has a least element.
LEMMA LeastSlot ==
  ASSUME NEW S \in SUBSET Slots, S # {}
  PROVE  Least(S) \in S /\ \A j \in S : Least(S) <= j
<1>1. S \subseteq Nat
  BY NAssumption DEF Slots
<1>2. PICK i \in S : \A j \in S : <<j, i>> \notin OpToRel(<, Nat)
  BY <1>1, NatLessThanWellFounded, WFMin
<1>3. \A j \in S : ~(j < i)
  BY <1>1, <1>2 DEF OpToRel
<1>4. \A j \in S : i <= j
  BY <1>1, <1>3
<1> QED
  BY <1>4 DEF Least

\* The victim of a miss: an empty slot after all the plans, or, when every
\* slot holds a plan, the one of rank N - 1.
LEMMA VictimKinds ==
  ASSUME IInv
  PROVE  /\ Victims # {}
         /\ Least(Victims) \in Victims
         /\ Used = Slots \/ (plan[Least(Victims)] = None
                             /\ Used = {i \in Slots : i < Least(Victims)})
<1> DEFINE v == Least(Victims)
<1>1. CASE Used = Slots
  <2>1. N - 1 \in Used
    BY <1>1, NAssumption DEF Slots
  <2>2. PICK i \in Used : lru[i] = N - 1
    BY <2>1 DEF IInv, Ranking
  <2>3. i \in Victims
    BY <2>2 DEF Victims, Used
  <2> QED
    BY <1>1, <2>3, LeastSlot DEF Victims
<1>2. CASE Used # Slots
  <2>1. PICK e \in Slots : plan[e] = None
    BY <1>2 DEF Used
  <2>2. e \in Victims /\ Victims \in SUBSET Slots
    BY <2>1 DEF Victims
  <2>3. v \in Victims /\ \A j \in Victims : v <= j
    BY <2>2, LeastSlot
  <2>4. plan[v] = None
    <3> SUFFICES ASSUME plan[v] # None
                 PROVE  FALSE
      OBVIOUS
    <3>1. v \in Used /\ lru[v] = N - 1 /\ N - 1 \in Used
      BY <2>3 DEF Victims, Used, IInv, Ranking
    <3>2. e < N - 1 \/ e = N - 1
      BY <2>1, NAssumption DEF Slots
    <3> QED
      BY <2>1, <3>1, <3>2 DEF IInv, Ranking, Used
  <2>5. Used = {i \in Slots : i < v}
    <3>1. ASSUME NEW i \in Used PROVE i < v
      <4>1. i \in Slots /\ v \in Slots /\ v \notin Used
        BY <2>3, <2>4 DEF Used, Victims
      <4>2. ~(v < i) /\ v # i
        BY <3>1, <4>1 DEF IInv, Ranking
      <4> QED
        BY <4>1, <4>2, NAssumption DEF Slots
    <3>2. ASSUME NEW i \in Slots, i < v PROVE i \in Used
      <4>1. i \notin Victims
        BY <2>3, <3>2, NAssumption DEF Victims, Slots
      <4> QED
        BY <4>1 DEF Victims, Used
    <3> QED
      BY <3>1, <3>2 DEF Used
  <2> QED
    BY <2>2, <2>3, <2>4, <2>5
<1> QED
  BY <1>1, <1>2

\* A hit permutes the ranks up to that of the plan it finds.
LEMMA HitPreserves ==
  ASSUME IInv, NEW p \in Params, Hit(p)
  PROVE  IInv'
<1> DEFINE m == Least(Matches(p))
<1>0. Matches(p) \in SUBSET Slots /\ Matches(p) # {}
  BY DEF Matches, Reached, Hit
<1>1. m \in Matches(p)
  BY <1>0, LeastSlot
<1>2. m \in Slots /\ m \in Used
  BY <1>1, NAssumption DEF Matches, Reached, Used, Slots
<1>3. plan' = plan /\ Used' = Used
  BY DEF Hit, Used
<1>4. lru' = [i \in Slots |-> IF i = m THEN 0
                              ELSE IF lru[i] < lru[m] THEN lru[i] + 1 ELSE lru[i]]
  BY DEF Hit
<1>5. TypeOK'
  BY <1>3, <1>4 DEF IInv, TypeOK, Hit
<1>6. Ranking'
  <2>1. \A i \in Used : lru[i] \in Used /\ lru[i] \in Nat /\ i \in Slots
    BY DEF IInv, Ranking, Used, TypeOK
  <2>2. \A i, j \in Used : lru'[i] = lru'[j] => i = j
    BY <1>2, <1>4, <2>1, SMTT(30) DEF IInv, Ranking
  <2>3. \A i \in Used, j \in Slots : j < i => j \in Used
    BY DEF IInv, Ranking
  <2>4. 0 \in Used
    BY <1>2, <2>3, NAssumption DEF Slots
  <2>5. \A i \in Used : lru'[i] \in Used
    <3> SUFFICES ASSUME NEW i \in Used PROVE lru'[i] \in Used
      OBVIOUS
    <3>1. CASE i # m /\ lru[i] < lru[m]
      <4>1. lru'[i] = lru[i] + 1 /\ lru[i] + 1 <= lru[m] /\ lru[m] \in Used
        BY <1>2, <1>4, <2>1, <3>1
      <4>2. lru[i] + 1 \in Slots
        BY <4>1, <2>1, NAssumption DEF Slots, Used
      <4> QED
        BY <4>1, <4>2, <2>1, <2>3, <1>2
    <3> QED
      BY <1>2, <1>4, <2>1, <2>4, <3>1
  <2>6. \A r \in Used : \E i \in Used : lru'[i] = r
    <3> SUFFICES ASSUME NEW r \in Used PROVE \E i \in Used : lru'[i] = r
      OBVIOUS
    <3>0. r \in Nat /\ r \in Slots
      BY NAssumption DEF Used, Slots
    <3>1. CASE r = 0
      BY <1>2, <1>4, <3>1
    <3>2. CASE r # 0 /\ r <= lru[m]
      <4>1. r - 1 \in Slots /\ r - 1 < r
        BY <3>0, <3>2, NAssumption DEF Slots
      <4>2. r - 1 \in Used
        BY <4>1, <2>3
      <4>3. PICK i \in Used : lru[i] = r - 1
        BY <4>2 DEF IInv, Ranking
      <4>4. i \in Slots /\ lru[m] \in Nat
        BY <1>2, <2>1
      <4>5. lru[i] < lru[m] /\ lru[i] + 1 = r
        BY <3>0, <3>2, <4>3, <4>4
      <4>6. i # m
        BY <4>4, <4>5
      <4>7. lru'[i] = r
        BY <1>4, <4>4, <4>5, <4>6
      <4> QED
        BY <4>7
    <3>3. CASE r > lru[m]
      <4>1. PICK i \in Used : lru[i] = r
        BY DEF IInv, Ranking
      <4> QED
        BY <4>1, <3>3, <1>2, <1>4, <2>1
    <3>4. lru[m] \in Nat
      BY <1>2, <2>1
    <3>5. r = 0 \/ (r # 0 /\ r <= lru[m]) \/ r > lru[m]
      BY <3>0, <3>4
    <3> QED
      BY <3>1, <3>2, <3>3, <3>5
  <2> QED
    BY <1>3, <2>2, <2>3, <2>5, <2>6 DEF Ranking
<1>7. NoDuplicate'
  BY <1>3 DEF IInv, NoDuplicate
<1> QED
  BY <1>5, <1>6, <1>7 DEF IInv

\* What a miss does to the ranks, whichever kind its victim is: the victim
\* gets rank 0 and every other plan is one older.
LEMMA MissShifts ==
  ASSUME IInv, NEW p \in Params, Miss(p)
  PROVE  LET v == Least(Victims)
         IN /\ v \in Slots
            /\ lru'[v] = 0
            /\ Used' = Used \union {v}
            /\ \A i \in Used : i # v => lru'[i] = lru[i] + 1
            /\ \A i \in Used : i # v => lru[i] + 1 \in Used'
            /\ \A r \in Used' : r # 0 => r - 1 \in Used
            /\ Used = Slots => lru[v] = N - 1
            /\ Used # Slots => v \notin Used
            /\ lru' \in [Slots -> Nat]
<1> DEFINE v == Least(Victims)
<1> HIDE DEF v
<1>1. v \in Victims /\ v \in Slots
  BY VictimKinds DEF v, Victims
<1>2. /\ plan' = [plan EXCEPT ![v] = p]
      /\ lru' = [i \in Slots |->
                   IF i = v THEN 0
                   ELSE IF i \in After(v) /\ Scanned(v, v) # 0 THEN lru[i] + 1
                   ELSE Scanned(v, i)]
  BY DEF Miss, v
<1>3. lru'[v] = 0
  BY <1>1, <1>2
<1>4. Used' = Used \union {v}
  BY <1>1, <1>2, NoneAssumption DEF Used, IInv, TypeOK
<1>5. \A i \in Slots : lru[i] \in Nat
  BY DEF IInv, TypeOK
<1>6. \A i \in Slots : Scanned(v, i) \in Nat
  BY <1>1, <1>5, NAssumption DEF Scanned, Slots
<1>7. lru' \in [Slots -> Nat]
  BY <1>2, <1>5, <1>6
<1>8. CASE Used = Slots
  <2>1. plan[v] # None /\ lru[v] = N - 1
    BY <1>1, <1>8 DEF Used, Victims
  <2>2. Scanned(v, v) = N - 1
    BY <1>1, <2>1, NAssumption DEF Scanned, Slots
  <2>3. ASSUME NEW i \in Slots, i # v
        PROVE  lru'[i] = lru[i] + 1 /\ lru[i] + 1 \in Slots
    <3>1. lru[i] \in Slots /\ lru[i] # N - 1
      BY <1>1, <1>8, <2>1, <2>3 DEF IInv, Ranking
    <3>2. lru[i] + 1 \in Slots /\ N - 1 # 0
      BY <3>1, NAssumption DEF Slots
    <3>3. CASE i < v
      <4>1. i \notin After(v)
        BY <1>1, <3>3, NAssumption DEF After, Slots
      <4> QED
        BY <1>2, <2>3, <3>2, <3>3, <4>1 DEF Scanned
    <3>4. CASE v < i
      <4>1. \A j \in Slots : v < j /\ j <= i => plan[j] # None
        BY <1>8 DEF Used
      <4>2. i \in After(v)
        BY <3>4, <4>1 DEF After
      <4> QED
        BY <1>2, <2>2, <2>3, <3>2, <4>2
    <3> QED
      BY <1>1, <2>3, <3>2, <3>3, <3>4, NAssumption DEF Slots
  <2>4. \A r \in Slots : r # 0 => r - 1 \in Slots
    BY NAssumption DEF Slots
  <2> QED
    BY <1>1, <1>3, <1>4, <1>7, <1>8, <2>1, <2>3, <2>4 DEF v
<1>9. CASE Used # Slots
  <2>1. plan[v] = None /\ Used = {i \in Slots : i < v}
    BY <1>9, VictimKinds DEF v
  <2>2. v \notin Used
    BY <2>1 DEF Used
  <2>3. ASSUME NEW i \in Used
        PROVE  lru'[i] = lru[i] + 1 /\ lru[i] + 1 \in Used'
    <3>1. i \in Slots /\ i < v /\ i # v
      BY <2>1, <2>2, <2>3
    <3>2. i \notin After(v)
      BY <1>1, <3>1, NAssumption DEF After, Slots
    <3>3. lru'[i] = lru[i] + 1
      BY <1>2, <3>1, <3>2 DEF Scanned
    <3>4. lru[i] \in Slots /\ lru[i] < v
      BY <2>1, <2>3 DEF IInv, Ranking
    <3>5. lru[i] + 1 \in Slots /\ (lru[i] + 1 < v \/ lru[i] + 1 = v)
      BY <1>1, <3>4, NAssumption DEF Slots
    <3> QED
      BY <1>4, <2>1, <3>3, <3>5
  <2>4. ASSUME NEW r \in Used', r # 0
        PROVE  r - 1 \in Used
    <3>1. r \in Slots /\ (r < v \/ r = v)
      BY <1>1, <1>4, <2>1, <2>4
    <3>2. r - 1 \in Slots /\ r - 1 < v
      BY <1>1, <2>4, <3>1, NAssumption DEF Slots
    <3> QED
      BY <2>1, <3>2
  <2> QED
    BY <1>1, <1>3, <1>4, <1>7, <1>9, <2>2, <2>3, <2>4 DEF v
<1> QED
  BY <1>8, <1>9

\* A miss keeps the cache a ranking without doubles: it takes place only if
\* no plan of the cache has the parameters of the new one.
LEMMA MissPreserves ==
  ASSUME IInv, NEW p \in Params, Miss(p)
  PROVE  IInv'
<1> DEFINE v == Least(Victims)
<1> HIDE DEF v
<1>1. /\ v \in Slots
      /\ lru'[v] = 0
      /\ Used' = Used \union {v}
      /\ \A i \in Used : i # v => lru'[i] = lru[i] + 1
      /\ \A i \in Used : i # v => lru[i] + 1 \in Used'
      /\ \A r \in Used' : r # 0 => r - 1 \in Used
      /\ Used = Slots => lru[v] = N - 1
      /\ Used # Slots => v \notin Used
      /\ lru' \in [Slots -> Nat]
  BY MissShifts DEF v
<1>2. plan' = [plan EXCEPT ![v] = p] /\ last' = <<p>>
  BY DEF Miss, v
<1>3. TypeOK'
  BY <1>1, <1>2 DEF IInv, TypeOK
<1>4. \A i \in Used : lru[i] \in Nat /\ lru[i] \in Used /\ i \in Slots
  BY DEF IInv, Ranking, TypeOK, Used
<1>5. 0 \in Used'
  <2>1. \A i \in Slots, j \in Used' : i < j => i \in Used'
    <3> SUFFICES ASSUME NEW i \in Slots, NEW j \in Used', i < j
                 PROVE  i \in Used'
      OBVIOUS
    <3>1. CASE j \in Used
      BY <1>1, <3>1 DEF IInv, Ranking
    <3>2. CASE Used = Slots
      BY <1>1, <3>2
    <3>3. CASE j = v /\ Used # Slots
      BY <1>1, <3>3, VictimKinds DEF v
    <3> QED
      BY <1>1, <3>1, <3>2, <3>3
  <2>2. v \in Used' /\ 0 \in Slots /\ (v = 0 \/ 0 < v)
    BY <1>1, NAssumption DEF Slots
  <2> QED
    BY <2>1, <2>2
<1>6. Ranking'
  <2>1. \A i \in Used', j \in Slots : j < i => j \in Used'
    <3> SUFFICES ASSUME NEW i \in Used', NEW j \in Slots, j < i
                 PROVE  j \in Used'
      OBVIOUS
    <3>1. CASE i \in Used
      BY <1>1, <3>1 DEF IInv, Ranking
    <3>2. CASE Used = Slots
      BY <1>1, <3>2
    <3>3. CASE i = v /\ Used # Slots
      BY <1>1, <3>3, VictimKinds DEF v
    <3> QED
      BY <1>1, <3>1, <3>2, <3>3
  <2>2. \A i, j \in Used' : lru'[i] = lru'[j] => i = j
    <3> SUFFICES ASSUME NEW i \in Used', NEW j \in Used', lru'[i] = lru'[j]
                 PROVE  i = j
      OBVIOUS
    <3>1. \A k \in Used : k # v => lru'[k] = lru[k] + 1 /\ lru[k] \in Nat
      BY <1>1, <1>4
    <3>2. \A k \in Used' : k = v \/ (k # v /\ k \in Used)
      BY <1>1
    <3>3. CASE i # v /\ j # v
      BY <3>1, <3>2, <3>3 DEF IInv, Ranking
    <3> QED
      BY <1>1, <3>1, <3>2, <3>3
  <2>3. \A i \in Used' : lru'[i] \in Used'
    BY <1>1, <1>5
  <2>4. \A r \in Used' : \E i \in Used' : lru'[i] = r
    <3> SUFFICES ASSUME NEW r \in Used', r # 0
                 PROVE  \E i \in Used' : lru'[i] = r
      BY <1>1
    <3>1. PICK i \in Used : lru[i] = r - 1
      BY <1>1 DEF IInv, Ranking
    <3>2. r \in Slots
      BY <1>1, <1>4
    <3>3. i # v
      <4>1. CASE Used = Slots
        BY <1>1, <3>1, <3>2, <4>1, NAssumption DEF Slots
      <4>2. CASE Used # Slots
        BY <1>1, <3>1, <4>2
      <4> QED
        BY <4>1, <4>2
    <3>4. lru'[i] = r
      BY <1>1, <3>1, <3>2, <3>3, NAssumption DEF Slots
    <3> QED
      BY <1>1, <3>4
  <2> QED
    BY <2>1, <2>2, <2>3, <2>4 DEF Ranking
<1>7. NoDuplicate'
  <2>1. \A i \in Used : i \in Reached
    BY DEF IInv, Ranking, Used, Reached, Slots
  <2>2. \A i \in Used : plan[i] # p
    BY <2>1 DEF Miss, Matches
  <2>3. \A i \in Used' : plan'[i] = IF i = v THEN p ELSE plan[i]
    BY <1>1, <1>2, <1>4 DEF IInv, TypeOK
  <2> QED
    BY <1>1, <2>2, <2>3 DEF IInv, NoDuplicate
<1> QED
  BY <1>3, <1>6, <1>7 DEF IInv

\* The invariant holds in every reachable state.
LEMMA Invariant == Spec => []IInv
<1>1. Init => IInv
  <2> SUFFICES ASSUME Init PROVE IInv
    OBVIOUS
  <2>1. Used = {}
    BY DEF Init, Used
  <2> QED
    BY <2>1 DEF Init, IInv, TypeOK, Ranking, NoDuplicate
<1>2. IInv /\ [Next]_vars => IInv'
  <2> SUFFICES ASSUME IInv, [Next]_vars PROVE IInv'
    OBVIOUS
  <2>1. CASE \E p \in Params : Hit(p)
    BY <2>1, HitPreserves
  <2>2. CASE \E p \in Params : Miss(p)
    BY <2>2, MissPreserves
  <2>3. CASE UNCHANGED vars
    BY <2>3 DEF vars, IInv, TypeOK, Ranking, NoDuplicate, Used
  <2> QED
    BY <2>1, <2>2, <2>3 DEF Next, Get
<1> QED
  BY <1>1, <1>2, PTL DEF Spec

\* Type correctness: in particular no LRU index is ever negative.
THEOREM TypeCorrect == Spec => []TypeOK
<1>1. IInv => TypeOK
  BY DEF IInv
<1> QED
  BY <1>1, Invariant, PTL

\* Of n plans, one has each of the ranks 0 .. n-1, and they fill the first n
\* slots: what the two loops of get_cufft_plan rely on to stop early.
THEOREM RankingHolds == Spec => []Ranking
<1>1. IInv => Ranking
  BY DEF IInv
<1> QED
  BY <1>1, Invariant, PTL

\* assert(plan_index != -1) in get_cufft_plan never fails.
THEOREM AssertionHolds == Spec => []VictimFound
<1>1. IInv => VictimFound
  BY VictimKinds DEF VictimFound
<1> QED
  BY <1>1, Invariant, PTL

\* The same parameters never have two plans.
THEOREM PlansDiffer == Spec => []NoDuplicate
<1>1. IInv => NoDuplicate
  BY DEF IInv
<1> QED
  BY <1>1, Invariant, PTL

---------------------------------------------------------------------------
(* The slots implement a list in the order of last use. *)

\* The n plans are in the first n slots, and the list has plan[i] at position
\* lru[i] + 1.
ListShape ==
  \E n \in 0..N :
    /\ Used = 0..(n - 1)
    /\ Listed \in Seq(Params) /\ Len(Listed) = n
    /\ \A i \in Used : lru[i] \in 0..(n - 1) /\ Listed[lru[i] + 1] = plan[i]
    /\ \A k \in 1..n : \E i \in Used : lru[i] = k - 1

\* The ranks make the plans a list without gaps.
LEMMA ListHasShape == IInv => ListShape
<1> SUFFICES ASSUME IInv PROVE ListShape
  OBVIOUS
<1>0. /\ Used \subseteq Slots /\ Slots \subseteq Nat
      /\ \A i \in Used : plan[i] \in Params /\ lru[i] \in Used
  BY NAssumption, NoneAssumption DEF IInv, TypeOK, Ranking, Used, Slots
<1>1. PICK n \in 0..N : Used = 0..(n - 1)
  <2>1. CASE Used = Slots
    <3>1. Used = 0..(N - 1) /\ N \in 0..N
      BY <2>1, NAssumption DEF Slots
    <3> QED
      BY <3>1
  <2>2. CASE Used # Slots
    <3> DEFINE v == Least(Victims)
    <3> HIDE DEF v
    <3>1. v \in Slots /\ Used = {i \in Slots : i < v}
      BY <2>2, VictimKinds DEF v, Victims
    <3>2. v \in 0..N /\ Used = 0..(v - 1)
      BY <3>1, NAssumption DEF Slots
    <3> QED
      BY <3>2
  <2> QED
    BY <2>1, <2>2
<1>2. Ranked = Used
  <2>1. Ranked \subseteq Used
    BY <1>0 DEF Ranked
  <2>2. \A r \in Used : r \in Slots /\ \E i \in Used : lru[i] = r
    BY <1>0 DEF IInv, Ranking
  <2> QED
    BY <2>1, <2>2 DEF Ranked
<1>3. \A r \in Used : SlotOfRank(r) \in Used /\ lru[SlotOfRank(r)] = r
  BY DEF IInv, Ranking, SlotOfRank
<1>4. {r + 1 : r \in Ranked} = 1..n
  <2>1. \A k \in 1..n : k - 1 \in Used /\ k = (k - 1) + 1
    BY <1>1
  <2>2. \A r \in Used : r + 1 \in 1..n
    BY <1>1
  <2> QED
    BY <1>2, <2>1, <2>2
<1>5. Listed = [k \in 1..n |-> plan[SlotOfRank(k - 1)]]
  BY <1>4 DEF Listed
<1>6. \A k \in 1..n : k - 1 \in Used
  BY <1>1
<1>7. Listed \in Seq(Params) /\ Len(Listed) = n
  <2>1. \A k \in 1..n : plan[SlotOfRank(k - 1)] \in Params
    BY <1>0, <1>3, <1>6
  <2> QED
    BY <1>5, <2>1
<1>8. ASSUME NEW i \in Used
      PROVE  lru[i] \in 0..(n - 1) /\ Listed[lru[i] + 1] = plan[i]
  <2>1. lru[i] \in 0..(n - 1) /\ lru[i] \in Used
    BY <1>0, <1>1
  <2>2. lru[i] + 1 \in 1..n /\ (lru[i] + 1) - 1 = lru[i]
    BY <2>1
  <2>3. SlotOfRank(lru[i]) = i
    BY <1>3, <2>1 DEF IInv, Ranking
  <2>4. Listed[lru[i] + 1] = plan[SlotOfRank((lru[i] + 1) - 1)]
    BY <1>5, <2>2
  <2> QED
    BY <2>1, <2>2, <2>3, <2>4
<1>9. \A k \in 1..n : \E i \in Used : lru[i] = k - 1
  BY <1>3, <1>6
<1> QED
  BY <1>1, <1>7, <1>8, <1>9 DEF ListShape

LEMMA ListKeepsShape == IInv' => ListShape'
BY ListHasShape, PTL

\* A sequence with p in front of another one.
LEMMA Pushed ==
  ASSUME NEW p \in Params, NEW u \in Seq(Params), NEW t \in Seq(Params),
         Len(t) = Len(u) + 1, t[1] = p,
         \A k \in 2..Len(t) : t[k] = u[k - 1]
  PROVE  t = <<p>> \o u
<1> DEFINE q == <<p>> \o u
<1>1. <<p>> \in Seq(Params) /\ Len(<<p>>) = 1 /\ <<p>>[1] = p
  OBVIOUS
<1>2. /\ q \in Seq(Params) /\ Len(q) = 1 + Len(u)
      /\ \A k \in 1..(1 + Len(u)) : q[k] = IF k <= 1 THEN p ELSE u[k - 1]
  BY <1>1, ConcatProperties
<1> HIDE DEF q
<1>3. Len(t) = Len(q)
  BY <1>2
<1>4. ASSUME NEW k \in 1..Len(t)
      PROVE  t[k] = q[k]
  <2>1. CASE k = 1
    BY <1>2, <2>1
  <2>2. CASE k \in 2..Len(t)
    BY <1>2, <2>2
  <2> QED
    BY <2>1, <2>2
<1>5. t = q
  BY <1>2, <1>3, <1>4, SeqEqual
<1> QED
  BY <1>5 DEF q

\* Without the entry at position m, the later ones move up.
LEMMA WithoutOne ==
  ASSUME NEW s \in Seq(Params), NEW m \in 1..Len(s),
         \A j \in 1..Len(s) : s[j] = s[m] => j = m
  PROVE  LET w == List!Without(s, s[m])
         IN /\ w \in Seq(Params) /\ Len(w) = Len(s) - 1
            /\ \A i \in 1..(Len(s) - 1) : w[i] = IF m <= i THEN s[i + 1] ELSE s[i]
<1> DEFINE w == List!Without(s, s[m])
<1>1. \A i \in 1..(Len(s) - 1) : (\E j \in 1..i : s[j] = s[m]) <=> m <= i
  <2> TAKE i \in 1..(Len(s) - 1)
  <2>1. 1..i \subseteq 1..Len(s) /\ m \in Nat /\ m >= 1
    OBVIOUS
  <2>2. m <= i => m \in 1..i
    BY <2>1
  <2>3. ASSUME NEW j \in 1..i, s[j] = s[m]
        PROVE  m <= i
    BY <2>1, <2>3
  <2> QED
    BY <2>2, <2>3
<1>2. w = [i \in 1..(Len(s) - 1) |-> IF m <= i THEN s[i + 1] ELSE s[i]]
  BY <1>1 DEF List!Without
<1> HIDE DEF w
<1>3. w \in Seq(Params) /\ Len(w) = Len(s) - 1
  BY <1>2
<1> QED
  BY <1>2, <1>3 DEF w

\* A hit moves the plan to the front of the list.
LEMMA HitIsGet ==
  ASSUME IInv, IInv', ListShape, ListShape', NEW p \in Params, Hit(p)
  PROVE  List!Get(p)
<1> DEFINE m == Least(Matches(p))
           s == Listed
           t == Listed'
<1>1. m \in Slots /\ m \in Used /\ plan[m] = p /\ Used \subseteq Slots
  <2>1. Matches(p) \subseteq Slots /\ Matches(p) # {}
    BY DEF Hit, Matches, Reached
  <2>2. m \in Matches(p)
    BY <2>1, LeastSlot
  <2> QED
    BY <2>1, <2>2, NoneAssumption DEF Matches, Used
<1>2. /\ \A i \in Slots : lru'[i] = IF i = m THEN 0
                                    ELSE IF lru[i] < lru[m] THEN lru[i] + 1 ELSE lru[i]
      /\ plan' = plan /\ last' = <<p>>
  BY DEF Hit
<1>3. Used' = Used
  BY <1>2 DEF Used
<1> HIDE DEF m
<1>4. PICK n \in 0..N :
        /\ Used = 0..(n - 1)
        /\ s \in Seq(Params) /\ Len(s) = n
        /\ \A i \in Used : lru[i] \in 0..(n - 1) /\ s[lru[i] + 1] = plan[i]
        /\ \A k \in 1..n : \E i \in Used : lru[i] = k - 1
  BY DEF ListShape
<1>5. /\ t \in Seq(Params) /\ Len(t) = n
      /\ \A i \in Used : lru'[i] \in 0..(n - 1) /\ t[lru'[i] + 1] = plan[i]
  <2>1. PICK o \in 0..N :
          /\ Used' = 0..(o - 1)
          /\ t \in Seq(Params) /\ Len(t) = o
          /\ \A i \in Used' : lru'[i] \in 0..(o - 1) /\ t[lru'[i] + 1] = plan'[i]
    BY DEF ListShape
  <2>2. 0..(o - 1) = 0..(n - 1) /\ n \in Nat /\ o \in Nat
    BY <1>3, <1>4, <2>1, NAssumption
  <2>3. o = n
    BY <2>2
  <2> QED
    BY <1>2, <1>3, <2>1, <2>3
<1> HIDE DEF s, t
<1> DEFINE pos == lru[m] + 1
<1>6. pos \in 1..Len(s) /\ s[pos] = p
  BY <1>1, <1>4
<1>7. \A j \in 1..Len(s) : s[j] = s[pos] => j = pos
  <2> SUFFICES ASSUME NEW j \in 1..Len(s), s[j] = p PROVE j = pos
    BY <1>6
  <2>1. PICK i \in Used : lru[i] = j - 1
    BY <1>4
  <2>2. plan[i] = p
    BY <1>4, <2>1
  <2>3. i = m
    BY <1>1, <2>2 DEF IInv, NoDuplicate
  <2> QED
    BY <2>1, <2>3
<1>8. t[1] = p
  BY <1>1, <1>2, <1>5
<1> HIDE DEF pos
<1> DEFINE w == List!Without(s, s[pos])
<1>9. /\ w \in Seq(Params) /\ Len(w) = n - 1
      /\ \A i \in 1..(n - 1) : w[i] = IF pos <= i THEN s[i + 1] ELSE s[i]
  BY <1>4, <1>6, <1>7, WithoutOne
<1> HIDE DEF w
<1>10. ASSUME NEW k \in 2..n
       PROVE  t[k] = w[k - 1]
  <2>1. k - 1 \in 1..(n - 1) /\ k - 1 \in 1..n /\ k \in 1..n
    OBVIOUS
  <2>2. w[k - 1] = IF pos <= k - 1 THEN s[k] ELSE s[k - 1]
    BY <1>9, <2>1
  <2>3. CASE pos <= k - 1
    <3>1. PICK i \in Used : lru[i] = k - 1
      BY <1>4, <2>1
    <3>2. ~(lru[i] < lru[m]) /\ i # m
      BY <1>1, <1>4, <2>3, <3>1 DEF pos
    <3>3. lru'[i] = k - 1
      BY <1>1, <1>2, <3>1, <3>2
    <3>4. lru[i] + 1 = k /\ lru'[i] + 1 = k
      BY <3>1, <3>3
    <3>5. s[k] = plan[i] /\ t[k] = plan[i]
      BY <1>4, <1>5, <3>4
    <3> QED
      BY <2>2, <2>3, <3>5
  <2>4. CASE ~(pos <= k - 1)
    <3>1. PICK i \in Used : lru[i] = (k - 1) - 1
      BY <1>4, <2>1
    <3>2. lru[i] < lru[m] /\ i # m
      BY <1>1, <1>4, <2>4, <3>1 DEF pos
    <3>3. lru'[i] = k - 1
      BY <1>1, <1>2, <3>1, <3>2
    <3>4. lru[i] + 1 = k - 1 /\ lru'[i] + 1 = k
      BY <3>1, <3>3
    <3>5. s[k - 1] = plan[i] /\ t[k] = plan[i]
      BY <1>4, <1>5, <3>4
    <3> QED
      BY <2>2, <2>4, <3>5
  <2> QED
    BY <2>3, <2>4
<1>11. t = <<p>> \o w
  <2>1. Len(t) = Len(w) + 1
    BY <1>4, <1>5, <1>9
  <2> QED
    BY <1>5, <1>8, <1>9, <1>10, <2>1, Pushed
<1>12. List!Held(p)
  BY <1>4, <1>6 DEF List!Held, s
<1> QED
  BY <1>2, <1>6, <1>11, <1>12 DEF List!Get, s, t, w

\* A miss puts the new plan in front, and drops the last one of a full list.
LEMMA MissIsGet ==
  ASSUME IInv, IInv', ListShape, ListShape', NEW p \in Params, Miss(p)
  PROVE  List!Get(p)
<1> DEFINE v == Least(Victims)
           s == Listed
           t == Listed'
<1>1. /\ v \in Slots
      /\ lru'[v] = 0
      /\ Used' = Used \union {v}
      /\ \A i \in Used : i # v => lru'[i] = lru[i] + 1
      /\ Used = Slots => lru[v] = N - 1
      /\ Used # Slots => v \notin Used
  BY MissShifts
<1>2. plan' = [plan EXCEPT ![v] = p] /\ last' = <<p>>
  BY DEF Miss
<1> HIDE DEF v
<1>3. Used \subseteq Slots /\ plan'[v] = p /\ \A i \in Used : i # v => plan'[i] = plan[i]
  BY <1>1, <1>2 DEF IInv, TypeOK, Used
<1>4. PICK n \in 0..N :
        /\ Used = 0..(n - 1)
        /\ s \in Seq(Params) /\ Len(s) = n
        /\ \A i \in Used : lru[i] \in 0..(n - 1) /\ s[lru[i] + 1] = plan[i]
        /\ \A k \in 1..n : \E i \in Used : lru[i] = k - 1
  BY DEF ListShape
<1>5. PICK o \in 0..N :
        /\ Used' = 0..(o - 1)
        /\ t \in Seq(Params) /\ Len(t) = o
        /\ \A i \in Used' : lru'[i] \in 0..(o - 1) /\ t[lru'[i] + 1] = plan'[i]
  BY DEF ListShape
<1> HIDE DEF s, t
<1>6. t[1] = p
  BY <1>1, <1>3, <1>5
<1>7. ~List!Held(p)
  <2>1. \A i \in Used : plan[i] # p
    <3>1. \A i \in Used : i \in Reached
      BY DEF IInv, Ranking, Used, Reached, Slots
    <3> QED
      BY <3>1 DEF Miss, Matches
  <2>2. ASSUME NEW k \in 1..n
        PROVE  s[k] # p
    <3>1. PICK i \in Used : lru[i] = k - 1
      BY <1>4
    <3>2. lru[i] + 1 = k
      BY <3>1
    <3> QED
      BY <1>4, <2>1, <3>2
  <2>3. DOMAIN s = 1..n
    BY <1>4
  <2> QED
    BY <2>2, <2>3 DEF List!Held, s
<1> DEFINE u == List!Kept
<1>8. /\ o \in Nat \ {0} /\ u \in Seq(Params) /\ Len(u) = o - 1
      /\ \A k \in 1..(o - 1) : u[k] = s[k] /\ k \in 1..n
      /\ \A k \in 1..(o - 1) : \A i \in Used : lru[i] = k - 1 => i # v
  <2>1. CASE Used = Slots
    <3>1. n = N /\ o = N
      <4>1. Used' = Slots
        BY <1>1, <2>1
      <4>2. 0..(n - 1) = 0..(N - 1) /\ 0..(o - 1) = 0..(N - 1)
        BY <1>4, <1>5, <2>1, <4>1 DEF Slots
      <4>3. n \in Nat /\ o \in Nat /\ N \in Nat /\ N > 0
        BY NAssumption
      <4> QED
        BY <4>2, <4>3
    <3>2. u = SubSeq(s, 1, N - 1)
      BY <1>4, <3>1 DEF List!Kept, s
    <3>3. u \in Seq(Params) /\ Len(u) = N - 1 /\ \A k \in 1..(N - 1) : u[k] = s[k]
      BY <1>4, <3>1, <3>2, NAssumption
    <3>4. \A k \in 1..(N - 1) : k - 1 # N - 1 /\ k \in 1..N
      BY NAssumption
    <3> HIDE DEF u
    <3> QED
      BY <1>1, <2>1, <3>1, <3>3, <3>4, NAssumption
  <2>2. CASE Used # Slots
    <3>1. v \notin Used /\ v \in Used'
      BY <1>1, <2>2
    <3>2. v = n
      <4>1. Used = {i \in Slots : i < v}
        BY <2>2, VictimKinds DEF v
      <4>2. v \in Nat /\ n \in Nat /\ v \notin 0..(n - 1)
        BY <1>1, <1>4, <3>1 DEF Slots
      <4>3. n \notin Used
        BY <1>4, <4>2
      <4>4. ~(n < v)
        BY <1>1, <4>1, <4>2, <4>3, NAssumption DEF Slots
      <4> QED
        BY <4>2, <4>4
    <3>3. n \in Nat /\ o \in Nat /\ n # N
      BY <1>1, <3>2, NAssumption DEF Slots
    <3>4. o = n + 1
      <4>1. n \in 0..(o - 1)
        BY <1>5, <3>1, <3>2
      <4>2. n + 1 \notin 0..(o - 1)
        <5>1. n + 1 \notin Used /\ n + 1 # v
          BY <1>4, <3>2, <3>3
        <5>2. n + 1 \notin Used'
          BY <1>1, <5>1
        <5> QED
          BY <1>5, <5>2
      <4> QED
        BY <3>3, <4>1, <4>2
    <3>5. u = s
      BY <1>4, <3>3 DEF List!Kept, s
    <3> HIDE DEF u
    <3> QED
      BY <1>4, <3>1, <3>3, <3>4, <3>5
  <2> QED
    BY <2>1, <2>2
<1> HIDE DEF u
<1>9. ASSUME NEW k \in 2..o
      PROVE  t[k] = u[k - 1]
  <2>1. k - 1 \in 1..(o - 1)
    BY <1>8
  <2>2. PICK i \in Used : lru[i] = (k - 1) - 1
    BY <1>4, <1>8, <2>1
  <2>3. i # v /\ i \in Used'
    BY <1>1, <1>8, <2>1, <2>2
  <2>4. lru[i] + 1 = k - 1 /\ lru'[i] + 1 = k
    BY <1>1, <2>2, <2>3
  <2>5. s[k - 1] = plan[i] /\ t[k] = plan'[i]
    BY <1>4, <1>5, <2>3, <2>4
  <2> QED
    BY <1>3, <1>8, <2>1, <2>3, <2>5
<1>10. t = <<p>> \o u
  <2>1. Len(t) = Len(u) + 1
    BY <1>5, <1>8
  <2> QED
    BY <1>5, <1>6, <1>8, <1>9, <2>1, Pushed
<1> QED
  BY <1>2, <1>7, <1>10 DEF List!Get, t, u

\* The cache implements a list in the order of last use: after any sequence
\* of hits and misses get_cufft_plan evicts the plan that was not asked for
\* for longest, although it keeps no order but one index per slot.
THEOREM Implements == Spec => ImplementsList
<1>1. Init => List!Init
  <2> SUFFICES ASSUME Init PROVE List!Init
    OBVIOUS
  <2>1. Ranked = {} /\ last = <<>>
    BY DEF Init, Ranked, Used
  <2>2. Listed = <<>>
    BY <2>1 DEF Listed
  <2> QED
    BY <2>1, <2>2 DEF List!Init
<1>2. /\ IInv /\ IInv' /\ ListShape /\ ListShape' /\ [Next]_vars
      => [List!Next]_(List!vars)
  <2> SUFFICES ASSUME IInv, IInv', ListShape, ListShape', [Next]_vars
               PROVE  [List!Next]_(List!vars)
    OBVIOUS
  <2>1. CASE \E p \in Params : Get(p)
    BY <2>1, HitIsGet, MissIsGet DEF Get, List!Next
  <2>2. CASE UNCHANGED vars
    BY <2>2 DEF vars, List!vars, Listed, Ranked, SlotOfRank, Used
  <2> QED
    BY <2>1, <2>2 DEF Next
<1> QED
  BY <1>1, <1>2, Invariant, ListHasShape, PTL DEF Spec, ImplementsList, List!Spec
=============================================================================
