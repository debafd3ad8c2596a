----------------------------- MODULE PlanCache -----------------------------
(***************************************************************************)
(* cufftPlanCache (cudalibs.cu): the cuFFT plans of one rank and type, in  *)
(* MAX_PLANS slots with an LRU index each.  A cache belongs to one GPU     *)
(* processor, whose tasks run one after the other: a request is one step.  *)
(***************************************************************************)
EXTENDS Integers, Sequences

CONSTANTS
  Params,   \* parameters of plans
  N,        \* MAX_PLANS
  None      \* nullptr

ASSUME NAssumption == N \in Nat \ {0}
ASSUME NoneAssumption == None \notin Params

VARIABLES
  plan,     \* slot -> parameters of its plan
  lru,      \* slot -> lru_index
  last      \* history: the last request

vars == <<plan, lru, last>>

Slots == 0..(N - 1)
Least(S) == CHOOSE i \in S : \A j \in S : i <= j

\* Faulty variant: the first loop starts at slot 1.
ReachedFromOne == {i \in Slots : i > 0 /\ \A j \in Slots : j <= i => plan[j] # None}

\* The slots the first loop looks at: it stops at an empty one.
Reached == {i \in Slots : \A j \in Slots : j <= i => plan[j] # None}
Matches(p) == {i \in Reached : plan[i] = p}

\* Where the second loop breaks: an empty slot or the oldest plan.
Victims == {i \in Slots : plan[i] = None \/ lru[i] = N - 1}

Init ==
  /\ plan = [i \in Slots |-> None]
  /\ lru = [i \in Slots |-> 0]
  /\ last = <<>>

\* Faulty variant: a hit ages every other slot.
HitAgesAll(p) ==
  /\ Matches(p) # {}
  /\ LET m == Least(Matches(p))
     IN lru' = [i \in Slots |-> IF i = m THEN 0 ELSE lru[i] + 1]
  /\ last' = <<p>>
  /\ UNCHANGED plan

\* A hit ages the younger slots, the empty ones included.
Hit(p) ==
  /\ Matches(p) # {}
  /\ LET m == Least(Matches(p))
     IN lru' = [i \in Slots |->
                  IF i = m THEN 0
                  ELSE IF lru[i] < lru[m] THEN lru[i] + 1 ELSE lru[i]]
  /\ last' = <<p>>
  /\ UNCHANGED plan

\* Faulty variant: the loop counts down.
ScannedDown(v, i) ==
  IF i < v THEN lru[i] - 1
  ELSE IF i = v /\ plan[v] = None THEN v
  ELSE lru[i]

\* The index a slot has once the loop over slots 0 .. v has stopped at v.
Scanned(v, i) ==
  IF i < v THEN lru[i] + 1
  ELSE IF i = v /\ plan[v] = None THEN v
  ELSE lru[i]

\* Faulty variant: the slots after the victim do not age.
AfterNone(v) == {i \in Slots : i > v /\ i < v}

\* The slots after v up to the next empty one.
After(v) == {i \in Slots : i > v /\ \A j \in Slots : v < j /\ j <= i => plan[j] # None}

\* A miss: the loop ages the slots it passes, the slots after the victim age
\* unless the victim is a first plan, and the victim becomes the youngest.
Miss(p) ==
  /\ Matches(p) = {}
  /\ Victims # {}
  /\ LET v == Least(Victims)
     IN /\ plan' = [plan EXCEPT ![v] = p]
        /\ lru' = [i \in Slots |->
                     IF i = v THEN 0
                     ELSE IF i \in After(v) /\ Scanned(v, v) # 0 THEN lru[i] + 1
                     ELSE Scanned(v, i)]
  /\ last' = <<p>>

\* get_cufft_plan
Get(p) == Hit(p) \/ Miss(p)
Next == \E p \in Params : Get(p)
Spec == Init /\ [][Next]_vars

---------------------------------------------------------------------------
Used == {i \in Slots : plan[i] # None}

TypeOK ==
  /\ plan \in [Slots -> Params \union {None}]
  /\ lru \in [Slots -> Nat]
  /\ last \in {<<>>} \union {<<p>> : p \in Params}

\* assert(plan_index != -1): a miss always finds a slot to fill.
VictimFound == Victims # {}

\* The LRU indices of the plans are a ranking: of n plans, in the first n
\* slots, one has each index 0 .. n-1.
Ranking ==
  /\ \A i \in Used, j \in Slots : j < i => j \in Used
  /\ \A i, j \in Used : lru[i] = lru[j] => i = j
  /\ \A i \in Used : lru[i] \in Used
  /\ \A r \in Used : \E i \in Used : lru[i] = r

\* The same parameters never have two plans.
NoDuplicate == \A i, j \in Used : plan[i] = plan[j] => i = j

\* The slots implement a list in the order of last use: the plan evicted is
\* the one unused for longest, whatever the order of hits and misses.
SlotOfRank(r) == CHOOSE i \in Used : lru[i] = r
Ranked == {r \in Slots : \E i \in Used : lru[i] = r}
Listed == [k \in {r + 1 : r \in Ranked} |-> plan[SlotOfRank(k - 1)]]
List == INSTANCE LRUList WITH order <- Listed
ImplementsList == List!Spec
=============================================================================
