-------------------------- MODULE EagerThunkProofs --------------------------
(***************************************************************************)
(* Proofs that the trees of eager views convert as a whole and keep their  *)
(* memory (EagerThunk under TreeSpec), for any number of arrays, any sizes *)
(* and any keys.                                                           *)
(***************************************************************************)
EXTENDS EagerThunk, SequenceTheorems, TLAPS

---------------------------------------------------------------------------
(* The inductive invariant.  Its parts are stated of the pair d, o that    *)
(* stands for deferred, owner, because an operation first converts a tree  *)
(* and then works on the result.                                           *)

\* Where thunk t is once the deferred twins are d.
Place(d, t) == IF d[t] # None THEN d[t] ELSE [base |-> buf[t], cells |-> cells[t]]

Fields ==
  /\ kind \in [Thunks -> {"none", "eager", "deferred"}]
  /\ buf \in [Thunks -> Bufs \union {None}]
  /\ cells \in [Thunks -> Seq(Nat)]
  /\ root \in [Thunks -> Thunks]
  /\ path \in [Thunks -> Seq(Nat)]
  /\ own \in [Thunks -> Thunks]
  /\ escaped \in [Thunks -> BOOLEAN]
  /\ held \subseteq Bufs

\* Under TreeSpec each root has a buffer of its own.
RootsApart == \A t, u \in Eager : buf[t] = buf[u] => root[t] = root[u]

\* The trees: a thunk shows cells of its root's buffer, and only the thunks
\* of one tree show one buffer.  No child is copied when it is replayed.
Forest ==
  /\ \A t \in Eager :
       /\ root[t] \in Eager /\ root[root[t]] = root[t]
       /\ buf[t] \in Bufs /\ buf[root[t]] = buf[t]
       /\ cells[t] = Sel(cells[root[t]], path[t])
       /\ own[t] = root[t]
  /\ RootsApart
  /\ \A b \in held : \E t \in Eager : buf[t] = b /\ escaped[root[t]]

\* Twins and owners: a tree has twins or none, in the place it had before.
Twins(d, o) ==
  /\ d \in [Thunks -> Locations \union {None}]
  /\ o \in [Bufs -> Owners]
  /\ \A t \in Thunks : kind[t] = "none" => d[t] = None
  /\ \A t \in Thunks : kind[t] = "deferred" => d[t] # None
  /\ \A t \in Eager : d[t] = None <=> d[root[t]] = None
  /\ \A t \in Eager : d[t] = None => o[buf[t]] = "numpy"
  /\ \A t \in Eager : Place(d, t) = [base |-> buf[t], cells |-> cells[t]]
  /\ \A t \in Live : o[Place(d, t).base] # "free"
  /\ \A b \in held : o[b] # "donated"

\* Every array shows cells that its memory has.
Contents(d) ==
  /\ mem \in [Bufs -> Seq(Val)]
  /\ \A t \in Live : \A i \in DOMAIN Place(d, t).cells :
       Place(d, t).cells[i] \in DOMAIN mem[Place(d, t).base]

Inv(d, o) == Fields /\ Forest /\ Twins(d, o) /\ Contents(d)
IInv == Inv(deferred, owner)

---------------------------------------------------------------------------
(* Sequences *)

\* A function on 1..n is a sequence of length n.
LEMMA FunctionIsSeq ==
  ASSUME NEW S, NEW n \in Nat, NEW f \in [1..n -> S]
  PROVE  f \in Seq(S) /\ Len(f) = n /\ DOMAIN f = 1..n
<1>1. f \in Seq(S)
  BY SeqDef
<1> QED
  BY <1>1, LenProperties

\* A selection from s at valid positions is a sequence of the same type.
LEMMA SelIsSeq ==
  ASSUME NEW S, NEW s, NEW key \in Seq(Nat),
         \A i \in DOMAIN key : s[key[i]] \in S
  PROVE  Sel(s, key) \in Seq(S) /\ Len(Sel(s, key)) = Len(key)
<1>1. Len(key) \in Nat /\ DOMAIN key = 1..Len(key)
  BY LenProperties
<1>2. Sel(s, key) \in [1..Len(key) -> S]
  BY <1>1 DEF Sel
<1> QED
  BY <1>1, <1>2, FunctionIsSeq

LEMMA SelOfPositions ==
  ASSUME NEW s \in Seq(Nat), NEW key \in Seq(Nat),
         \A i \in DOMAIN key : key[i] \in 1..Len(s)
  PROVE  Sel(s, key) \in Seq(Nat) /\ Len(Sel(s, key)) = Len(key)
<1>1. \A i \in DOMAIN key : s[key[i]] \in Nat
  BY ElementOfSeq
<1> QED
  BY <1>1, SelIsSeq

\* Identity(n) selects everything.
LEMMA IdentityIsSeq ==
  ASSUME NEW n \in Nat
  PROVE  /\ Identity(n) \in Seq(Nat) /\ Len(Identity(n)) = n
         /\ DOMAIN Identity(n) = 1..n
         /\ \A i \in 1..n : Identity(n)[i] = i
         /\ Sel(Identity(n), Identity(n)) = Identity(n)
<1>1. Identity(n) \in [1..n -> Nat]
  BY DEF Identity
<1>2. Identity(n) \in Seq(Nat) /\ Len(Identity(n)) = n /\ DOMAIN Identity(n) = 1..n
  BY <1>1, FunctionIsSeq
<1>3. Sel(Identity(n), Identity(n)) = Identity(n)
  BY DEF Sel, Identity
<1> QED
  BY <1>2, <1>3 DEF Identity

---------------------------------------------------------------------------
(* Conversion *)

\* _convert_tree keeps the invariant and leaves every array in its place.
LEMMA Conversion ==
  ASSUME IInv, NEW t \in Eager, deferred[t] = None,
         NEW c, c = ConvertTree(t)
  PROVE  /\ Inv(c.deferred, c.owner)
         /\ \A u \in Live : Place(c.deferred, u) = Loc(u)
         /\ \A b \in Bufs : c.owner[b] = "free" <=> owner[b] = "free"
         /\ c.deferred[t] # None
         /\ c.mem = mem
<1> DEFINE r == root[t]
<1> USE DEF IInv, Inv
<1>1. /\ r \in Eager /\ root[r] = r /\ deferred[r] = None
      /\ buf[r] \in Bufs /\ owner[buf[r]] = "numpy"
  BY DEF Forest, Twins
<1>2. \A u \in Tree(t) :
        /\ u \in Eager /\ root[u] = r /\ buf[u] = buf[r] /\ deferred[u] = None
        /\ cells[u] = Sel(cells[r], path[u]) /\ own[u] = r
  BY <1>1 DEF Tree, Forest, Twins
<1>21. Heads(t) = {}
  BY <1>2 DEF Heads
<1>3. c.deferred = [u \in Thunks |-> IF u \in Tree(t)
                      THEN [base |-> buf[u], cells |-> cells[u]] ELSE deferred[u]]
  BY <1>2 DEF ConvertTree
<1>4. c.owner = [owner EXCEPT ![buf[r]] =
                   IF escaped[r] THEN "shared" ELSE "donated"]
  <2>1. c.owner = [b \in Bufs |->
                     IF b = buf[r] THEN IF escaped[r] THEN "shared" ELSE "donated"
                     ELSE owner[b]]
    BY <1>21 DEF ConvertTree
  <2> QED
    BY <1>1, <2>1 DEF Twins
<1>41. c.mem = mem
  <2>1. c.mem = [b \in Bufs |-> mem[b]]
    BY <1>21 DEF ConvertTree
  <2> QED
    BY <2>1 DEF Contents
<1>5. \A u \in Eager : u \in Thunks
  BY DEF Eager
<1>6. \A u \in Tree(t) : [base |-> buf[u], cells |-> cells[u]] \in Locations
  BY <1>1, <1>2, <1>5 DEF Locations, Fields
<1>7. \A u \in Tree(t) : c.deferred[u] = [base |-> buf[u], cells |-> cells[u]]
                         /\ c.deferred[u] # None
  BY <1>2, <1>3, <1>5, <1>6, NoneAssumption
<1>8. \A u \in Thunks : u \notin Tree(t) => c.deferred[u] = deferred[u]
  BY <1>3
<1>9. \A u \in Thunks : Place(c.deferred, u) = Place(deferred, u)
  BY <1>2, <1>7, <1>8 DEF Place
<1>10. \A u \in Eager : u \in Tree(t) <=> buf[u] = buf[r]
  BY <1>1, <1>2 DEF Tree, Forest, RootsApart
<1>11. Twins(c.deferred, c.owner)
  <2>1. c.deferred \in [Thunks -> Locations \union {None}]
    BY <1>3, <1>6, SMTT(30) DEF Twins
  <2>2. c.owner \in [Bufs -> Owners]
    BY <1>4 DEF Twins, Owners
  <2>3. \A u \in Tree(t) : kind[u] = "eager"
    BY <1>2 DEF Eager
  <2>4. \A u \in Thunks : /\ kind[u] = "none" => c.deferred[u] = None
                          /\ kind[u] = "deferred" => c.deferred[u] # None
    BY <1>8, <2>3 DEF Twins
  <2>5. \A u \in Eager : u \in Tree(t) <=> root[u] \in Tree(t)
    BY DEF Forest, Tree
  <2>6. \A u \in Eager : c.deferred[u] = None <=> c.deferred[root[u]] = None
    BY <1>5, <1>7, <1>8, <2>5, SMTT(30) DEF Twins, Forest
  <2>7. \A u \in Eager : c.deferred[u] = None => c.owner[buf[u]] = "numpy"
    <3> SUFFICES ASSUME NEW u \in Eager, c.deferred[u] = None
                 PROVE  c.owner[buf[u]] = "numpy"
      OBVIOUS
    <3>1. u \notin Tree(t) /\ deferred[u] = None
      BY <1>5, <1>7, <1>8
    <3>2. buf[u] # buf[r] /\ buf[u] \in Bufs /\ owner[buf[u]] = "numpy"
      BY <1>10, <3>1 DEF Twins, Forest
    <3> QED
      BY <1>4, <3>2 DEF Twins
  <2>8. \A u \in Eager : Place(c.deferred, u) = [base |-> buf[u], cells |-> cells[u]]
    BY <1>5, <1>9 DEF Twins
  <2>9. \A u \in Live : c.owner[Place(c.deferred, u).base] # "free"
    BY <1>1, <1>4, <1>9 DEF Twins, Live
  <2>10. \A b \in held : c.owner[b] # "donated"
    <3> SUFFICES ASSUME NEW b \in held
                 PROVE  c.owner[b] # "donated"
      OBVIOUS
    <3>1. b \in Bufs /\ owner[b] # "donated"
      BY DEF Fields, Twins
    <3>2. CASE b = buf[r]
      <4>1. PICK u \in Eager : buf[u] = b /\ escaped[root[u]]
        BY DEF Forest
      <4>2. escaped[r]
        BY <1>1, <3>2, <4>1 DEF Forest, RootsApart
      <4> QED
        BY <1>1, <1>4, <3>2, <4>2 DEF Twins
    <3> QED
      BY <1>4, <3>1, <3>2 DEF Twins
  <2> QED
    BY <2>1, <2>2, <2>4, <2>6, <2>7, <2>8, <2>9, <2>10 DEF Twins
<1>12. Contents(c.deferred)
  BY <1>9 DEF Contents, Live
<1>13. t \in Tree(t)
  BY DEF Tree
<1>14. \A b \in Bufs : c.owner[b] = "free" <=> owner[b] = "free"
  BY <1>1, <1>4 DEF Twins
<1> QED
  BY <1>7, <1>9, <1>11, <1>12, <1>13, <1>14, <1>41 DEF Place, Loc, Live

\* What an operation works on after check_eager_args, or without it.
Prepared(c) ==
  /\ Inv(c.deferred, c.owner)
  /\ \A u \in Live : Place(c.deferred, u) = Loc(u)
  /\ \A b \in Bufs : c.owner[b] = "free" <=> owner[b] = "free"
  /\ c.mem = mem

LEMMA NowPrepared ==
  ASSUME IInv
  PROVE  Prepared(Now)
BY DEF IInv, Prepared, Now, Place, Loc

LEMMA ArgsPrepared ==
  ASSUME IInv, NEW t \in Live, NEW args
  PROVE  Prepared(CheckEagerArgs(t, args))
<1>1. CASE deferred[t] = None /\ \E a \in args : deferred[a] # None
  <2>1. t \in Eager
    BY <1>1 DEF IInv, Inv, Twins, Live, Eager, Fields
  <2> QED
    BY <1>1, <2>1, Conversion DEF CheckEagerArgs, Prepared
<1>2. CASE ~(deferred[t] = None /\ \E a \in args : deferred[a] # None)
  BY <1>2, NowPrepared DEF CheckEagerArgs
<1> QED
  BY <1>1, <1>2

---------------------------------------------------------------------------
(* Values *)

\* A live array is at a location, inside its memory.
LEMMA LocOfLive ==
  ASSUME NEW d, NEW o, Inv(d, o), NEW t \in Live
  PROVE  /\ Place(d, t) \in Locations
         /\ Place(d, t).base \in Bufs /\ Place(d, t).cells \in Seq(Nat)
         /\ mem[Place(d, t).base] \in Seq(Val)
         /\ \A i \in DOMAIN Place(d, t).cells :
              Place(d, t).cells[i] \in DOMAIN mem[Place(d, t).base]
<1>1. t \in Thunks /\ (t \in Eager \/ kind[t] = "deferred")
  BY DEF Live, Eager, Inv, Fields
<1>2. Place(d, t) \in Locations
  BY <1>1 DEF Inv, Twins, Forest, Fields, Place, Locations
<1>3. Place(d, t).base \in Bufs /\ Place(d, t).cells \in Seq(Nat)
  BY <1>2 DEF Locations
<1> QED
  BY <1>2, <1>3 DEF Inv, Contents

\* What NumPy or the runtime reads of an array has its type and length.
LEMMA ReadIsSeq ==
  ASSUME NEW d, NEW o, Inv(d, o), NEW t \in Live
  PROVE  /\ ReadAt(mem, Place(d, t)) \in Seq(Val)
         /\ Len(ReadAt(mem, Place(d, t))) = Len(Place(d, t).cells)
<1> DEFINE l == Place(d, t)
<1>1. /\ l.cells \in Seq(Nat) /\ mem[l.base] \in Seq(Val)
      /\ \A i \in DOMAIN l.cells : l.cells[i] \in DOMAIN mem[l.base]
  BY LocOfLive
<1>2. \A i \in DOMAIN l.cells : mem[l.base][l.cells[i]] \in Val
  BY <1>1, ElementOfSeq, LenProperties
<1> QED
  BY <1>1, <1>2, SelIsSeq DEF ReadAt

LEMMA UnspecifiedIsSeq ==
  ASSUME NEW n \in Nat, NEW v \in Unspecified(n)
  PROVE  v \in Seq(Val) /\ Len(v) = n
BY FunctionIsSeq DEF Unspecified

LEMMA HostValuesTyped ==
  ASSUME NEW c, Prepared(c), NEW t \in Eager, NEW v \in HostValues(t, c)
  PROVE  v \in Seq(Val) /\ Len(v) = Extent(t)
<1> DEFINE d == c.deferred
           o == c.owner
<1>1. t \in Live /\ t \in Thunks
  BY DEF Eager, Live
<1>2. Inv(d, o) /\ Loc(t) = Place(d, t) /\ c.mem = mem
  BY <1>1 DEF Prepared
<1> HIDE DEF d, o
<1>3. Place(d, t) = [base |-> buf[t], cells |-> cells[t]]
  BY <1>2 DEF Inv, Twins
<1>4. cells[t] \in Seq(Nat) /\ Len(cells[t]) \in Nat
  BY <1>1, <1>2, LenProperties DEF Inv, Fields
<1>5. /\ Sel(mem[buf[t]], cells[t]) \in Seq(Val)
      /\ Len(Sel(mem[buf[t]], cells[t])) = Len(cells[t])
  BY <1>1, <1>2, <1>3, ReadIsSeq DEF ReadAt
<1>6. CASE c.owner[buf[t]] = "numpy"
  BY <1>2, <1>3, <1>5, <1>6 DEF HostValues, Extent
<1>7. CASE c.owner[buf[t]] # "numpy"
  BY <1>2, <1>3, <1>4, <1>7, UnspecifiedIsSeq DEF HostValues, Extent
<1> QED
  BY <1>6, <1>7

LEMMA ValuesTyped ==
  ASSUME NEW c, Prepared(c), NEW t \in Live, NEW v \in Values(t, c)
  PROVE  v \in Seq(Val) /\ Len(v) = Extent(t)
<1>1. Inv(c.deferred, c.owner) /\ Loc(t) = Place(c.deferred, t) /\ c.mem = mem
  BY DEF Prepared
<1>2. CASE c.deferred[t] # None
  <2>1. v = ReadAt(mem, Place(c.deferred, t))
    BY <1>1, <1>2 DEF Values, Place
  <2> QED
    BY <1>1, <2>1, ReadIsSeq DEF Extent
<1>3. CASE c.deferred[t] = None
  <2>1. t \in Eager
    BY <1>1, <1>3 DEF Inv, Twins, Live, Eager, Fields
  <2> QED
    BY <1>3, <2>1, HostValuesTyped DEF Values
<1> QED
  BY <1>2, <1>3

LEMMA IndexValuesTyped ==
  ASSUME NEW c, Prepared(c), NEW s, NEW k \in Live, NEW idx \in IndexValues(s, k, c)
  PROVE  idx \in Seq(Val)
<1>1. CASE idx \in Values(k, c)
  BY <1>1, ValuesTyped
<1>2. CASE idx \in ToEagerValues(k, c) /\ kind[k] = "deferred"
  <2>1. c.deferred[k] # None
    BY <1>2 DEF Prepared, Inv, Twins, Live
  <2> QED
    BY <1>2, <2>1, <1>1 DEF ToEagerValues, Values
<1>3. CASE idx \in ToEagerValues(k, c) /\ kind[k] # "deferred"
  <2>1. k \in Eager
    BY <1>3 DEF Prepared, Inv, Live, Eager, Fields
  <2> QED
    BY <1>3, <2>1, HostValuesTyped DEF ToEagerValues
<1> QED
  BY <1>1, <1>2, <1>3 DEF IndexValues

\* Element-wise operators, gathers and spreads keep to the values.
LEMMA SpreadTyped ==
  ASSUME NEW S, NEW v \in Seq(S), NEW n \in Nat, Len(v) \in {1, n}
  PROVE  Spread(v, n) \in Seq(S) /\ Len(Spread(v, n)) = n
<1>1. CASE Len(v) = 1
  <2>1. v[1] \in S
    <3>1. 1 \in 1..Len(v)
      BY <1>1
    <3> QED
      BY <3>1, ElementOfSeq
  <2>2. [i \in 1..n |-> v[1]] \in [1..n -> S]
    BY <2>1
  <2> QED
    BY <1>1, <2>2, FunctionIsSeq DEF Spread
<1>2. CASE Len(v) # 1
  BY <1>2 DEF Spread
<1> QED
  BY <1>1, <1>2

LEMMA ModInRange ==
  ASSUME NEW x \in Nat, NEW n \in Nat \ {0}
  PROVE  x % n \in 0..(n - 1)
OBVIOUS

LEMMA ValOfMod ==
  ASSUME NEW x \in Nat
  PROVE  x % V \in Val
BY ValueAssumption, ModInRange DEF Val

LEMMA AddTyped ==
  ASSUME NEW v \in Seq(Val), NEW w \in Seq(Val), Fits(v, Len(w)) \/ Len(w) = 1
  PROVE  /\ Heap!Add(v, w) \in Seq(Val)
         /\ Len(Heap!Add(v, w)) = IF Len(v) = 1 THEN Len(w) ELSE Len(v)
<1> DEFINE n == IF Len(v) = 1 THEN Len(w) ELSE Len(v)
<1>1. n \in Nat /\ Len(v) \in {1, n} /\ Len(w) \in {1, n}
  BY LenProperties DEF Fits
<1> HIDE DEF n
<1>2. /\ Spread(v, n) \in Seq(Val) /\ Len(Spread(v, n)) = n
      /\ Spread(w, n) \in Seq(Val) /\ Len(Spread(w, n)) = n
  BY <1>1, SpreadTyped
<1>3. \A i \in 1..n : Spread(v, n)[i] \in Val /\ Spread(w, n)[i] \in Val
  BY <1>1, <1>2, ElementOfSeq
<1>4. \A i \in 1..n : (Spread(v, n)[i] + Spread(w, n)[i]) % V \in Val
  <2> SUFFICES ASSUME NEW i \in 1..n
               PROVE  (Spread(v, n)[i] + Spread(w, n)[i]) % V \in Val
    OBVIOUS
  <2>1. Spread(v, n)[i] + Spread(w, n)[i] \in Nat
    BY <1>3, ValueAssumption DEF Val
  <2> QED
    BY <2>1, ValOfMod
<1>5. Heap!Add(v, w) = [i \in 1..n |-> (Spread(v, n)[i] + Spread(w, n)[i]) % V]
  BY DEF Heap!Add, Heap!Spread, Spread, n
<1>6. Heap!Add(v, w) \in [1..n -> Val]
  BY <1>4, <1>5
<1> QED
  BY <1>1, <1>6, FunctionIsSeq DEF n

LEMMA ApplyTyped ==
  ASSUME NEW v \in Seq(Val)
  PROVE  Heap!Apply(v) \in Seq(Val) /\ Len(Heap!Apply(v)) = Len(v)
<1>1. Len(v) \in Nat /\ DOMAIN v = 1..Len(v)
  BY LenProperties
<1>2. \A i \in 1..Len(v) : v[i] \in Val
  BY ElementOfSeq
<1>3. \A i \in 1..Len(v) : (v[i] + 1) % V \in Val
  <2> SUFFICES ASSUME NEW i \in 1..Len(v)
               PROVE  (v[i] + 1) % V \in Val
    OBVIOUS
  <2>1. v[i] + 1 \in Nat
    BY <1>2, ValueAssumption DEF Val
  <2> QED
    BY <2>1, ValOfMod
<1>4. Heap!Apply(v) \in [1..Len(v) -> Val]
  BY <1>1, <1>3 DEF Heap!Apply
<1> QED
  BY <1>1, <1>4, FunctionIsSeq

LEMMA PositionsTyped ==
  ASSUME NEW v \in Seq(Val), NEW idx \in Seq(Val), Heap!InBounds(v, idx)
  PROVE  /\ Heap!Positions(v, idx) \in Seq(Nat)
         /\ Len(Heap!Positions(v, idx)) = Len(idx)
         /\ \A i \in DOMAIN Heap!Positions(v, idx) :
              Heap!Positions(v, idx)[i] \in 1..Len(v)
<1>1. Len(v) \in Nat /\ Len(idx) \in Nat /\ DOMAIN idx = 1..Len(idx)
  BY LenProperties
<1>2. \A i \in 1..Len(idx) : idx[i] \in Nat /\ Len(v) \in Nat \ {0}
  BY <1>1, ElementOfSeq, ValueAssumption DEF Heap!InBounds, Val
<1>3. \A i \in 1..Len(idx) : Heap!Position(v, idx[i]) \in 1..Len(v)
  <2> SUFFICES ASSUME NEW i \in 1..Len(idx)
               PROVE  Heap!Position(v, idx[i]) \in 1..Len(v)
    OBVIOUS
  <2>1. idx[i] % Len(v) \in 0..(Len(v) - 1)
    BY <1>2, ModInRange
  <2> QED
    BY <1>1, <2>1 DEF Heap!Position
<1>4. Heap!Positions(v, idx) \in [1..Len(idx) -> Nat]
  BY <1>1, <1>3 DEF Heap!Positions
<1>5. \A i \in 1..Len(idx) : Heap!Positions(v, idx)[i] = Heap!Position(v, idx[i])
  BY <1>1 DEF Heap!Positions
<1> QED
  BY <1>1, <1>3, <1>4, <1>5, FunctionIsSeq

LEMMA GatherTyped ==
  ASSUME NEW v \in Seq(Val), NEW idx \in Seq(Val), Heap!InBounds(v, idx)
  PROVE  Heap!Gather(v, idx) \in Seq(Val)
<1>1. Len(idx) \in Nat /\ DOMAIN idx = 1..Len(idx)
  BY LenProperties
<1>2. \A i \in 1..Len(idx) : Heap!Positions(v, idx)[i] \in 1..Len(v)
  BY <1>1, PositionsTyped DEF Heap!Positions
<1>3. \A i \in 1..Len(idx) : v[Heap!Position(v, idx[i])] \in Val
  BY <1>1, <1>2, ElementOfSeq DEF Heap!Positions
<1>4. Heap!Gather(v, idx) \in [1..Len(idx) -> Val]
  BY <1>1, <1>3 DEF Heap!Gather
<1> QED
  BY <1>1, <1>4, FunctionIsSeq

---------------------------------------------------------------------------
(* The building blocks of the operations *)

\* What a step may do to the buffers the application holds.
Exports(o) ==
  /\ escaped' \in [Thunks -> BOOLEAN]
  /\ held' \subseteq Bufs
  /\ \A b \in held' : /\ o[b] # "donated"
                      /\ \E u \in Eager : buf[u] = b /\ escaped'[root[u]]

LEMMA NoExport ==
  ASSUME NEW d, NEW o, Inv(d, o), UNCHANGED <<escaped, held>>
  PROVE  Exports(o)
BY DEF Inv, Fields, Forest, Twins, Exports

\* A buffer that record_escape gives away is still NumPy's.
LEMMA EscapeExports ==
  ASSUME IInv, NEW us, Escape(us)
  PROVE  Exports(owner)
<1> DEFINE eager == {u \in us \cap Eager : deferred[u] = None}
<1> USE DEF IInv, Inv
<1>1. /\ escaped' = [u \in Thunks |-> escaped[u] \/ u \in {root[x] : x \in eager}]
      /\ held' = held \union {buf[u] : u \in eager}
  BY DEF Escape
<1>2. \A u \in eager : /\ u \in Eager /\ u \in Thunks
                       /\ buf[u] \in Bufs /\ owner[buf[u]] = "numpy"
  BY DEF Forest, Twins, Eager
<1>3. \A u \in Thunks : escaped[u] \in BOOLEAN /\ root[u] \in Thunks
  BY DEF Fields
<1>4. escaped' \in [Thunks -> BOOLEAN]
  BY <1>1, <1>3
<1>5. held' \subseteq Bufs
  BY <1>1, <1>2 DEF Fields
<1>6. ASSUME NEW b \in held'
      PROVE  /\ owner[b] # "donated"
             /\ \E u \in Eager : buf[u] = b /\ escaped'[root[u]]
  <2>1. CASE b \in held
    <3>1. PICK u \in Eager : buf[u] = b /\ escaped[root[u]]
      BY <2>1 DEF Forest
    <3>2. root[u] \in Thunks /\ escaped'[root[u]]
      BY <1>1, <1>3, <3>1 DEF Eager
    <3> QED
      BY <2>1, <3>1, <3>2 DEF Twins
  <2>2. CASE b \notin held
    <3>1. PICK u \in eager : buf[u] = b
      BY <1>1, <2>2
    <3>2. root[u] \in Thunks /\ escaped'[root[u]]
      BY <1>1, <1>2, <1>3, <3>1
    <3> QED
      BY <1>2, <3>1, <3>2
  <2> QED
    BY <2>1, <2>2
<1> QED
  BY <1>4, <1>5, <1>6 DEF Exports

\* An assignment through a location keeps the sizes and the types of memory.
LEMMA PutTyped ==
  ASSUME NEW m \in [Bufs -> Seq(Val)], NEW l \in Locations, NEW v \in Seq(Val),
         Fits(v, Len(l.cells))
  PROVE  /\ PutAt(m, l, v) \in [Bufs -> Seq(Val)]
         /\ \A b \in Bufs : DOMAIN PutAt(m, l, v)[b] = DOMAIN m[b]
<1> DEFINE n == Len(l.cells)
           w == Spread(v, n)
           hit(c) == \E i \in DOMAIN l.cells : l.cells[i] = c
           at(c) == CHOOSE i \in DOMAIN l.cells : l.cells[i] = c
           new == [c \in DOMAIN m[l.base] |-> IF hit(c) THEN w[at(c)] ELSE m[l.base][c]]
<1>1. l.base \in Bufs /\ l.cells \in Seq(Nat)
  BY DEF Locations
<1>2. n \in Nat /\ DOMAIN l.cells = 1..n
  BY <1>1, LenProperties
<1>3. w \in Seq(Val) /\ Len(w) = n
  BY <1>2, SpreadTyped DEF Fits
<1>4. m[l.base] \in Seq(Val)
  BY <1>1
<1>5. Len(m[l.base]) \in Nat /\ DOMAIN m[l.base] = 1..Len(m[l.base])
  BY <1>4, LenProperties
<1>6. ASSUME NEW c \in DOMAIN m[l.base]
      PROVE  (IF hit(c) THEN w[at(c)] ELSE m[l.base][c]) \in Val
  <2>1. CASE hit(c)
    <3>1. at(c) \in 1..Len(w)
      BY <1>2, <1>3, <2>1
    <3> QED
      BY <1>3, <2>1, <3>1, ElementOfSeq
  <2>2. CASE ~hit(c)
    <3>1. m[l.base][c] \in Val
      BY <1>4, <1>5, <1>6, ElementOfSeq
    <3> QED
      BY <2>2, <3>1
  <2> QED
    BY <2>1, <2>2
<1>7. new \in [1..Len(m[l.base]) -> Val]
  BY <1>5, <1>6
<1>8. new \in Seq(Val) /\ DOMAIN new = DOMAIN m[l.base]
  BY <1>5, <1>7, FunctionIsSeq
<1>9. PutAt(m, l, v) = [m EXCEPT ![l.base] = new]
  BY <1>1 DEF PutAt
<1> HIDE DEF new
<1> QED
  BY <1>1, <1>8, <1>9

\* Assigning to selected positions of an array keeps the invariant.
LEMMA WritePreserves ==
  ASSUME NEW c, Prepared(c), NEW t \in Live,
         NEW key \in Seq(Nat), \A i \in DOMAIN key : key[i] \in 1..Extent(t),
         NEW v \in Seq(Val), Write(t, key, v, c), Exports(c.owner)
  PROVE  IInv'
<1> DEFINE d == c.deferred
           o == c.owner
           l == Place(d, t)
<1>1. Inv(d, o) /\ l = Loc(t)
  BY DEF Prepared
<1>2. /\ deferred' = d /\ owner' = o /\ UNCHANGED <<kind, buf, cells, root, path, own>>
      /\ Fits(v, Len(key))
      /\ mem' = PutAt(mem, ViewAt(l, key), v) \/ mem' = mem
  BY DEF Write, Place, Prepared
<1> HIDE DEF d, o
<1>3. Fields'
  BY <1>1, <1>2 DEF Fields, Inv, Exports
<1>4. Eager' = Eager /\ Live' = Live
  BY <1>2 DEF Eager, Live
<1>5. Forest'
  BY <1>1, <1>2, <1>4 DEF Inv, Forest, RootsApart, Exports
<1>6. \A u \in Thunks : Place(deferred, u)' = Place(d, u)
  BY <1>2 DEF Place
<1>7. Twins(deferred, owner)'
  <2>1. Twins(d, o)
    BY <1>1 DEF Inv
  <2>2. \A u \in Live : u \in Thunks
    BY DEF Live
  <2>3. \A u \in Eager : u \in Thunks
    BY DEF Eager
  <2> QED
    BY <1>2, <1>4, <1>6, <2>1, <2>2, <2>3 DEF Twins, Exports, o
<1>8. Contents(deferred)'
  <2>1. /\ l \in Locations /\ l.base \in Bufs /\ l.cells \in Seq(Nat)
        /\ mem \in [Bufs -> Seq(Val)]
    BY <1>1, LocOfLive DEF Inv, Contents
  <2> HIDE DEF l
  <2>2. l.cells \in Seq(Nat) /\ \A i \in DOMAIN key : key[i] \in 1..Len(l.cells)
    BY <1>1, <2>1 DEF Extent
  <2>3. Sel(l.cells, key) \in Seq(Nat) /\ Len(Sel(l.cells, key)) = Len(key)
    BY <2>2, SelOfPositions
  <2>4. /\ ViewAt(l, key) \in Locations
        /\ ViewAt(l, key).cells = Sel(l.cells, key)
    BY <2>1, <2>3 DEF ViewAt, Locations
  <2>5. /\ PutAt(mem, ViewAt(l, key), v) \in [Bufs -> Seq(Val)]
        /\ \A b \in Bufs : DOMAIN PutAt(mem, ViewAt(l, key), v)[b] = DOMAIN mem[b]
    <3>1. Fits(v, Len(ViewAt(l, key).cells))
      BY <1>2, <2>3, <2>4
    <3>2. ViewAt(l, key) \in Locations /\ mem \in [Bufs -> Seq(Val)]
      BY <2>1, <2>4
    <3> QED
      BY <3>1, <3>2, PutTyped
  <2>6. mem' \in [Bufs -> Seq(Val)] /\ \A b \in Bufs : DOMAIN mem'[b] = DOMAIN mem[b]
    BY <1>2, <2>1, <2>5
  <2>7. \A u \in Live : Place(d, u).base \in Bufs /\ u \in Thunks
    BY <1>1, LocOfLive DEF Live
  <2> QED
    BY <1>1, <1>4, <1>6, <2>6, <2>7 DEF Contents, Inv
<1> QED
  BY <1>3, <1>5, <1>7, <1>8 DEF IInv, Inv

\* Creating an array in a free buffer keeps the invariant.
LEMMA AllocPreserves ==
  ASSUME NEW c, Prepared(c), NEW t \in Thunks, NEW k \in {"eager", "deferred"},
         NEW v \in Seq(Val), Alloc(t, k, v, c)
  PROVE  IInv'
<1> DEFINE d == c.deferred
           o == c.owner
           free == {x \in Bufs : o[x] = "free"}
           b == CHOOSE x \in free : TRUE
           id == Identity(Len(v))
<1>1. Inv(d, o)
  BY DEF Prepared
<1>2. b \in Bufs /\ o[b] = "free"
  <2>1. b \in free
    BY DEF Alloc
  <2> QED
    BY <2>1
<1>3. /\ kind[t] = "none" /\ kind' = [kind EXCEPT ![t] = k]
      /\ mem' = [mem EXCEPT ![b] = v]
      /\ owner' = [o EXCEPT ![b] = IF k = "eager" THEN "numpy" ELSE "runtime"]
      /\ UNCHANGED <<escaped, held>>
  BY DEF Alloc, Prepared
<1> HIDE DEF d, o, b, id
<1>4. /\ id \in Seq(Nat) /\ DOMAIN id = DOMAIN v /\ Sel(id, id) = id
      /\ \A i \in DOMAIN id : id[i] \in DOMAIN v
  <2>1. Len(v) \in Nat /\ DOMAIN v = 1..Len(v)
    BY LenProperties
  <2> QED
    BY <2>1, IdentityIsSeq DEF id
<1>5. d[t] = None /\ t \notin Live /\ t \notin Eager
  BY <1>1, <1>3 DEF Inv, Twins, Live, Eager
<1>6. Live' = Live \union {t} /\ \A u \in Live : u \in Thunks /\ u # t
  BY <1>1, <1>3, <1>5 DEF Live, Inv, Fields
<1>7. \A u \in Live : /\ Place(d, u).base # b /\ Place(d, u).base \in Bufs
                     /\ o[Place(d, u).base] # "free"
  BY <1>1, <1>2, LocOfLive DEF Inv, Twins
<1>8. \A u \in Eager : u \in Live /\ u # t /\ u \in Thunks /\ buf[u] # b /\ buf[u] \in Bufs
                      /\ root[u] \in Eager
  <2>1. \A u \in Eager : u \in Live /\ Place(d, u).base = buf[u]
    BY <1>1 DEF Inv, Twins, Eager, Live
  <2> QED
    BY <1>1, <1>6, <1>7, <2>1 DEF Inv, Forest
<1>9. b \notin held /\ held \subseteq Bufs
  BY <1>1, <1>8 DEF Inv, Forest, Fields
<1>10. /\ mem' \in [Bufs -> Seq(Val)] /\ mem'[b] = v
       /\ \A x \in Bufs : x # b => mem'[x] = mem[x]
  BY <1>1, <1>2, <1>3 DEF Inv, Contents
<1>11. [base |-> b, cells |-> id] \in Locations
  BY <1>2, <1>4 DEF Locations
<1>12. o \in [Bufs -> Owners] /\ d \in [Thunks -> Locations \union {None}]
  BY <1>1 DEF Inv, Twins
<1>13. /\ owner' \in [Bufs -> Owners]
       /\ owner'[b] = IF k = "eager" THEN "numpy" ELSE "runtime"
       /\ \A x \in Bufs : x # b => owner'[x] = o[x]
  BY <1>2, <1>3, <1>12 DEF Owners
<1>14. CASE k = "eager"
  <2>1. /\ buf' = [buf EXCEPT ![t] = b] /\ cells' = [cells EXCEPT ![t] = id]
        /\ root' = [root EXCEPT ![t] = t] /\ path' = [path EXCEPT ![t] = id]
        /\ own' = [own EXCEPT ![t] = t] /\ deferred' = d
    BY <1>14 DEF Alloc, b, id, d, o
  <2>2. Fields'
    BY <1>1, <1>2, <1>3, <1>4, <2>1 DEF Inv, Fields
  <2>3. Eager' = Eager \union {t}
    BY <1>1, <1>3, <1>14 DEF Eager, Inv, Fields
  <2>4. /\ buf'[t] = b /\ cells'[t] = id /\ root'[t] = t /\ path'[t] = id /\ own'[t] = t
        /\ \A u \in Thunks : u # t => /\ buf'[u] = buf[u] /\ cells'[u] = cells[u]
                                     /\ root'[u] = root[u] /\ path'[u] = path[u]
                                     /\ own'[u] = own[u]
    BY <1>1, <2>1 DEF Inv, Fields
  <2>5. Forest'
    <3>1. ASSUME NEW u \in Eager'
          PROVE  /\ root'[u] \in Eager' /\ root'[root'[u]] = root'[u]
                 /\ buf'[u] \in Bufs /\ buf'[root'[u]] = buf'[u]
                 /\ cells'[u] = Sel(cells'[root'[u]], path'[u])
                 /\ own'[u] = root'[u]
      <4>1. CASE u = t
        BY <1>2, <1>4, <2>3, <2>4, <4>1
      <4>2. CASE u # t
        <5>1. u \in Eager /\ root[u] \in Eager
          BY <1>8, <2>3, <4>2
        <5>2. u \in Thunks /\ root[u] \in Thunks /\ root[u] # t
          BY <1>8, <5>1
        <5>3. /\ root[root[u]] = root[u] /\ buf[u] \in Bufs /\ buf[root[u]] = buf[u]
              /\ cells[u] = Sel(cells[root[u]], path[u])
              /\ own[u] = root[u]
          BY <1>1, <5>1 DEF Inv, Forest
        <5> QED
          BY <2>3, <2>4, <4>2, <5>1, <5>2, <5>3
      <4> QED
        BY <4>1, <4>2
    <3>2. RootsApart'
      BY <1>1, <1>8, <2>3, <2>4 DEF RootsApart, Inv, Forest
    <3>3. ASSUME NEW x \in held'
          PROVE  \E u \in Eager' : buf'[u] = x /\ escaped'[root'[u]]
      <4>1. escaped' = escaped /\ held' = held
        BY <1>3
      <4>2. PICK u \in Eager : buf[u] = x /\ escaped[root[u]]
        BY <1>1, <4>1 DEF Inv, Forest
      <4>3. u \in Eager' /\ buf'[u] = x /\ root'[u] = root[u]
        BY <1>8, <2>3, <2>4, <4>2
      <4> QED
        BY <4>1, <4>2, <4>3
    <3> QED
      BY <3>1, <3>2, <3>3 DEF Forest
  <2>6. /\ \A u \in Live : Place(deferred, u)' = Place(d, u)
        /\ Place(deferred, t)' = [base |-> b, cells |-> id]
    BY <1>5, <1>6, <2>1, <2>4 DEF Place
  <2>7. Twins(deferred, owner)'
    <3>1. Twins(d, o)
      BY <1>1 DEF Inv
    <3>2. \A u \in Thunks : u # t => kind'[u] = kind[u]
      BY <1>3
    <3>3. kind'[t] = "eager"
      BY <1>1, <1>3, <1>14 DEF Inv, Fields
    <3>4. /\ \A u \in Thunks : kind'[u] = "none" => deferred'[u] = None
          /\ \A u \in Thunks : kind'[u] = "deferred" => deferred'[u] # None
      BY <2>1, <3>1, <3>2, <3>3 DEF Twins
    <3>5. /\ \A u \in Eager' : deferred'[u] = None <=> deferred'[root'[u]] = None
          /\ \A u \in Eager' : deferred'[u] = None => owner'[buf'[u]] = "numpy"
      BY <1>8, <1>13, <1>14, <2>1, <2>3, <2>4, <3>1 DEF Twins
    <3>6. /\ \A u \in Eager' : Place(deferred, u)' = [base |-> buf'[u], cells |-> cells'[u]]
          /\ \A u \in Live' : owner'[Place(deferred, u)'.base] # "free"
      BY <1>6, <1>7, <1>8, <1>13, <1>14, <2>3, <2>4, <2>6, <3>1 DEF Twins
    <3>7. \A x \in held' : owner'[x] # "donated"
      BY <1>3, <1>9, <1>13, <3>1 DEF Twins
    <3> QED
      BY <1>12, <1>13, <2>1, <3>4, <3>5, <3>6, <3>7 DEF Twins
  <2>8. Contents(deferred)'
    BY <1>1, <1>4, <1>6, <1>7, <1>10, <2>6 DEF Inv, Contents
  <2> QED
    BY <2>2, <2>5, <2>7, <2>8 DEF IInv, Inv
<1>15. CASE k = "deferred"
  <2>1. /\ deferred' = [d EXCEPT ![t] = [base |-> b, cells |-> id]]
        /\ UNCHANGED <<buf, cells, root, path, own>>
    BY <1>15 DEF Alloc, b, id, d, o
  <2>2. Fields'
    BY <1>1, <1>3, <1>15, <2>1 DEF Inv, Fields
  <2>3. Eager' = Eager
    BY <1>1, <1>3, <1>15 DEF Eager, Inv, Fields
  <2>4. /\ deferred' \in [Thunks -> Locations \union {None}]
        /\ deferred'[t] = [base |-> b, cells |-> id] /\ deferred'[t] # None
        /\ \A u \in Thunks : u # t => deferred'[u] = d[u]
    BY <1>11, <1>12, <2>1, NoneAssumption
  <2>5. Forest'
    BY <1>1, <1>3, <2>1, <2>3 DEF Inv, Forest, RootsApart
  <2>6. /\ \A u \in Live : Place(deferred, u)' = Place(d, u)
        /\ Place(deferred, t)' = [base |-> b, cells |-> id]
    BY <1>6, <2>1, <2>4 DEF Place
  <2>7. Twins(deferred, owner)'
    <3>1. Twins(d, o)
      BY <1>1 DEF Inv
    <3>2. \A u \in Thunks : u # t => kind'[u] = kind[u]
      BY <1>3
    <3>3. kind'[t] = "deferred"
      BY <1>1, <1>3, <1>15 DEF Inv, Fields
    <3>4. /\ \A u \in Thunks : kind'[u] = "none" => deferred'[u] = None
          /\ \A u \in Thunks : kind'[u] = "deferred" => deferred'[u] # None
      BY <2>4, <3>1, <3>2, <3>3 DEF Twins
    <3>5. /\ \A u \in Eager : deferred'[u] = None <=> deferred'[root[u]] = None
          /\ \A u \in Eager : deferred'[u] = None => owner'[buf[u]] = "numpy"
      BY <1>8, <1>13, <2>4, <3>1 DEF Twins
    <3>6. /\ \A u \in Eager : Place(deferred, u)' = [base |-> buf[u], cells |-> cells[u]]
          /\ \A u \in Live' : owner'[Place(deferred, u)'.base] # "free"
      BY <1>6, <1>7, <1>8, <1>13, <1>15, <2>6, <3>1 DEF Twins
    <3>7. \A x \in held' : owner'[x] # "donated"
      BY <1>3, <1>9, <1>13, <3>1 DEF Twins
    <3> QED
      BY <1>13, <2>1, <2>3, <2>4, <3>4, <3>5, <3>6, <3>7, ZenonT(40) DEF Twins
  <2>8. Contents(deferred)'
    BY <1>1, <1>4, <1>6, <1>7, <1>10, <2>6 DEF Inv, Contents
  <2> QED
    BY <2>2, <2>5, <2>7, <2>8 DEF IInv, Inv
<1> QED
  BY <1>14, <1>15

\* Making a view, a child in the tree or a view of the store, keeps the
\* invariant: the keys compose.
LEMMA ViewPreserves ==
  ASSUME IInv, NEW t \in Thunks, NEW p \in Live, View(t, p)
  PROVE  IInv'
<1> DEFINE l == Loc(p)
<1>1. PICK key \in KeysOf(p) :
        /\ kind[t] = "none"
        /\ IF deferred[p] # None
           THEN /\ kind' = [kind EXCEPT ![t] = "deferred"]
                /\ deferred' = [deferred EXCEPT ![t] = ViewAt(deferred[p], key)]
                /\ UNCHANGED <<buf, cells, root, path, own>>
           ELSE /\ kind' = [kind EXCEPT ![t] = "eager"]
                /\ buf' = [buf EXCEPT ![t] = buf[p]]
                /\ cells' = [cells EXCEPT ![t] = Sel(cells[p], key)]
                /\ root' = [root EXCEPT ![t] = root[p]]
                /\ path' = [path EXCEPT ![t] = Sel(path[p], key)]
                /\ own' = [own EXCEPT ![t] = own[p]]
                /\ UNCHANGED deferred
        /\ UNCHANGED <<escaped, owner, mem, held>>
  BY DEF View
<1>2. key \in Seq(Nat) /\ \A i \in DOMAIN key : key[i] \in 1..Len(l.cells)
  BY KeysAssumption DEF KeysOf, Extent
<1>3. l = Place(deferred, p)
  BY DEF Place, Loc
<1>4. /\ l \in Locations /\ l.base \in Bufs /\ l.cells \in Seq(Nat)
      /\ \A i \in DOMAIN l.cells : l.cells[i] \in DOMAIN mem[l.base]
      /\ owner[l.base] # "free"
  BY <1>3, LocOfLive DEF IInv, Inv, Twins
<1>5. Sel(l.cells, key) \in Seq(Nat) /\ Len(Sel(l.cells, key)) = Len(key)
  BY <1>2, <1>4, SelOfPositions
<1>6. /\ DOMAIN Sel(l.cells, key) = DOMAIN key
      /\ \A i \in DOMAIN key : Sel(l.cells, key)[i] \in DOMAIN mem[l.base]
  <2>1. DOMAIN l.cells = 1..Len(l.cells)
    BY <1>4, LenProperties
  <2> QED
    BY <1>2, <1>4, <2>1 DEF Sel
<1> HIDE DEF l
<1>7. deferred[t] = None /\ t \notin Live /\ t \notin Eager
  BY <1>1 DEF IInv, Inv, Twins, Live, Eager
<1>8. Live' = Live \union {t} /\ \A u \in Live : u \in Thunks /\ u # t
  BY <1>1, <1>7 DEF Live, IInv, Inv, Fields
<1>9. \A u \in Eager : /\ u \in Live /\ u \in Thunks /\ u # t
                      /\ root[u] \in Eager /\ root[u] # t /\ root[u] \in Thunks
  BY <1>7, <1>8 DEF Eager, Live, IInv, Inv, Forest
<1>10. CASE deferred[p] # None
  <2>1. /\ kind' = [kind EXCEPT ![t] = "deferred"]
        /\ deferred' = [deferred EXCEPT ![t] = ViewAt(l, key)]
        /\ UNCHANGED <<buf, cells, root, path, own, escaped, owner, mem, held>>
    BY <1>1, <1>10 DEF l, Loc
  <2>2. /\ ViewAt(l, key) \in Locations /\ ViewAt(l, key).base = l.base
        /\ ViewAt(l, key).cells = Sel(l.cells, key)
    BY <1>4, <1>5 DEF ViewAt, Locations
  <2>3. /\ deferred' \in [Thunks -> Locations \union {None}]
        /\ deferred'[t] = ViewAt(l, key) /\ deferred'[t] # None
        /\ \A u \in Thunks : u # t => deferred'[u] = deferred[u]
    BY <2>1, <2>2, NoneAssumption DEF IInv, Inv, Twins
  <2>4. Fields'
    BY <2>1 DEF IInv, Inv, Fields
  <2>5. Eager' = Eager
    BY <1>7, <2>1 DEF Eager, IInv, Inv, Fields
  <2>6. Forest'
    BY <2>1, <2>5 DEF IInv, Inv, Forest, RootsApart
  <2>7. /\ \A u \in Live : Place(deferred, u)' = Place(deferred, u)
        /\ Place(deferred, t)' = ViewAt(l, key)
    BY <1>8, <2>1, <2>3 DEF Place
  <2>8. Twins(deferred, owner)'
    <3>1. Twins(deferred, owner)
      BY DEF IInv, Inv
    <3>2. /\ \A u \in Thunks : u # t => kind'[u] = kind[u]
          /\ kind'[t] = "deferred"
      BY <2>1 DEF IInv, Inv, Fields
    <3>3. /\ \A u \in Thunks : kind'[u] = "none" => deferred'[u] = None
          /\ \A u \in Thunks : kind'[u] = "deferred" => deferred'[u] # None
      BY <2>3, <3>1, <3>2 DEF Twins
    <3>4. /\ \A u \in Eager : deferred'[u] = None <=> deferred'[root[u]] = None
          /\ \A u \in Eager : deferred'[u] = None => owner[buf[u]] = "numpy"
      BY <1>9, <2>3, <3>1 DEF Twins
    <3>5. /\ \A u \in Eager : Place(deferred, u)' = [base |-> buf[u], cells |-> cells[u]]
          /\ \A u \in Live' : owner[Place(deferred, u)'.base] # "free"
      BY <1>4, <1>8, <1>9, <2>2, <2>7, <3>1 DEF Twins
    <3> QED
      BY <2>1, <2>3, <2>5, <3>1, <3>3, <3>4, <3>5, ZenonT(40) DEF Twins
  <2>9. Contents(deferred)'
    BY <1>6, <1>8, <2>1, <2>2, <2>7 DEF IInv, Inv, Contents
  <2> QED
    BY <2>4, <2>6, <2>8, <2>9 DEF IInv, Inv
<1>11. CASE deferred[p] = None
  <2>1. /\ kind' = [kind EXCEPT ![t] = "eager"]
        /\ buf' = [buf EXCEPT ![t] = buf[p]]
        /\ cells' = [cells EXCEPT ![t] = Sel(cells[p], key)]
        /\ root' = [root EXCEPT ![t] = root[p]]
        /\ path' = [path EXCEPT ![t] = Sel(path[p], key)]
        /\ own' = [own EXCEPT ![t] = own[p]]
        /\ UNCHANGED <<deferred, escaped, owner, mem, held>>
    BY <1>1, <1>11
  <2>2. p \in Eager /\ l = [base |-> buf[p], cells |-> cells[p]]
    BY <1>11 DEF l, Loc, IInv, Inv, Twins, Live, Eager, Fields
  <2>3. /\ root[p] \in Eager /\ root[root[p]] = root[p] /\ buf[p] \in Bufs
        /\ buf[root[p]] = buf[p] /\ cells[p] = Sel(cells[root[p]], path[p])
        /\ path[p] \in Seq(Nat) /\ owner[buf[p]] = "numpy" /\ deferred[root[p]] = None
        /\ own[p] = root[p]
    BY <1>9, <1>11, <2>2 DEF IInv, Inv, Forest, Fields, Twins
  <2>4. \A i \in DOMAIN key : key[i] \in DOMAIN path[p] /\ key[i] \in 1..Len(path[p])
    <3>1. DOMAIN cells[p] = DOMAIN path[p]
      BY <2>3 DEF Sel
    <3>2. DOMAIN cells[p] = 1..Len(cells[p]) /\ DOMAIN path[p] = 1..Len(path[p])
      BY <1>4, <2>2, <2>3, LenProperties
    <3> QED
      BY <1>2, <2>2, <3>1, <3>2
  <2>5. Sel(path[p], key) \in Seq(Nat)
    BY <1>2, <2>3, <2>4, SelOfPositions
  <2>6. Sel(cells[p], key) = Sel(cells[root[p]], Sel(path[p], key))
    BY <2>3, <2>4 DEF Sel
  <2>7. Sel(cells[p], key) \in Seq(Nat)
    BY <1>5, <2>2
  <2>8. Fields'
    BY <2>1, <2>3, <2>5, <2>7 DEF IInv, Inv, Fields, Eager
  <2>9. Eager' = Eager \union {t}
    BY <1>7, <2>1 DEF Eager, IInv, Inv, Fields
  <2>10. /\ buf'[t] = buf[p] /\ cells'[t] = Sel(cells[p], key)
         /\ root'[t] = root[p] /\ path'[t] = Sel(path[p], key) /\ own'[t] = own[p]
         /\ \A u \in Thunks : u # t => /\ buf'[u] = buf[u] /\ cells'[u] = cells[u]
                                      /\ root'[u] = root[u] /\ path'[u] = path[u]
                                      /\ own'[u] = own[u]
    BY <2>1 DEF IInv, Inv, Fields
  <2>11. Forest'
    <3>1. ASSUME NEW u \in Eager'
          PROVE  /\ root'[u] \in Eager' /\ root'[root'[u]] = root'[u]
                 /\ buf'[u] \in Bufs /\ buf'[root'[u]] = buf'[u]
                 /\ cells'[u] = Sel(cells'[root'[u]], path'[u])
                 /\ own'[u] = root'[u]
      <4>1. CASE u = t
        BY <1>9, <2>2, <2>3, <2>6, <2>9, <2>10, <4>1
      <4>2. CASE u # t
        <5>1. u \in Eager /\ u \in Thunks /\ root[u] \in Thunks /\ root[u] # t
          BY <1>9, <2>9, <4>2
        <5>2. /\ root[u] \in Eager /\ root[root[u]] = root[u]
              /\ buf[u] \in Bufs /\ buf[root[u]] = buf[u]
              /\ cells[u] = Sel(cells[root[u]], path[u])
              /\ own[u] = root[u]
          BY <5>1 DEF IInv, Inv, Forest
        <5> QED
          BY <2>9, <2>10, <4>2, <5>1, <5>2
      <4> QED
        BY <4>1, <4>2
    <3>2. RootsApart'
      BY <1>9, <2>2, <2>9, <2>10 DEF RootsApart, IInv, Inv, Forest
    <3>3. \A x \in held' : \E u \in Eager' : buf'[u] = x /\ escaped'[root'[u]]
      BY <1>9, <2>1, <2>9, <2>10 DEF IInv, Inv, Forest
    <3> QED
      BY <3>1, <3>2, <3>3 DEF Forest
  <2>12. /\ \A u \in Live : Place(deferred, u)' = Place(deferred, u)
         /\ Place(deferred, t)' = [base |-> buf[p], cells |-> Sel(cells[p], key)]
    BY <1>7, <1>8, <2>1, <2>10 DEF Place
  <2>13. Twins(deferred, owner)'
    <3>1. Twins(deferred, owner)
      BY DEF IInv, Inv
    <3>2. /\ \A u \in Thunks : u # t => kind'[u] = kind[u]
          /\ kind'[t] = "eager"
      BY <2>1 DEF IInv, Inv, Fields
    <3>3. /\ \A u \in Thunks : kind'[u] = "none" => deferred'[u] = None
          /\ \A u \in Thunks : kind'[u] = "deferred" => deferred'[u] # None
      BY <2>1, <3>1, <3>2 DEF Twins
    <3>4. /\ \A u \in Eager' : deferred'[u] = None <=> deferred'[root'[u]] = None
          /\ \A u \in Eager' : deferred'[u] = None => owner'[buf'[u]] = "numpy"
      BY <1>7, <1>9, <2>1, <2>3, <2>9, <2>10, <3>1 DEF Twins
    <3>5. /\ \A u \in Eager' : Place(deferred, u)' = [base |-> buf'[u], cells |-> cells'[u]]
          /\ \A u \in Live' : owner'[Place(deferred, u)'.base] # "free"
      BY <1>8, <1>9, <2>1, <2>3, <2>9, <2>10, <2>12, <3>1 DEF Twins
    <3> QED
      BY <2>1, <3>1, <3>3, <3>4, <3>5 DEF Twins
  <2>14. Contents(deferred)'
    BY <1>6, <1>8, <2>1, <2>2, <2>12 DEF IInv, Inv, Contents
  <2> QED
    BY <2>8, <2>11, <2>13, <2>14 DEF IInv, Inv
<1> QED
  BY <1>10, <1>11

---------------------------------------------------------------------------
(* The operations *)

LEMMA WholeIsSeq ==
  ASSUME IInv, NEW t \in Live
  PROVE  /\ Extent(t) \in Nat /\ Whole(t) \in Seq(Nat) /\ Len(Whole(t)) = Extent(t)
         /\ \A i \in DOMAIN Whole(t) : Whole(t)[i] \in 1..Extent(t)
<1>1. Loc(t) = Place(deferred, t)
  BY DEF Loc, Place
<1>2. Extent(t) \in Nat
  BY <1>1, LocOfLive, LenProperties DEF IInv, Extent
<1> QED
  BY <1>2, IdentityIsSeq DEF Whole

LEMMA CreatePreserves ==
  ASSUME IInv, NEW t \in Thunks, Create(t)
  PROVE  IInv'
<1>1. PICK k \in {"eager", "deferred"}, v \in Unspecified(Size) : Alloc(t, k, v, Now)
  BY DEF Create
<1>2. v \in Seq(Val)
  BY SizeAssumption, UnspecifiedIsSeq
<1> QED
  BY <1>1, <1>2, NowPrepared, AllocPreserves

\* A conversion, with nothing after it.
LEMMA SkipPreserves ==
  ASSUME IInv, NEW c, Prepared(c), Skip(c), UNCHANGED <<escaped, held>>
  PROVE  IInv'
<1>1. Inv(c.deferred, c.owner) /\ c.mem = mem
  BY DEF Prepared
<1>2. /\ deferred' = c.deferred /\ owner' = c.owner
      /\ UNCHANGED <<kind, buf, cells, root, path, own, escaped, mem, held>>
  BY <1>1 DEF Skip
<1>3. Live' = Live /\ Eager' = Eager /\ \A u : Place(deferred, u)' = Place(c.deferred, u)
  BY <1>2 DEF Live, Eager, Place
<1> QED
  BY <1>1, <1>2, <1>3 DEF IInv, Inv, Fields, Forest, RootsApart, Twins, Contents

LEMMA ToDeferredPreserves ==
  ASSUME IInv, NEW t \in Thunks, ToDeferred(t)
  PROVE  IInv'
<1> DEFINE c == ConvertTree(t)
<1>1. t \in Eager /\ deferred[t] = None
  BY DEF ToDeferred
<1>2. Prepared(c)
  BY <1>1, Conversion DEF Prepared
<1>3. Skip(c) /\ UNCHANGED <<escaped, held>>
  BY DEF ToDeferred, Skip
<1> HIDE DEF c
<1> QED
  BY <1>2, <1>3, SkipPreserves

LEMMA NumpyArrayPreserves ==
  ASSUME IInv, NEW t \in Thunks, NumpyArray(t)
  PROVE  IInv'
<1>1. Exports(owner)
  BY EscapeExports DEF NumpyArray
<1>2. UNCHANGED <<kind, buf, cells, root, path, own, deferred, owner, mem>>
  BY DEF NumpyArray
<1>3. Live' = Live /\ Eager' = Eager /\ \A u : Place(deferred, u)' = Place(deferred, u)
  BY <1>2 DEF Live, Eager, Place
<1> QED
  BY <1>1, <1>2, <1>3
     DEF IInv, Inv, Fields, Forest, RootsApart, Twins, Contents, Exports

LEMMA FillPreserves ==
  ASSUME IInv, NEW t \in Live, Fill(t)
  PROVE  IInv'
<1>1. PICK x \in Val : Write(t, Whole(t), <<x>>, Now)
  BY DEF Fill
<1>2. Exports(Now.owner)
  BY NoExport DEF Fill, IInv, Now
<1>3. <<x>> \in Seq(Val)
  OBVIOUS
<1> QED
  BY <1>1, <1>2, <1>3, WholeIsSeq, NowPrepared, WritePreserves

LEMMA SetItemPreserves ==
  ASSUME IInv, NEW t \in Live, NEW r \in Live, NEW key \in KeysToSet(t),
         SetItem(t, key, r)
  PROVE  IInv'
<1> DEFINE c == CheckEagerArgs(t, {r})
<1>1. /\ \/ Skip(c)
         \/ \E v \in Values(r, c) : Write(t, key, v, c)
      /\ UNCHANGED <<escaped, held>>
  BY DEF SetItem
<1>2. Prepared(c)
  BY ArgsPrepared
<1> HIDE DEF c
<1>3. Exports(c.owner)
  BY <1>1, <1>2, NoExport DEF Prepared
<1>4. key \in Seq(Nat) /\ \A i \in DOMAIN key : key[i] \in 1..Extent(t)
  <2>1. CASE key = Whole(t)
    BY <2>1, WholeIsSeq
  <2>2. CASE key \in KeysOf(t)
    BY <2>2, KeysAssumption DEF KeysOf
  <2> QED
    BY <2>1, <2>2 DEF KeysToSet
<1>5. ASSUME NEW v \in Values(r, c), Write(t, key, v, c)
      PROVE  IInv'
  <2>1. v \in Seq(Val)
    BY <1>2, ValuesTyped
  <2> QED
    BY <1>2, <1>3, <1>4, <1>5, <2>1, WritePreserves
<1> QED
  BY <1>1, <1>2, <1>5, SkipPreserves

\* An operand that is overwritten while it is read still has its type.
LEMMA OperandsTyped ==
  ASSUME NEW c, Prepared(c), NEW t, NEW r \in Live, NEW v \in Operands(t, r, c)
  PROVE  v \in Seq(Val)
<1>1. CASE v \in Values(r, c)
  BY <1>1, ValuesTyped
<1>2. CASE v \in Unspecified(Extent(r))
  <2>1. Loc(r).cells \in Seq(Nat)
    BY LocOfLive DEF Prepared
  <2>2. Extent(r) \in Nat
    BY <2>1, LenProperties DEF Extent
  <2> QED
    BY <1>2, <2>2, UnspecifiedIsSeq
<1> QED
  BY <1>1, <1>2 DEF Operands

LEMMA UnaryOpPreserves ==
  ASSUME IInv, NEW t \in Live, NEW r \in Live, UnaryOp(t, r)
  PROVE  IInv'
<1> DEFINE c == CheckEagerArgs(t, {r})
<1>1. PICK v \in Operands(t, r, c) : Write(t, Whole(t), v, c)
  BY DEF UnaryOp
<1>2. Prepared(c)
  BY ArgsPrepared
<1> HIDE DEF c
<1>3. Exports(c.owner)
  BY <1>2, NoExport DEF UnaryOp, Prepared
<1>4. v \in Seq(Val)
  BY <1>2, OperandsTyped
<1> QED
  BY <1>1, <1>2, <1>3, <1>4, WholeIsSeq, WritePreserves

LEMMA BinaryOpPreserves ==
  ASSUME IInv, NEW t \in Live, NEW r \in Live, NEW s \in Live, BinaryOp(t, r, s)
  PROVE  IInv'
<1> DEFINE c == CheckEagerArgs(t, {r, s})
<1>1. PICK v \in Operands(t, r, c), w \in Operands(t, s, c) :
        /\ Fits(v, Len(w)) \/ Len(w) = 1
        /\ Write(t, Whole(t), Heap!Add(v, w), c)
  BY DEF BinaryOp
<1>2. Prepared(c)
  BY ArgsPrepared
<1> HIDE DEF c
<1>3. Exports(c.owner)
  BY <1>2, NoExport DEF BinaryOp, Prepared
<1>4. Heap!Add(v, w) \in Seq(Val)
  <2>1. v \in Seq(Val) /\ w \in Seq(Val)
    BY <1>2, OperandsTyped
  <2> QED
    BY <1>1, <2>1, AddTyped
<1> QED
  BY <1>1, <1>2, <1>3, <1>4, WholeIsSeq, WritePreserves

LEMMA UfuncMethodPreserves ==
  ASSUME IInv, NEW t \in Live, NEW r \in Live, NEW out \in Live,
         UfuncMethod(t, r, out)
  PROVE  IInv'
<1>1. PICK v \in Values(t, Now), w \in Values(r, Now) :
        /\ Fits(v, Len(w)) \/ Len(w) = 1
        /\ Write(out, Whole(out), Heap!Add(v, w), Now)
  BY DEF UfuncMethod
<1>2. Exports(Now.owner)
  BY EscapeExports DEF UfuncMethod, Now
<1>3. Heap!Add(v, w) \in Seq(Val)
  <2>1. v \in Seq(Val) /\ w \in Seq(Val)
    BY NowPrepared, ValuesTyped
  <2> QED
    BY <1>1, <2>1, AddTyped
<1> QED
  BY <1>1, <1>2, <1>3, WholeIsSeq, NowPrepared, WritePreserves

LEMMA DerivePreserves ==
  ASSUME IInv, NEW t \in Thunks, NEW r \in Live, Derive(t, r)
  PROVE  IInv'
<1>1. PICK v \in Values(r, Now) :
        \E f \in {v, Heap!Apply(v)} : Alloc(t, Returned(r, Now), f, Now)
  BY DEF Derive
<1>2. v \in Seq(Val) /\ Heap!Apply(v) \in Seq(Val)
  BY NowPrepared, ValuesTyped, ApplyTyped
<1>3. Returned(r, Now) \in {"eager", "deferred"}
  BY DEF Returned
<1> QED
  BY <1>1, <1>2, <1>3, NowPrepared, AllocPreserves

LEMMA TakePreserves ==
  ASSUME IInv, NEW t \in Thunks, NEW s \in Live, NEW k \in Live, Take(t, s, k)
  PROVE  IInv'
<1> DEFINE c == CheckEagerArgs(s, {k})
<1>1. PICK v \in Values(s, c), idx \in Values(k, c) :
        Heap!InBounds(v, idx) /\ Alloc(t, Returned(s, c), Heap!Gather(v, idx), c)
  BY DEF Take
<1>2. Prepared(c)
  BY ArgsPrepared
<1>3. Heap!Gather(v, idx) \in Seq(Val)
  BY <1>1, <1>2, ValuesTyped, GatherTyped
<1>4. Returned(s, c) \in {"eager", "deferred"}
  BY DEF Returned
<1> HIDE DEF c
<1> QED
  BY <1>1, <1>2, <1>3, <1>4, AllocPreserves

LEMMA GetItemAdvancedPreserves ==
  ASSUME IInv, NEW t \in Thunks, NEW s \in Live, NEW k \in Live,
         GetItemAdvanced(t, s, k)
  PROVE  IInv'
<1>1. PICK v \in Values(s, Now), idx \in IndexValues(s, k, Now) :
        Heap!InBounds(v, idx) /\ Alloc(t, Returned(s, Now), Heap!Gather(v, idx), Now)
  BY DEF GetItemAdvanced
<1>2. Heap!Gather(v, idx) \in Seq(Val)
  BY <1>1, NowPrepared, ValuesTyped, IndexValuesTyped, GatherTyped
<1>3. Returned(s, Now) \in {"eager", "deferred"}
  BY DEF Returned
<1> QED
  BY <1>1, <1>2, <1>3, NowPrepared, AllocPreserves

LEMMA SetItemAdvancedPreserves ==
  ASSUME IInv, NEW t \in Live, NEW k \in Live, NEW r \in Live,
         SetItemAdvanced(t, k, r)
  PROVE  IInv'
<1> DEFINE c == CheckEagerArgs(t, {r})
<1>1. PICK v \in Values(r, c), old \in Values(t, c), idx \in IndexValues(t, k, c) :
        /\ Len(v) = 1 /\ Heap!InBounds(old, idx)
        /\ Write(t, Heap!Positions(old, idx), v, c)
  BY DEF SetItemAdvanced
<1>2. Prepared(c)
  BY ArgsPrepared
<1>3. idx \in Seq(Val)
  BY <1>1, <1>2, IndexValuesTyped
<1> HIDE DEF c
<1>4. Exports(c.owner)
  BY <1>2, NoExport DEF SetItemAdvanced, Prepared
<1>5. v \in Seq(Val) /\ old \in Seq(Val) /\ Len(old) = Extent(t)
  BY <1>2, ValuesTyped
<1>6. /\ Heap!Positions(old, idx) \in Seq(Nat)
      /\ \A i \in DOMAIN Heap!Positions(old, idx) :
           Heap!Positions(old, idx)[i] \in 1..Extent(t)
  BY <1>1, <1>3, <1>5, PositionsTyped
<1> QED
  BY <1>1, <1>2, <1>4, <1>5, <1>6, WritePreserves

---------------------------------------------------------------------------
(* The theorems *)

LEMMA InitHolds == Init => IInv
<1> SUFFICES ASSUME Init
             PROVE  IInv
  OBVIOUS
<1>1. Eager = {} /\ Live = {}
  BY DEF Init, Eager, Live
<1>2. /\ \A S : <<>> \in Seq(S)
      /\ mem \in [Bufs -> Seq(Val)]
      /\ cells \in [Thunks -> Seq(Nat)] /\ path \in [Thunks -> Seq(Nat)]
  BY EmptySeq DEF Init
<1>3. Fields
  BY <1>2 DEF Init, Fields
<1>4. Forest
  BY <1>1 DEF Init, Forest, RootsApart
<1>5. Twins(deferred, owner)
  BY <1>1 DEF Init, Twins, Owners
<1>6. Contents(deferred)
  BY <1>1, <1>2 DEF Contents
<1> QED
  BY <1>3, <1>4, <1>5, <1>6 DEF IInv, Inv

LEMMA NextPreserves == IInv /\ [TreeNext]_vars => IInv'
<1> SUFFICES ASSUME IInv, [TreeNext]_vars
             PROVE  IInv'
  OBVIOUS
<1>1. \A t : t \in Live => t \in Thunks
  BY DEF Live
<1>2. CASE \E t \in Thunks : Create(t) \/ ToDeferred(t) \/ NumpyArray(t)
  BY <1>2, CreatePreserves, ToDeferredPreserves, NumpyArrayPreserves
<1>3. CASE \E t \in Live : Fill(t)
  BY <1>3, FillPreserves
<1>4. CASE \E t \in Thunks, p \in Live : View(t, p) \/ Derive(t, p)
  BY <1>4, ViewPreserves, DerivePreserves
<1>5. CASE \E t, r \in Live : UnaryOp(t, r) \/ \E key \in KeysToSet(t) : SetItem(t, key, r)
  BY <1>5, UnaryOpPreserves, SetItemPreserves
<1>6. CASE \E t, r, s \in Live : BinaryOp(t, r, s) \/ UfuncMethod(t, r, s)
  BY <1>6, BinaryOpPreserves, UfuncMethodPreserves
<1>7. CASE \E t \in Thunks, s, k \in Live : Take(t, s, k)
  BY <1>7, TakePreserves
<1>8. CASE \E t \in Thunks, s, k \in Live : GetItemAdvanced(t, s, k)
  BY <1>8, GetItemAdvancedPreserves
<1>9. CASE \E t, k, r \in Live : SetItemAdvanced(t, k, r)
  BY <1>9, SetItemAdvancedPreserves
<1>10. CASE UNCHANGED vars
  <2>1. UNCHANGED <<kind, buf, cells, root, path, own, deferred, escaped, owner, mem, held>>
    BY <1>10 DEF vars, state
  <2>2. Live' = Live /\ Eager' = Eager /\ \A u : Place(deferred, u)' = Place(deferred, u)
    BY <2>1 DEF Live, Eager, Place
  <2> QED
    BY <2>1, <2>2 DEF IInv, Inv, Fields, Forest, RootsApart, Twins, Contents
<1> QED
  BY <1>2, <1>3, <1>4, <1>5, <1>6, <1>7, <1>8, <1>9, <1>10 DEF TreeNext, Plain

LEMMA Invariant == TreeSpec => []IInv
<1> QED
  BY InitHolds, NextPreserves, PTL DEF TreeSpec

\* Every field keeps its type; the elements of every array stay values.
THEOREM TypeCorrect == TreeSpec => []TypeOK
<1>1. IInv => TypeOK
  BY DEF IInv, Inv, Fields, Twins, Contents, TypeOK
<1> QED
  BY <1>1, Invariant, PTL

\* The thunks of a tree are converted together, whatever array of it meets a
\* deferred one, and however many views it has.
THEOREM TreesConvertWhole == TreeSpec => []WholeTree
<1>1. IInv => WholeTree
  BY DEF IInv, Inv, Twins, WholeTree, Forest
<1> QED
  BY <1>1, Invariant, PTL

\* No buffer that was handed to the application is ever donated.
THEOREM EscapedStaysShared == TreeSpec => []HeldNotDonated
<1>1. IInv => HeldNotDonated
  BY DEF IInv, Inv, Twins, HeldNotDonated
<1> QED
  BY <1>1, Invariant, PTL

\* Through any chain of views, converted or not, an array shows the cells of
\* its root that its keys select.
THEOREM ViewsStayViews == TreeSpec => []ViewsShareMemory
<1>1. IInv => ViewsShareMemory
  <2> SUFFICES ASSUME IInv, NEW t \in Eager
               PROVE  Loc(t) = ViewAt(Loc(root[t]), path[t])
    BY DEF ViewsShareMemory
  <2>1. /\ root[t] \in Eager /\ buf[root[t]] = buf[t]
        /\ cells[t] = Sel(cells[root[t]], path[t])
    BY DEF IInv, Inv, Forest
  <2>2. \A u \in Eager : Loc(u) = [base |-> buf[u], cells |-> cells[u]]
    BY DEF IInv, Inv, Twins, Place, Loc
  <2> QED
    BY <2>1, <2>2 DEF ViewAt
<1> QED
  BY <1>1, Invariant, PTL
=============================================================================
