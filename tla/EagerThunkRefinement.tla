------------------------ MODULE EagerThunkRefinement ------------------------
(***************************************************************************)
(* Proof that the hybrid evaluation is invisible (EagerThunk under         *)
(* TreeSpec implements ArrayHeap), for any number of arrays, any sizes and *)
(* any keys: what NumPy or a store computes, before or after a tree has    *)
(* been converted, is what the heap of arrays computes.                    *)
(***************************************************************************)
EXTENDS EagerThunkProofs

---------------------------------------------------------------------------
(* The heap that a state stands for *)

\* The live arrays are where Loc says, in memory that is not free.
LEMMA HeapOfState ==
  ASSUME IInv
  PROVE  /\ Heap!Live = Live
         /\ \A u \in Live : /\ Arrays[u] = Loc(u) /\ Loc(u) \in Locations
                            /\ owner[Loc(u).base] # "free"
         /\ \A u \in Thunks : kind[u] = "none" <=> Arrays[u] = None
<1>1. \A u \in Live : u \in Thunks /\ (deferred[u] # None \/ kind[u] = "eager")
  BY DEF Live, IInv, Inv, Fields, Twins
<1>2. \A u \in Live : Loc(u) = Place(deferred, u) /\ Arrays[u] = Loc(u)
  BY <1>1 DEF Loc, Place, Arrays
<1>3. \A u \in Live : Loc(u) \in Locations /\ owner[Loc(u).base] # "free"
  BY <1>2, LocOfLive DEF IInv, Inv, Twins
<1>4. \A u \in Thunks : kind[u] = "none" <=> Arrays[u] = None
  <2>1. \A u \in Thunks : kind[u] = "none" => Arrays[u] = None
    BY DEF Arrays, IInv, Inv, Twins
  <2>2. \A u \in Thunks : kind[u] # "none" => Arrays[u] # None
    BY <1>2, <1>3, NoneAssumption DEF Live
  <2> QED
    BY <2>1, <2>2
<1>5. Heap!Live = Live
  BY <1>4 DEF Heap!Live, Live
<1> QED
  BY <1>2, <1>3, <1>4, <1>5

\* The cells of a live array are a sequence.
LEMMA CellsOfLive ==
  ASSUME IInv, NEW u \in Live
  PROVE  /\ Arrays[u] = Loc(u) /\ Loc(u) \in Locations
         /\ Loc(u).base \in Bufs /\ Loc(u).cells \in Seq(Nat)
         /\ Len(Loc(u).cells) \in Nat
         /\ DOMAIN Loc(u).cells = 1..Len(Loc(u).cells)
<1>1. Arrays[u] = Loc(u) /\ Loc(u) \in Locations
  BY HeapOfState
<1>2. Loc(u).base \in Bufs /\ Loc(u).cells \in Seq(Nat)
  BY <1>1 DEF Locations
<1> QED
  BY <1>1, <1>2, LenProperties

\* Keys mean the same in the heap.
LEMMA KeysOfHeap ==
  ASSUME IInv, NEW u \in Live
  PROVE  Heap!Whole(u) = Whole(u) /\ Heap!KeysOf(u) = KeysOf(u)
<1>1. Arrays[u] = Loc(u) /\ DOMAIN Loc(u).cells = 1..Extent(u)
  BY CellsOfLive DEF Extent
<1>2. Heap!Whole(u) = Whole(u)
  BY <1>1 DEF Heap!Whole, Whole, Identity
<1> QED
  BY <1>1, <1>2 DEF Heap!KeysOf, KeysOf

\* Whatever way an operation takes to the contents of an array, it reads
\* what the heap has there: no stale copy, no donated buffer.
LEMMA ValuesOfHeap ==
  ASSUME IInv, NEW c, Prepared(c), NEW u \in Live
  PROVE  Values(u, c) = {Heap!Read(u)}
<1>1. Heap!Read(u) = ReadAt(mem, Loc(u))
  BY HeapOfState DEF Heap!Read, Heap!ReadAt, Heap!Sel, ReadAt, Sel
<1>2. /\ Inv(c.deferred, c.owner) /\ Place(c.deferred, u) = Loc(u)
      /\ c.mem = mem
  BY DEF Prepared
<1>3. CASE c.deferred[u] # None
  BY <1>1, <1>2, <1>3 DEF Values, Place
<1>4. CASE c.deferred[u] = None
  <2>1. u \in Eager
    BY <1>2, <1>4 DEF Inv, Twins, Live, Eager, Fields
  <2>2. c.owner[buf[u]] = "numpy"
    BY <1>2, <1>4, <2>1 DEF Inv, Twins
  <2> QED
    BY <1>1, <1>2, <1>4, <2>2 DEF Values, HostValues, Place, ReadAt
<1> QED
  BY <1>3, <1>4

\* A conversion leaves the heap as it is.
LEMMA ConversionInvisible ==
  ASSUME IInv, NEW c, Prepared(c), deferred' = c.deferred,
         UNCHANGED <<kind, buf, cells>>
  PROVE  Arrays' = Arrays
<1>1. Inv(c.deferred, c.owner) /\ \A u \in Live : Place(c.deferred, u) = Loc(u)
  BY DEF Prepared
<1>2. \A u \in Thunks : kind[u] = "none" => c.deferred[u] = None
  BY <1>1 DEF Inv, Twins
<1>3. \A u \in Live : c.deferred[u] # None \/ kind[u] = "eager"
  BY <1>1 DEF Inv, Twins, Live, Fields
<1>4. ASSUME NEW u \in Thunks
      PROVE  Arrays'[u] = Arrays[u]
  <2>1. CASE u \in Live
    BY <1>1, <1>3, <2>1, HeapOfState DEF Arrays, Place
  <2>2. CASE u \notin Live
    <3>1. kind[u] = "none" /\ deferred[u] = None
      BY <2>2 DEF Live, IInv, Inv, Twins
    <3> QED
      BY <1>2, <3>1 DEF Arrays
  <2> QED
    BY <2>1, <2>2
<1> QED
  BY <1>4 DEF Arrays

---------------------------------------------------------------------------
(* The building blocks of the operations *)

\* An assignment is an assignment of the heap: it never gets lost in memory
\* that is not NumPy's any more.
LEMMA WriteIsAssign ==
  ASSUME IInv, NEW c, Prepared(c), NEW t \in Live, NEW key, NEW v,
         Write(t, key, v, c)
  PROVE  Heap!Assign(t, key, v)
<1>1. Inv(c.deferred, c.owner) /\ Place(c.deferred, t) = Loc(t) /\ c.mem = mem
  BY DEF Prepared
<1>2. Arrays[t] = Loc(t)
  BY HeapOfState
<1>3. /\ Fits(v, Len(key)) /\ deferred' = c.deferred /\ UNCHANGED <<kind, buf, cells>>
      /\ \/ mem' = PutAt(mem, ViewAt(Loc(t), key), v)
         \/ c.deferred[t] = None /\ c.owner[buf[t]] # "numpy"
  BY <1>1 DEF Write, Place
<1>4. c.deferred[t] = None => c.owner[buf[t]] = "numpy"
  BY <1>1 DEF Inv, Twins, Live, Eager, Fields
<1>5. mem' = PutAt(mem, ViewAt(Loc(t), key), v)
  BY <1>3, <1>4
<1>6. Arrays' = Arrays
  BY <1>3, ConversionInvisible
<1> QED
  BY <1>2, <1>3, <1>5, <1>6
     DEF Heap!Assign, Heap!Fits, Heap!PutAt, Heap!ViewAt, Heap!Sel, Heap!Spread,
         Fits, PutAt, ViewAt, Sel, Spread

\* A new array is in memory that no array of the heap shows.
LEMMA AllocIsFresh ==
  ASSUME IInv, NEW c, Prepared(c), NEW t \in Thunks, NEW k \in {"eager", "deferred"},
         NEW v \in Seq(Val), Alloc(t, k, v, c)
  PROVE  Heap!Fresh(t, v)
<1> DEFINE free == {x \in Bufs : c.owner[x] = "free"}
           b == CHOOSE x \in free : TRUE
           id == Identity(Len(v))
           loc == [base |-> b, cells |-> id]
<1>1. b \in Bufs /\ c.owner[b] = "free" /\ owner[b] = "free"
  <2>1. b \in free
    BY DEF Alloc
  <2> QED
    BY <2>1 DEF Prepared
<1>2. /\ kind[t] = "none" /\ kind' = [kind EXCEPT ![t] = k]
      /\ mem' = [mem EXCEPT ![b] = v]
      /\ \/ /\ k = "eager" /\ deferred' = c.deferred
            /\ buf' = [buf EXCEPT ![t] = b] /\ cells' = [cells EXCEPT ![t] = id]
         \/ /\ k = "deferred" /\ deferred' = [c.deferred EXCEPT ![t] = loc]
            /\ UNCHANGED <<buf, cells>>
  BY DEF Alloc, Prepared
<1> HIDE DEF b, id, free
<1>3. id = [i \in DOMAIN v |-> i] /\ id \in Seq(Nat)
  BY IdentityIsSeq, LenProperties DEF id, Identity
<1>4. loc \in Locations
  BY <1>1, <1>3 DEF Locations
<1>5. /\ Inv(c.deferred, c.owner) /\ \A u \in Live : Place(c.deferred, u) = Loc(u)
      /\ \A u \in Live : c.deferred[u] # None \/ kind[u] = "eager"
      /\ \A u \in Thunks : kind[u] = "none" => c.deferred[u] = None /\ u \notin Live
  BY DEF Prepared, Inv, Twins, Live, Fields
<1>6. Arrays' = [Arrays EXCEPT ![t] = loc]
  <2>1. ASSUME NEW u \in Thunks
        PROVE  Arrays'[u] = IF u = t THEN loc ELSE Arrays[u]
    <3>1. CASE u = t
      <4>1. c.deferred[t] = None /\ kind'[t] = k
        BY <1>2, <1>5 DEF Inv, Fields
      <4>2. CASE k = "eager"
        BY <1>2, <1>5, <3>1, <4>1, <4>2 DEF Arrays, Inv, Fields
      <4>3. CASE k = "deferred"
        <5>1. deferred'[t] = loc /\ loc # None
          BY <1>2, <1>4, <1>5, <4>3, NoneAssumption DEF Inv, Twins
        <5> QED
          BY <3>1, <5>1 DEF Arrays
      <4> QED
        BY <4>2, <4>3
    <3>2. CASE u # t
      <4>1. /\ kind'[u] = kind[u] /\ deferred'[u] = c.deferred[u]
            /\ buf'[u] = buf[u] /\ cells'[u] = cells[u]
        BY <1>2, <1>5, <3>2 DEF Inv, Fields, Twins
      <4>2. CASE u \in Live
        BY <1>5, <3>2, <4>1, <4>2, HeapOfState, ZenonT(40) DEF Arrays, Place
      <4>3. CASE u \notin Live
        <5>1. kind[u] = "none" /\ deferred[u] = None
          BY <4>3 DEF Live, IInv, Inv, Twins
        <5> QED
          BY <1>5, <3>2, <4>1, <5>1 DEF Arrays
      <4> QED
        BY <4>2, <4>3
    <3> QED
      BY <3>1, <3>2
  <2> QED
    BY <2>1 DEF Arrays
<1>7. Arrays[t] = None
  BY <1>2, HeapOfState
<1>8. b \in Bufs \ Heap!Used
  BY <1>1, HeapOfState DEF Heap!Used
<1> QED
  BY <1>2, <1>3, <1>6, <1>7, <1>8 DEF Heap!Fresh

\* Assigning to an array what it shows already changes nothing.
LEMMA AssignOwnValues ==
  ASSUME NEW m \in [Bufs -> Seq(Val)], NEW l \in Locations,
         \A i \in DOMAIN l.cells : l.cells[i] \in DOMAIN m[l.base]
  PROVE  /\ PutAt(m, l, ReadAt(m, l)) = m
         /\ Len(ReadAt(m, l)) = Len(l.cells)
<1> DEFINE n == Len(l.cells)
           v == ReadAt(m, l)
           w == Spread(v, n)
           hit(c) == \E i \in DOMAIN l.cells : l.cells[i] = c
           at(c) == CHOOSE i \in DOMAIN l.cells : l.cells[i] = c
           new == [c \in DOMAIN m[l.base] |-> IF hit(c) THEN w[at(c)] ELSE m[l.base][c]]
<1>1. /\ l.base \in Bufs /\ l.cells \in Seq(Nat) /\ m[l.base] \in Seq(Val)
      /\ n \in Nat /\ DOMAIN l.cells = 1..n
  BY LenProperties DEF Locations
<1>2. \A i \in DOMAIN l.cells : m[l.base][l.cells[i]] \in Val
  BY <1>1, ElementOfSeq, LenProperties
<1>3. v \in Seq(Val) /\ Len(v) = n
  <2>1. l.cells \in Seq(Nat) /\ \A i \in DOMAIN l.cells : m[l.base][l.cells[i]] \in Val
    BY <1>1, <1>2
  <2>2. /\ Sel(m[l.base], l.cells) \in Seq(Val)
        /\ Len(Sel(m[l.base], l.cells)) = Len(l.cells)
    BY <2>1, SelIsSeq
  <2> QED
    BY <2>2 DEF ReadAt
<1>4. \A i \in 1..n : v[i] = m[l.base][l.cells[i]]
  BY <1>1 DEF ReadAt, Sel
<1> HIDE DEF v, n
<1>5. \A i \in 1..n : w[i] = v[i]
  <2>1. CASE Len(v) = 1
    <3>1. n = 1 /\ w = [i \in 1..n |-> v[1]]
      BY <1>3, <2>1 DEF Spread
    <3> QED
      BY <3>1
  <2>2. CASE Len(v) # 1
    BY <2>2 DEF Spread
  <2> QED
    BY <2>1, <2>2
<1>6. \A c \in DOMAIN m[l.base] : (IF hit(c) THEN w[at(c)] ELSE m[l.base][c]) = m[l.base][c]
  <2> SUFFICES ASSUME NEW c \in DOMAIN m[l.base], hit(c)
               PROVE  w[at(c)] = m[l.base][c]
    OBVIOUS
  <2>1. at(c) \in 1..n /\ l.cells[at(c)] = c
    BY <1>1
  <2> QED
    BY <1>4, <1>5, <2>1
<1>7. new = m[l.base]
  <2>1. m[l.base] = [c \in DOMAIN m[l.base] |-> m[l.base][c]]
    BY <1>1
  <2> QED
    BY <1>6, <2>1
<1>8. PutAt(m, l, v) = [m EXCEPT ![l.base] = new]
  BY <1>1 DEF PutAt, n
<1> HIDE DEF new
<1> QED
  BY <1>1, <1>3, <1>7, <1>8 DEF v, n

---------------------------------------------------------------------------
(* The operations *)

LEMMA CreateIsNew ==
  ASSUME IInv, NEW t \in Thunks, Create(t)
  PROVE  Heap!New(t)
<1>1. PICK k \in {"eager", "deferred"}, v \in Unspecified(Size) : Alloc(t, k, v, Now)
  BY DEF Create
<1>2. v \in Seq(Val) /\ v \in [1..Size -> Val]
  BY SizeAssumption, UnspecifiedIsSeq DEF Unspecified
<1>3. Heap!Fresh(t, v)
  BY <1>1, <1>2, NowPrepared, AllocIsFresh
<1> QED
  BY <1>2, <1>3 DEF Create, Heap!New, Heap!Val, Val

\* A conversion on its own, and an escape, are not steps of the user's.
LEMMA ToDeferredIsStutter ==
  ASSUME IInv, NEW t \in Thunks, ToDeferred(t)
  PROVE  UNCHANGED Heap!vars
<1> DEFINE c == ConvertTree(t)
<1>1. t \in Eager /\ deferred[t] = None
  BY DEF ToDeferred
<1>2. Prepared(c) /\ c.mem = mem
  BY <1>1, Conversion DEF Prepared
<1>3. deferred' = c.deferred /\ mem' = c.mem /\ UNCHANGED <<kind, buf, cells, call>>
  BY DEF ToDeferred
<1> HIDE DEF c
<1> QED
  BY <1>2, <1>3, ConversionInvisible DEF Heap!vars

LEMMA NumpyArrayIsStutter ==
  ASSUME IInv, NEW t \in Thunks, NumpyArray(t)
  PROVE  UNCHANGED Heap!vars
BY DEF NumpyArray, Heap!vars, Arrays

LEMMA FillIsFill ==
  ASSUME IInv, NEW t \in Live, Fill(t)
  PROVE  Heap!Fill(t)
<1>1. PICK x \in Val : Write(t, Whole(t), <<x>>, Now)
  BY DEF Fill
<1>2. Heap!Assign(t, Heap!Whole(t), <<x>>)
  BY <1>1, NowPrepared, WriteIsAssign, KeysOfHeap
<1> QED
  BY <1>2 DEF Fill, Heap!Fill, Heap!Val, Val

\* A view of a store and a child in the tree show the same cells.
LEMMA ViewIsView ==
  ASSUME IInv, NEW t \in Thunks, NEW p \in Live, View(t, p)
  PROVE  Heap!View(t, p)
<1>1. PICK key \in KeysOf(p) :
        /\ kind[t] = "none" /\ mem' = mem
        /\ \/ /\ deferred[p] # None
              /\ kind' = [kind EXCEPT ![t] = "deferred"]
              /\ deferred' = [deferred EXCEPT ![t] = ViewAt(deferred[p], key)]
              /\ UNCHANGED <<buf, cells>>
           \/ /\ deferred[p] = None
              /\ kind' = [kind EXCEPT ![t] = "eager"]
              /\ buf' = [buf EXCEPT ![t] = buf[p]]
              /\ cells' = [cells EXCEPT ![t] = Sel(cells[p], key)]
              /\ UNCHANGED deferred
  BY DEF View
<1>2. /\ Loc(p) \in Locations /\ Arrays[p] = Loc(p)
      /\ \A u \in Thunks : kind[u] = "none" => deferred[u] = None
  BY HeapOfState DEF IInv, Inv, Twins
<1>3. /\ ViewAt(Loc(p), key) \in Locations
      /\ ViewAt(Loc(p), key) = [base |-> Loc(p).base, cells |-> Sel(Loc(p).cells, key)]
  <2>1. key \in Seq(Nat) /\ \A i \in DOMAIN key : key[i] \in 1..Len(Loc(p).cells)
    BY KeysAssumption DEF KeysOf, Extent
  <2>2. Loc(p).cells \in Seq(Nat) /\ Loc(p).base \in Bufs
    BY <1>2 DEF Locations
  <2>3. Sel(Loc(p).cells, key) \in Seq(Nat)
    BY <2>1, <2>2, SelOfPositions
  <2> QED
    BY <1>2, <2>2, <2>3 DEF ViewAt, Locations
<1>4. Arrays[t] = None
  BY <1>1, HeapOfState
<1>5. Arrays' = [Arrays EXCEPT ![t] = ViewAt(Loc(p), key)]
  <2>1. ASSUME NEW u \in Thunks
        PROVE  Arrays'[u] = IF u = t THEN ViewAt(Loc(p), key) ELSE Arrays[u]
    <3>1. CASE deferred[p] # None
      <4>1. /\ kind' = [kind EXCEPT ![t] = "deferred"]
            /\ deferred' = [deferred EXCEPT ![t] = ViewAt(Loc(p), key)]
            /\ UNCHANGED <<buf, cells>>
        BY <1>1, <3>1 DEF Loc
      <4>2. CASE u = t
        <5>1. deferred'[t] = ViewAt(Loc(p), key) /\ ViewAt(Loc(p), key) # None
          BY <1>3, <4>1, NoneAssumption DEF IInv, Inv, Twins
        <5> QED
          BY <4>2, <5>1 DEF Arrays
      <4>3. CASE u # t
        BY <4>1, <4>3 DEF Arrays, IInv, Inv, Twins, Fields
      <4> QED
        BY <4>2, <4>3
    <3>2. CASE deferred[p] = None
      <4>1. /\ kind' = [kind EXCEPT ![t] = "eager"]
            /\ buf' = [buf EXCEPT ![t] = Loc(p).base]
            /\ cells' = [cells EXCEPT ![t] = Sel(Loc(p).cells, key)]
            /\ UNCHANGED deferred
        BY <1>1, <3>2 DEF Loc
      <4>2. CASE u = t
        <5>1. /\ deferred'[t] = None /\ kind'[t] = "eager"
              /\ buf'[t] = Loc(p).base /\ cells'[t] = Sel(Loc(p).cells, key)
          BY <1>1, <1>2, <4>1 DEF IInv, Inv, Fields
        <5> QED
          BY <1>3, <4>2, <5>1 DEF Arrays
      <4>3. CASE u # t
        BY <4>1, <4>3 DEF Arrays, IInv, Inv, Fields
      <4> QED
        BY <4>2, <4>3
    <3> QED
      BY <3>1, <3>2
  <2> QED
    BY <2>1 DEF Arrays
<1>6. key \in Heap!KeysOf(p)
  BY KeysOfHeap
<1> QED
  BY <1>1, <1>2, <1>4, <1>5, <1>6
     DEF View, Heap!View, Heap!ViewAt, Heap!Sel, ViewAt, Sel

\* An array of equal storage in the same order is what it is assigned.
LEMMA SameStorageIsAssign ==
  ASSUME IInv, NEW c, Prepared(c), NEW t \in Live, NEW r \in Live,
         NEW key \in Seq(Nat), \A i \in DOMAIN key : key[i] \in 1..Extent(t),
         SameStorage(t, key, r, c), ~Transposed(t, key, r, c), Skip(c)
  PROVE  Heap!Assign(t, key, Heap!Read(r))
<1> DEFINE l == ViewAt(Loc(t), key)
<1>1. /\ Inv(c.deferred, c.owner) /\ c.mem = mem
      /\ Place(c.deferred, t) = Loc(t) /\ Place(c.deferred, r) = Loc(r)
  BY DEF Prepared
<1>2. Loc(r).base = l.base /\ Loc(r).cells = l.cells
  BY <1>1 DEF SameStorage, Transposed, Place
<1>3. /\ Loc(t) \in Locations /\ Loc(r) \in Locations
      /\ Arrays[t] = Loc(t) /\ Arrays[r] = Loc(r)
      /\ Loc(t).cells \in Seq(Nat) /\ Loc(t).base \in Bufs
  BY CellsOfLive
<1>4. Len(l.cells) = Len(key) /\ l \in Locations
  <2>1. Sel(Loc(t).cells, key) \in Seq(Nat) /\ Len(Sel(Loc(t).cells, key)) = Len(key)
    BY <1>3, SelOfPositions DEF Extent
  <2> QED
    BY <1>3, <2>1 DEF ViewAt, Locations
<1> HIDE DEF l
<1>5. \A i \in DOMAIN l.cells : l.cells[i] \in DOMAIN mem[l.base]
  BY <1>1, <1>2, LocOfLive
<1>6. mem \in [Bufs -> Seq(Val)]
  BY DEF IInv, Inv, Contents
<1>7. /\ PutAt(mem, l, ReadAt(mem, l)) = mem
      /\ Len(ReadAt(mem, l)) = Len(key)
  BY <1>4, <1>5, <1>6, AssignOwnValues
<1>8. Heap!Read(r) = ReadAt(mem, l)
  BY <1>2, <1>3 DEF Heap!Read, Heap!ReadAt, Heap!Sel, ReadAt, Sel
<1>9. Arrays' = Arrays /\ mem' = mem
  BY <1>1, ConversionInvisible DEF Skip
<1>10. /\ Fits(Heap!Read(r), Len(key))
       /\ mem' = PutAt(mem, ViewAt(Arrays[t], key), Heap!Read(r))
  BY <1>3, <1>7, <1>8, <1>9 DEF Fits, l
<1> QED
  BY <1>9, <1>10
     DEF Heap!Assign, Heap!Fits, Heap!PutAt, Heap!ViewAt, Heap!Sel, Heap!Spread,
         Fits, PutAt, ViewAt, Sel, Spread

LEMMA SetItemIsCopy ==
  ASSUME IInv, NEW t \in Live, NEW r \in Live, NEW key \in KeysToSet(t),
         ~Transposed(t, key, r, CheckEagerArgs(t, {r})), SetItem(t, key, r)
  PROVE  Heap!Copy(t, key, r)
<1> DEFINE c == CheckEagerArgs(t, {r})
<1>1. /\ IF SameStorage(t, key, r, c) THEN Skip(c)
         ELSE \E v \in Values(r, c) : Write(t, key, v, c)
      /\ call' = <<"copy", t, key, r>>
  BY DEF SetItem
<1>2. Prepared(c)
  BY ArgsPrepared
<1>3. key \in Seq(Nat) /\ \A i \in DOMAIN key : key[i] \in 1..Extent(t)
  <2>1. CASE key = Whole(t)
    BY <2>1, WholeIsSeq
  <2>2. CASE key \in KeysOf(t)
    BY <2>2, KeysAssumption DEF KeysOf
  <2> QED
    BY <2>1, <2>2 DEF KeysToSet
<1>4. ~Transposed(t, key, r, c)
  OBVIOUS
<1> HIDE DEF c
<1>5. CASE SameStorage(t, key, r, c)
  BY <1>1, <1>2, <1>3, <1>4, <1>5, SameStorageIsAssign DEF Heap!Copy
<1>6. CASE ~SameStorage(t, key, r, c)
  BY <1>1, <1>2, <1>6, ValuesOfHeap, WriteIsAssign DEF Heap!Copy
<1> QED
  BY <1>5, <1>6

\* An operand that is not overwritten in another order is read as it is.
LEMMA OperandsOfHeap ==
  ASSUME IInv, NEW c, Prepared(c), NEW t, NEW r \in Live, ~Transposed(t, Whole(t), r, c)
  PROVE  Operands(t, r, c) = {Heap!Read(r)}
BY ValuesOfHeap DEF Operands

LEMMA UnaryOpIsCopy ==
  ASSUME IInv, NEW t \in Live, NEW r \in Live,
         ~Transposed(t, Whole(t), r, CheckEagerArgs(t, {r})), UnaryOp(t, r)
  PROVE  Heap!Copy(t, Whole(t), r)
<1> DEFINE c == CheckEagerArgs(t, {r})
<1>1. /\ \E v \in Operands(t, r, c) : Write(t, Whole(t), v, c)
      /\ call' = <<"copy", t, Whole(t), r>>
      /\ ~Transposed(t, Whole(t), r, c)
  BY DEF UnaryOp
<1>2. Prepared(c)
  BY ArgsPrepared
<1> HIDE DEF c
<1> QED
  BY <1>1, <1>2, OperandsOfHeap, WriteIsAssign DEF Heap!Copy

LEMMA BinaryOpIsUfunc ==
  ASSUME IInv, NEW t \in Live, NEW r \in Live, NEW s \in Live,
         \A a \in {r, s} : ~Transposed(t, Whole(t), a, CheckEagerArgs(t, {r, s})),
         BinaryOp(t, r, s)
  PROVE  Heap!Ufunc(t, r, s)
<1> DEFINE c == CheckEagerArgs(t, {r, s})
<1>1. PICK v \in Operands(t, r, c), w \in Operands(t, s, c) :
        /\ Fits(v, Len(w)) \/ Len(w) = 1
        /\ Write(t, Whole(t), Heap!Add(v, w), c)
  BY DEF BinaryOp
<1>2. call' = <<"ufunc", t, r, s>>
  BY DEF BinaryOp
<1>3. Prepared(c)
  BY ArgsPrepared
<1>4. ~Transposed(t, Whole(t), r, c) /\ ~Transposed(t, Whole(t), s, c)
  OBVIOUS
<1> HIDE DEF c
<1>5. v = Heap!Read(r) /\ w = Heap!Read(s)
  BY <1>3, <1>4, OperandsOfHeap
<1>6. Heap!Assign(t, Heap!Whole(t), Heap!Add(v, w))
  BY <1>1, <1>3, WriteIsAssign, KeysOfHeap
<1> QED
  BY <1>1, <1>2, <1>5, <1>6 DEF Heap!Ufunc, Heap!Fits, Fits

LEMMA UfuncMethodIsUfunc ==
  ASSUME IInv, NEW t \in Live, NEW r \in Live, NEW out \in Live,
         UfuncMethod(t, r, out)
  PROVE  Heap!Ufunc(out, t, r)
<1>1. PICK v \in Values(t, Now), w \in Values(r, Now) :
        /\ Fits(v, Len(w)) \/ Len(w) = 1
        /\ Write(out, Whole(out), Heap!Add(v, w), Now)
  BY DEF UfuncMethod
<1>2. call' = <<"ufunc", out, t, r>>
  BY DEF UfuncMethod
<1>3. v = Heap!Read(t) /\ w = Heap!Read(r)
  BY NowPrepared, ValuesOfHeap
<1>4. Heap!Assign(out, Heap!Whole(out), Heap!Add(v, w))
  BY <1>1, NowPrepared, WriteIsAssign, KeysOfHeap
<1> QED
  BY <1>1, <1>2, <1>3, <1>4 DEF Heap!Ufunc, Heap!Fits, Fits

LEMMA DeriveIsDerive ==
  ASSUME IInv, NEW t \in Thunks, NEW r \in Live, Derive(t, r)
  PROVE  Heap!Derive(t, r)
<1>1. PICK v \in Values(r, Now) :
        \E f \in {v, Heap!Apply(v)} : Alloc(t, Returned(r, Now), f, Now)
  BY DEF Derive
<1>2. v \in Seq(Val) /\ Heap!Apply(v) \in Seq(Val)
  BY NowPrepared, ValuesTyped, ApplyTyped
<1>3. Returned(r, Now) \in {"eager", "deferred"}
  BY DEF Returned
<1>4. v = Heap!Read(r)
  BY NowPrepared, ValuesOfHeap
<1>5. \E f \in {v, Heap!Apply(v)} : Heap!Fresh(t, f)
  BY <1>1, <1>2, <1>3, NowPrepared, AllocIsFresh
<1> QED
  BY <1>4, <1>5 DEF Derive, Heap!Derive

LEMMA TakeIsTake ==
  ASSUME IInv, NEW t \in Thunks, NEW s \in Live, NEW k \in Live, Take(t, s, k)
  PROVE  Heap!Take(t, s, k)
<1> DEFINE c == CheckEagerArgs(s, {k})
<1>1. PICK v \in Values(s, c), idx \in Values(k, c) :
        Heap!InBounds(v, idx) /\ Alloc(t, Returned(s, c), Heap!Gather(v, idx), c)
  BY DEF Take
<1>2. Prepared(c)
  BY ArgsPrepared
<1>3. Heap!Gather(v, idx) \in Seq(Val)
  BY <1>1, <1>2, ValuesTyped, GatherTyped
<1>4. Returned(s, c) \in {"eager", "deferred"}
  BY DEF Returned
<1> HIDE DEF c
<1>5. v = Heap!Read(s) /\ idx = Heap!Read(k)
  BY <1>2, ValuesOfHeap
<1>6. Heap!Fresh(t, Heap!Gather(v, idx))
  BY <1>1, <1>2, <1>3, <1>4, AllocIsFresh
<1> QED
  BY <1>1, <1>5, <1>6 DEF Take, Heap!Take

\* An index array that has no twin, or is deferred, is read as it is, also
\* by an eager array that keeps to NumPy.
LEMMA IndexValuesOfHeap ==
  ASSUME IInv, NEW c, Prepared(c), NEW s, NEW k \in Live,
         k \in Eager /\ c.deferred[s] = None => c.deferred[k] = None
  PROVE  IndexValues(s, k, c) = {Heap!Read(k)}
<1>1. Inv(c.deferred, c.owner) /\ Values(k, c) = {Heap!Read(k)}
  BY ValuesOfHeap DEF Prepared
<1>2. CASE c.deferred[s] # None
  BY <1>1, <1>2 DEF IndexValues
<1>3. CASE c.deferred[s] = None /\ kind[k] = "deferred"
  <2>1. c.deferred[k] # None
    BY <1>1, <1>3 DEF Inv, Twins, Live
  <2> QED
    BY <1>1, <1>3, <2>1 DEF IndexValues, ToEagerValues, Values
<1>4. CASE c.deferred[s] = None /\ kind[k] # "deferred"
  <2>1. k \in Eager
    BY <1>1, <1>4 DEF Inv, Live, Eager, Fields
  <2> QED
    BY <1>1, <1>4, <2>1 DEF IndexValues, ToEagerValues, Values
<1> QED
  BY <1>2, <1>3, <1>4

LEMMA GetItemAdvancedIsTake ==
  ASSUME IInv, NEW t \in Thunks, NEW s \in Live, NEW k \in Live,
         k \in Eager => deferred[k] = None, GetItemAdvanced(t, s, k)
  PROVE  Heap!Take(t, s, k)
<1>1. PICK v \in Values(s, Now), idx \in IndexValues(s, k, Now) :
        Heap!InBounds(v, idx) /\ Alloc(t, Returned(s, Now), Heap!Gather(v, idx), Now)
  BY DEF GetItemAdvanced
<1>2. Heap!Gather(v, idx) \in Seq(Val)
  BY <1>1, NowPrepared, ValuesTyped, IndexValuesTyped, GatherTyped
<1>3. Returned(s, Now) \in {"eager", "deferred"}
  BY DEF Returned
<1>4. Now.deferred = deferred
  BY DEF Now
<1>5. v = Heap!Read(s) /\ idx = Heap!Read(k)
  BY <1>4, NowPrepared, ValuesOfHeap, IndexValuesOfHeap
<1>6. Heap!Fresh(t, Heap!Gather(v, idx))
  BY <1>1, <1>2, <1>3, NowPrepared, AllocIsFresh
<1> QED
  BY <1>1, <1>5, <1>6 DEF GetItemAdvanced, Heap!Take

LEMMA SetItemAdvancedIsPut ==
  ASSUME IInv, NEW t \in Live, NEW k \in Live, NEW r \in Live,
         k \in Eager => deferred[k] = None, SetItemAdvanced(t, k, r)
  PROVE  Heap!Put(t, k, r)
<1> DEFINE c == CheckEagerArgs(t, {r})
<1>1. PICK v \in Values(r, c), old \in Values(t, c), idx \in IndexValues(t, k, c) :
        /\ Len(v) = 1 /\ Heap!InBounds(old, idx)
        /\ Write(t, Heap!Positions(old, idx), v, c)
  BY DEF SetItemAdvanced
<1>2. call' = <<"put", t, k, r>>
  BY DEF SetItemAdvanced
<1>3. Prepared(c)
  BY ArgsPrepared
\* If the tree of t was converted, t is deferred; otherwise k is as it was.
<1>4. k \in Eager /\ c.deferred[t] = None => c.deferred[k] = None
  <2>1. CASE deferred[t] = None /\ \E a \in {r} : deferred[a] # None
    <3>1. t \in Eager
      BY <2>1 DEF IInv, Inv, Twins, Live, Eager, Fields
    <3>2. c = ConvertTree(t)
      BY <2>1 DEF CheckEagerArgs
    <3> HIDE DEF c
    <3> QED
      BY <2>1, <3>1, <3>2, Conversion
  <2>2. CASE ~(deferred[t] = None /\ \E a \in {r} : deferred[a] # None)
    BY <2>2 DEF CheckEagerArgs, Now
  <2> QED
    BY <2>1, <2>2
<1> HIDE DEF c
<1>5. v = Heap!Read(r) /\ old = Heap!Read(t) /\ idx = Heap!Read(k)
  BY <1>3, <1>4, ValuesOfHeap, IndexValuesOfHeap
<1>6. Heap!Assign(t, Heap!Positions(old, idx), v)
  BY <1>1, <1>3, WriteIsAssign
<1> QED
  BY <1>1, <1>2, <1>5, <1>6 DEF Heap!Put

---------------------------------------------------------------------------
(* The theorem *)

LEMMA StepsAreHeapSteps == IInv /\ [TreeNext]_vars => [Heap!Next]_(Heap!vars)
<1> SUFFICES ASSUME IInv, [TreeNext]_vars
             PROVE  [Heap!Next]_(Heap!vars)
  OBVIOUS
<1>1. Heap!Live = Live /\ \A t \in Live : t \in Thunks
  BY HeapOfState DEF Live
<1>2. CASE \E t \in Thunks : Create(t) \/ ToDeferred(t) \/ NumpyArray(t)
  BY <1>2, CreateIsNew, ToDeferredIsStutter, NumpyArrayIsStutter DEF Heap!Next
<1>3. CASE \E t \in Live : Fill(t)
  BY <1>1, <1>3, FillIsFill DEF Heap!Next
<1>4. CASE \E t \in Thunks, p \in Live : View(t, p) \/ Derive(t, p)
  BY <1>1, <1>4, ViewIsView, DeriveIsDerive DEF Heap!Next
<1>5. CASE \E t, r \in Live :
             /\ ~Transposed(t, Whole(t), r, CheckEagerArgs(t, {r}))
             /\ UnaryOp(t, r)
  BY <1>1, <1>5, UnaryOpIsCopy, KeysOfHeap DEF Heap!Next
<1>6. CASE \E t, r \in Live : \E key \in KeysToSet(t) :
             /\ ~Transposed(t, key, r, CheckEagerArgs(t, {r}))
             /\ SetItem(t, key, r)
  <2>1. \A t \in Live : KeysToSet(t) \subseteq Heap!KeysOf(t) \union {Heap!Whole(t)}
    BY KeysOfHeap DEF KeysToSet
  <2> QED
    BY <1>1, <1>6, <2>1, SetItemIsCopy DEF Heap!Next
<1>7. CASE \E t, r, s \in Live :
             /\ \A a \in {r, s} : ~Transposed(t, Whole(t), a, CheckEagerArgs(t, {r, s}))
             /\ BinaryOp(t, r, s)
  BY <1>1, <1>7, BinaryOpIsUfunc DEF Heap!Next
<1>8. CASE \E t, r, s \in Live : UfuncMethod(t, r, s)
  BY <1>1, <1>8, UfuncMethodIsUfunc DEF Heap!Next
<1>9. CASE \E t \in Thunks, s, k \in Live : Take(t, s, k)
  BY <1>1, <1>9, TakeIsTake DEF Heap!Next
<1>10. CASE \E t \in Thunks, s, k \in Live :
              (k \in Eager => deferred[k] = None) /\ GetItemAdvanced(t, s, k)
  BY <1>1, <1>10, GetItemAdvancedIsTake DEF Heap!Next
<1>11. CASE \E t, k, r \in Live :
              (k \in Eager => deferred[k] = None) /\ SetItemAdvanced(t, k, r)
  BY <1>1, <1>11, SetItemAdvancedIsPut DEF Heap!Next
<1>12. CASE UNCHANGED vars
  BY <1>12 DEF vars, state, Heap!vars, Arrays
<1> QED
  BY <1>2, <1>3, <1>4, <1>5, <1>6, <1>7, <1>8, <1>9, <1>10, <1>11, <1>12 DEF TreeNext, Plain

\* The user cannot tell how an array is evaluated, nor when its tree is
\* converted: every operation on eager, deferred and converted arrays and
\* their views has the effect that NumPy promises.
THEOREM ConversionIsInvisible == TreeSpec => ImplementsHeap
<1>1. Init => Heap!Init
  BY DEF Init, Heap!Init, Arrays
<1>2. IInv /\ [TreeNext]_vars => [Heap!Next]_(Heap!vars)
  BY StepsAreHeapSteps
<1> QED
  BY <1>1, <1>2, Invariant, PTL DEF TreeSpec, ImplementsHeap, Heap!Spec
=============================================================================
