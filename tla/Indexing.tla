------------------------------ MODULE Indexing ------------------------------
(***************************************************************************)
(* a[key] and a[key] = value on deferred arrays.                           *)
(*                                                                         *)
(* The library turns a key into transformations of the store of a and, for *)
(* index arrays, into an array of points that a gather or a scatter uses.  *)
(* Here a is arange(shape), so what a[key] shows is the places it reads,   *)
(* and an assignment is described by the value that each place ends with.  *)
(* The library's way is compared with NumPy's definition of indexing.      *)
(***************************************************************************)
EXTENDS NdArray

CONSTANTS
  None,         \* the bound a slice leaves out
  Old,          \* what a place holds until it is assigned
  Shapes,       \* the shapes of a
  KeyItems(_),  \* the items of keys, given the shape of a
  MaxItems      \* the items in one key

VARIABLES
  a,            \* the array at hand
  op,           \* the operation that was called: "none", "get" or "set"
  key,          \* the key of the call
  value,        \* the value of the assignment, Failure when there is none
  got,          \* what a[key] returned
  memory        \* the value at each place of a

vars == << a, op, key, value, got, memory >>

\* The items of a key.
At(n) == [kind |-> "int", n |-> n]
Slice(lo, hi) == [kind |-> "slice", lo |-> lo, hi |-> hi]
Full == Slice(None, None)
NewAxis == [kind |-> "newaxis"]
Dots == [kind |-> "dots"]
Ints(arr) == [kind |-> "ints", arr |-> arr]
Bools(arr) == [kind |-> "bools", arr |-> arr]

IsArray(k) == k.kind \in {"ints", "bools"}
\* The dimensions of a that an item stands for.
Consumes(k) == IF k.kind = "newaxis" THEN 0
               ELSE IF k.kind = "bools" THEN Ndim(k.arr) ELSE 1

is_advanced_indexing(ks) == \E j \in DOMAIN ks : IsArray(ks[j])

_unpack_ellipsis(ks, ndim) ==
  LET dots == { j \in DOMAIN ks : ks[j].kind = "dots" }
      news == { j \in DOMAIN ks : ks[j].kind = "newaxis" }
      j == CHOOSE d \in dots : TRUE
      free == ndim - (Len(ks) - Cardinality(news) - 1)
  IN IF dots = {} THEN ks
     ELSE SubSeq(ks, 1, j - 1) \o [x \in 1..free |-> Full] \o SubSeq(ks, j + 1, Len(ks))

Clip(n, size) == IF n < 0 THEN IF n + size < 0 THEN 0 ELSE n + size
                 ELSE IF n > size THEN size ELSE n

_slice_store(k, s, d) ==
  LET size == s.shape[d]
      lo == IF k.lo = None THEN None ELSE Clip(k.lo, size)
      hi == IF k.hi = None THEN None ELSE Clip(k.hi, size)
      empty == \/ lo # None /\ lo = size
               \/ hi # None /\ hi = 0
               \/ lo # None /\ hi # None /\ lo >= hi
  IN IF empty THEN Promote(Project(s, d, 0), d, 0)
     ELSE SliceDim(s, d, IF lo = None THEN 0 ELSE lo, IF hi = None THEN size ELSE hi)

\* The index tuples, one array per dimension, of the elements that are True.
nonzero(m) ==
  LET hits == SelectSeq([n \in 1..Size(m) |-> IndexAt(m.shape, n - 1)], LAMBDA i : m.at[i])
  IN [d \in 1..Ndim(m) |-> Build(<< Len(hits) >>, LAMBDA i : hits[i[1] + 1][d])]

\* The items of ks, from the left, applied to the dimensions of s after the first skip.
Walk(s, ks, skip) ==
  LET Item(st, j) ==
        LET k == ks[j]
            d == j + skip + st.shift
            size == st.s.shape[d]
        IN IF ~OK(st.s) THEN st
           ELSE IF k.kind = "newaxis" THEN [st EXCEPT !.s = Promote(@, d, 1)]
           ELSE IF d > Ndim(st.s) THEN [st EXCEPT !.s = Failure]
           ELSE IF k.kind = "slice" THEN [st EXCEPT !.s = _slice_store(k, @, d)]
           ELSE IF k.kind = "int"
             THEN [st EXCEPT !.s = Project(@, d, IF k.n < 0 THEN k.n + size ELSE k.n),
                             !.shift = @ - 1]
           ELSE IF k.kind = "ints" THEN [st EXCEPT !.arrays = Append(@, k.arr)]
           ELSE IF \/ d + Ndim(k.arr) - 1 > Ndim(st.s)
                   \/ SubSeq(st.s.shape, d, d + Ndim(k.arr) - 1) # k.arr.shape
             THEN [st EXCEPT !.s = Failure]
           ELSE [st EXCEPT !.arrays = @ \o nonzero(k.arr), !.shift = @ + Ndim(k.arr) - 1]
  IN FoldLeft(Item, [s |-> s, shift |-> 0, arrays |-> << >>], [j \in DOMAIN ks |-> j])

_get_view(s, ks) == Walk(s, _unpack_ellipsis(ks, Ndim(s)), 0).s

-----------------------------------------------------------------------------
(* Advanced indexing: an array of points of the store rhs.                 *)

\* FAULTY: a negative index counts from one before the end.
Faulty_compute_idx(n, size) == IF n < 0 THEN n + size - 1 ELSE n
compute_idx(n, size) == IF n < 0 THEN n + size ELSE n

\* The point that each element of the result shows, for index arrays that stand
\* for consecutive dimensions of s from start on.
_zip_indices(s, start, arrays) ==
  LET N == Len(arrays)
      shapes == { arrays[j].shape : j \in DOMAIN arrays }
      b == BroadcastShape(shapes)
      \* the index in b of an index of the result
      InB(p) == IF N = Ndim(s) THEN p ELSE SubSeq(p, start, start + Len(b) - 1)
      Idx(j, p) == BroadcastTo(arrays[j], b).at[InB(p)]
      first == IF N = Ndim(s) THEN 1 ELSE start
      shape == SubSeq(s.shape, 1, first - 1) \o b \o SubSeq(s.shape, first + N, Ndim(s))
  IN IF N > Ndim(s) \/ ~Broadcasts(shapes) THEN Failure
     ELSE IF \E j \in 1..N : \E i \in DOMAIN arrays[j].at :
               compute_idx(arrays[j].at[i], s.shape[first + j - 1])
                 \notin 0..(s.shape[first + j - 1] - 1)
     THEN Failure
     ELSE Build(shape, LAMBDA p :
            [d \in 1..Ndim(s) |->
               IF d < first THEN p[d]
               ELSE IF d < first + N THEN compute_idx(Idx(d - first + 1, p), s.shape[d])
               ELSE p[Len(b) + d - N]])

\* The points where a boolean array, over the first dimensions of s, is True.
_advanced_indexing_with_boolean_array(s, m) ==
  LET kd == Ndim(m)
      hits == nonzero(m)
  IN IF kd > Ndim(s) \/ SubSeq(s.shape, 1, kd) # m.shape THEN Failure
     ELSE Build(hits[1].shape \o SubSeq(s.shape, kd + 1, Ndim(s)), LAMBDA p :
            [d \in 1..Ndim(s) |-> IF d <= kd THEN hits[d].at[<< p[1] >>] ELSE p[d - kd + 1]])

\* FAULTY: the key is reordered with the arrays, the store is not.
FaultyGathered(s, ks) ==
  LET adv == SelectSeq([j \in DOMAIN ks |-> j], LAMBDA j : IsArray(ks[j]) \/ ks[j].kind = "int")
      apart == \E n \in 2..Len(adv) : adv[n] - adv[n - 1] > 1
      order == adv \o SelectSeq([x \in DOMAIN ks |-> x], LAMBDA x : x \notin ToSet(adv))
  IN IF apart THEN [s |-> s, key |-> [j \in DOMAIN order |-> ks[order[j]]], start |-> 1]
     ELSE [s |-> s, key |-> ks, start |-> adv[1]]

\* Scattered index arrays, and the integers among them, are brought to the front.
Gathered(s, ks) ==
  LET adv == SelectSeq([j \in DOMAIN ks |-> j], LAMBDA j : IsArray(ks[j]) \/ ks[j].kind = "int")
      shift(n) == SumOf([m \in 1..(n - 1) |-> Consumes(ks[adv[m]]) - 1])
      dims == FlattenSeq([n \in DOMAIN adv |->
                [x \in 1..Consumes(ks[adv[n]]) |-> adv[n] + shift(n) + x - 1]])
      Others(to, chosen) == SelectSeq([x \in 1..to |-> x], LAMBDA x : x \notin ToSet(chosen))
      last(n) == IF n = 1 THEN Ndim(s) + 1 ELSE adv[n - 1]
      needed == \E n \in DOMAIN adv : adv[n] - last(n) > 1
      order == adv \o Others(Len(ks), adv)
  IN IF needed
     THEN [s |-> TransposeDims(s, dims \o Others(Ndim(s), dims)),
           key |-> [j \in DOMAIN order |-> ks[order[j]]], start |-> 1]
     ELSE [s |-> s, key |-> ks, start |-> adv[1]]

\* The store and the points of a key with index arrays.
General(s, ks) ==
  LET Zipped(w, start) == IF ~OK(w.s) THEN [s |-> Failure, points |-> Failure]
                          ELSE [s |-> w.s, points |-> _zip_indices(w.s, start, w.arrays)]
      Walked(g) == Zipped(Walk(g.s, g.key, 0), g.start)
  IN Walked(Gathered(s, _unpack_ellipsis(ks, Ndim(s))))

\* In an assignment, the dimensions that a single boolean array stands for go first.
SingleMask(s, ks) ==
  LET Perm(t, kd) == [x \in 1..kd |-> t + x - 1] \o [x \in 1..(t - 1) |-> x]
                     \o [x \in 1..(Ndim(s) - t - kd + 1) |-> t + kd + x - 1]
      Under(lhs, mask) == [s |-> lhs, points |-> IF ~OK(lhs) THEN Failure
                              ELSE _advanced_indexing_with_boolean_array(lhs, mask)]
      Masked(us, t) == Under(Walk(TransposeDims(s, Perm(t, Ndim(us[t].arr))), RemoveAt(us, t), Ndim(us[t].arr)).s, us[t].arr)
      First(us) == Masked(us, CHOOSE j \in DOMAIN us : IsArray(us[j]))
  IN First(_unpack_ellipsis(ks, Ndim(s)))

HasSingleMask(ks) ==
  LET arrays == { j \in DOMAIN ks : IsArray(ks[j]) }
  IN Cardinality(arrays) = 1 /\ \A j \in arrays : ks[j].kind = "bools"

_create_indexing_array(s, ks, is_set) ==
  IF Len(ks) = 1 /\ HasSingleMask(ks)
    THEN [s |-> s, points |-> _advanced_indexing_with_boolean_array(s, ks[1].arr)]
  ELSE IF is_set /\ HasSingleMask(ks) THEN SingleMask(s, ks)
  ELSE General(s, ks)

-----------------------------------------------------------------------------
(* The two operations.                                                     *)

\* The elements of a store at an array of points.
Pointed(c) == IF ~OK(c.points) THEN Failure ELSE Build(c.points.shape, LAMBDA p : c.s.at[c.points.at[p]])

get_item(s, ks) ==
  IF ~is_advanced_indexing(ks) THEN _get_view(s, ks)
  ELSE Pointed(_create_indexing_array(s, ks, FALSE))

\* Memory after the places of target are assigned v, of the same shape.
Assigned(mem, target, v) ==
  IF ~OK(target) \/ ~OK(v) THEN Failure
  ELSE IF v.shape # target.shape THEN Failure
  ELSE [cells |-> [c \in DOMAIN mem.cells |->
          LET hit == { p \in DOMAIN target.at : target.at[p] = c }
          IN IF hit = {} THEN mem.cells[c] ELSE v.at[CHOOSE p \in hit : TRUE]]]

\* ndarray.__setitem__ drops the leading dimensions of extent 1 that a lacks.
Fitted(v, ndim) ==
  LET n == Ndim(v) - ndim
  IN IF n <= 0 THEN v
     ELSE IF \E d \in 1..n : v.shape[d] # 1 THEN Failure
     ELSE Reshaped(v, SubSeq(v.shape, n + 1, Ndim(v)))

\* A single value is put under a mask, in every place of the target.
Scattered(mem, target, v, masked) ==
  IF ~OK(target) THEN Failure
  ELSE Assigned(mem, target, IF masked /\ Size(v) = 1 THEN Build(target.shape, LAMBDA p : Elements(v)[1])
                             ELSE _broadcast(v, target.shape))

Copied(mem, view, v) ==
  IF ~OK(view) THEN Failure
  ELSE IF Size(view) = 0 THEN mem
  ELSE IF view.shape # << >> THEN Assigned(mem, view, _broadcast(v, view.shape))
  ELSE IF Size(v) = 1 THEN Assigned(mem, view, Reshaped(v, << >>)) ELSE Failure

set_item(s, mem, ks, v) ==
  LET masked == HasSingleMask(ks)
      Through(c) == IF masked /\ OK(c.points) /\ Size(c.s) = 0 THEN mem ELSE Scattered(mem, Pointed(c), v, masked)
  IN IF ~OK(v) THEN Failure
     ELSE IF is_advanced_indexing(ks) THEN Through(_create_indexing_array(s, ks, TRUE))
     ELSE Copied(mem, _get_view(s, ks), v)

Keys(shape) == UNION { [1..n -> KeyItems(shape)] : n \in 1..MaxItems }

\* Memory before any assignment.
Fresh(s) == [cells |-> [c \in 0..(Size(s) - 1) |-> Old]]

Init ==
  /\ a \in { Arange(shape) : shape \in Shapes }
  /\ op = "none"
  /\ key = << >>
  /\ value = Failure
  /\ got = Failure
  /\ memory = Fresh(a)

\* One ellipsis at most; a key has no more items than dimensions, but for new axes.
WellFormed(ks, s) ==
  /\ Cardinality({ j \in DOMAIN ks : ks[j].kind = "dots" }) <= 1
  /\ SumOf([j \in DOMAIN ks |-> IF ks[j].kind = "dots" THEN 0 ELSE Consumes(ks[j])]) <= Ndim(s)

\* ndarray.__getitem__
GetItem ==
  /\ op = "none"
  /\ op' = "get"
  /\ key' \in { ks \in Keys(a.shape) : WellFormed(ks, a) }
  /\ got' = get_item(a, key')
  /\ UNCHANGED << a, value, memory >>

-----------------------------------------------------------------------------
(* NumPy's definition of indexing.                                         *)

\* The slices that a key leaves out are added where the ellipsis is, or at the end.
Expanded(s, ks) ==
  LET used == SumOf([j \in DOMAIN ks |-> IF ks[j].kind = "dots" THEN 0 ELSE Consumes(ks[j])])
      free == [x \in 1..(Ndim(s) - used) |-> Full]
      dots == { j \in DOMAIN ks : ks[j].kind = "dots" }
  IN IF dots = {} THEN ks \o free
     ELSE LET j == CHOOSE d \in dots : TRUE
          IN SubSeq(ks, 1, j - 1) \o free \o SubSeq(ks, j + 1, Len(ks))

\* Beside an array, an integer is an array without dimensions, and a boolean array is the
\* indices of its True elements.
AsIndices(ks) ==
  FlattenSeq([j \in DOMAIN ks |->
    IF ks[j].kind = "bools" THEN [d \in 1..Ndim(ks[j].arr) |-> Ints(nonzero(ks[j].arr)[d])]
    ELSE IF ks[j].kind = "int" THEN << Ints(Build(<< >>, LAMBDA i : ks[j].n)) >>
    ELSE << ks[j] >>])

MasksFit(s, ks) ==
  \A j \in DOMAIN ks : ks[j].kind = "bools" =>
    LET d == SumOf([x \in 1..(j - 1) |-> Consumes(ks[x])])
    IN SubSeq(s.shape, d + 1, d + Ndim(ks[j].arr)) = ks[j].arr.shape

\* The dimensions that the index arrays broadcast to stand where the first array of the key
\* stands, or first when a slice or a new axis separates arrays.
NumpyIndexed(s, xs) ==
  LET adv == { j \in DOMAIN xs : xs[j].kind = "ints" }
      shapes == { xs[j].arr.shape : j \in adv }
      b == IF adv = {} THEN << >> ELSE BroadcastShape(shapes)
      first == CHOOSE j \in adv \union {0} : adv = {} \/ (j \in adv /\ \A x \in adv : j <= x)
      apart == \E j, x \in adv : \E y \in (j + 1)..(x - 1) : y \notin adv
      \* the dimension of s that item j stands for
      src(j) == SumOf([x \in 1..j |-> IF xs[x].kind = "newaxis" THEN 0 ELSE 1])
      own == SelectSeq([j \in DOMAIN xs |-> j], LAMBDA j : j \notin adv)
      lead == IF adv = {} \/ apart THEN 0 ELSE Cardinality({ j \in ToSet(own) : j < first })
      lo(j) == IF xs[j].lo = None THEN 0 ELSE Clip(xs[j].lo, s.shape[src(j)])
      hi(j) == IF xs[j].hi = None THEN s.shape[src(j)] ELSE Clip(xs[j].hi, s.shape[src(j)])
      extent(j) == IF xs[j].kind = "newaxis" THEN 1 ELSE IF hi(j) > lo(j) THEN hi(j) - lo(j) ELSE 0
      dims == [n \in DOMAIN own |-> extent(own[n])]
      \* the dimension of the result that own[n] is
      out(n) == IF n <= lead THEN n ELSE n + Len(b)
      InB(p) == SubSeq(p, lead + 1, lead + Len(b))
      Coordinate(p, d) ==
        LET j == CHOOSE x \in DOMAIN xs : xs[x].kind # "newaxis" /\ src(x) = d
        IN IF j \in adv THEN (BroadcastTo(xs[j].arr, b).at[InB(p)]) % s.shape[d]
           ELSE lo(j) + p[out(CHOOSE n \in DOMAIN own : own[n] = j)]
  IN IF adv # {} /\ ~Broadcasts(shapes) THEN Failure
     ELSE IF \E j \in adv : \E i \in DOMAIN xs[j].arr.at :
               xs[j].arr.at[i] \notin (-s.shape[src(j)])..(s.shape[src(j)] - 1) THEN Failure
     ELSE Build(SubSeq(dims, 1, lead) \o b \o SubSeq(dims, lead + 1, Len(dims)),
                LAMBDA p : s.at[[d \in 1..Ndim(s) |-> Coordinate(p, d)]])

NumpyItem(s, ks) ==
  IF ~MasksFit(s, Expanded(s, ks)) THEN Failure ELSE NumpyIndexed(s, AsIndices(Expanded(s, ks)))

\* An assignment leaves, at each place that a[key] shows, the value that broadcasts there.
NumpyAssigned(s, mem, ks, v) ==
  LET Onto(target) == Assigned(mem, target, BroadcastTo(v, target.shape)) IN Onto(NumpyItem(s, ks))

\* The values that an application assigns: of the shape of a[key], one for each of its
\* rows, or a single one.
Values(r) ==
  IF ~OK(r) THEN {}
  ELSE { Arange(r.shape), Arange(<< >>) } \union
       (IF Ndim(r) > 1 THEN { Arange(Tail(r.shape)) } ELSE {})

\* No place is assigned twice.
NoDuplicates(r) == OK(r) /\ \A p, q \in DOMAIN r.at : r.at[p] = r.at[q] => p = q

\* ndarray.__setitem__
SetItem ==
  /\ op = "none"
  /\ op' = "set"
  /\ key' \in { ks \in Keys(a.shape) : WellFormed(ks, a) /\ NoDuplicates(NumpyItem(a, ks)) }
  /\ value' \in Values(NumpyItem(a, key'))
  /\ memory' = set_item(a, memory, key', Fitted(value', Ndim(a)))
  /\ UNCHANGED << a, got >>

Next == GetItem \/ SetItem

Spec == Init /\ [][Next]_vars

-----------------------------------------------------------------------------
\* The keys that the library does not place right: a new axis before the last of scattered
\* index arrays, and a boolean array of several dimensions beside an ellipsis.
Misplaced(ks) ==
  LET adv == { j \in DOMAIN ks : IsArray(ks[j]) \/ ks[j].kind = "int" }
      apart == \E j, x \in adv : \E y \in (j + 1)..(x - 1) : y \notin adv
  IN apart /\ \E y \in DOMAIN ks : ks[y].kind = "newaxis" /\ \E x \in adv : y < x
MaskBesideDots(ks) ==
  /\ \E j \in DOMAIN ks : ks[j].kind = "dots"
  /\ \E j \in DOMAIN ks : ks[j].kind = "bools" /\ Ndim(ks[j].arr) > 1

\* A single boolean array with a new axis before it, or with a slice when it is assigned
\* other than one value.
MaskBehind(ks, v) ==
  /\ HasSingleMask(ks)
  /\ \E j, x \in DOMAIN ks : /\ x < j /\ IsArray(ks[j]) /\ ks[x].kind # "int"
                           /\ (ks[x].kind = "newaxis" \/ Size(v) # 1)
\* More dimensions than a, which a[key] has too.
Deeper(v) == Ndim(v) > Ndim(a)

\* a[key] is NumPy's a[key], for every key but those two: the transposition, the projections
\* and the points of DeferredArray.get_item select what the definition of indexing selects.
GetItemIsNumpy == 
  op = "get" /\ ~Misplaced(key) /\ ~MaskBesideDots(key) => got = NumpyItem(a, key)

\* a[key] = value leaves every place as NumPy's would, through the copies and the transposed
\* views that DeferredArray.set_item scatters into.
SetItemIsNumpy ==
  op = "set" /\ ~Misplaced(key) /\ ~MaskBesideDots(key) /\ ~MaskBehind(key, value) /\ ~Deeper(value)
    => memory = NumpyAssigned(a, Fresh(a), key, value)

\* An assignment under one boolean array, wherever it is in the key, either raises or leaves
\* every place as NumPy's would: the transposition in _has_single_boolean_array, which its
\* comment calls a matter of performance, does not change the meaning.
MaskedSetNeverWrong ==
  op = "set" /\ HasSingleMask(key) => memory \in { Failure, NumpyAssigned(a, Fresh(a), key, value) }
=============================================================================
