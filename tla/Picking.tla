------------------------------ MODULE Picking ------------------------------
(***************************************************************************)
(* The functions that pick elements by index, assign through an index, or  *)
(* make index arrays: take, choose, select, put, place, putmask, the       *)
(* functions along an axis, diagonals, and unravel_index with its          *)
(* relatives (ndarray and _module/indexing.py).  They are built on the     *)
(* subscripts of Indexing and on tasks.                                    *)
(*                                                                         *)
(* As in Indexing, the elements of a are their own places, and memory says *)
(* which value each place ends with.  Types are left out.                  *)
(***************************************************************************)
EXTENDS Indexing, Splitting

CONSTANTS
  Indices,      \* the index arrays that the application passes
  Givens,       \* the arrays of values it assigns or chooses from
  Axes          \* the axes

Modes == {"raise", "wrap", "clip"}

\* An index or an array of them: a scalar stays one.
One(n) == [scalar |-> TRUE, of |-> Build(<< >>, LAMBDA i : n)]
Many(xs) == [scalar |-> FALSE, of |-> xs]

MinIn(S) == CHOOSE x \in S : \A y \in S : x <= y
Numbers(xs) == { xs.at[i] : i \in DOMAIN xs.at }
Mapped(xs, F(_)) == Build(xs.shape, LAMBDA i : F(xs.at[i]))
Line(n, Elt(_)) == Build(<< n >>, LAMBDA i : Elt(i[1]))
Clamped(n, size) == IF n < 0 THEN 0 ELSE IF n >= size THEN size - 1 ELSE n
\* What a mode other than "raise" makes of an index.
Bounded(mode, n, size) == IF mode = "wrap" THEN n % size ELSE IF mode = "clip" THEN Clamped(n, size) ELSE n

-----------------------------------------------------------------------------
(* take and choose.                                                        *)

_take_using_advanced_indexing(s, ind, d, mode) ==
  LET idx == Mapped(ind.of, LAMBDA n : Bounded(mode, n, s.shape[d]))
  IN get_item(s, [j \in 1..(d - 1) |-> Full] \o << IF ind.scalar THEN At(idx.at[<< >>]) ELSE Ints(idx) >>)

\* FAULTY: the elements before the axis count as the ones behind it.
FaultyFlanks(s, d) == << Product(SubSeq(s.shape, d + 1, Ndim(s))), Product(SubSeq(s.shape, 1, d - 1)) >>
\* The elements before and behind the axis.
Flanks(s, d) == << Product(SubSeq(s.shape, 1, d - 1)), Product(SubSeq(s.shape, d + 1, Ndim(s))) >>

\* The task takes along the middle of three dimensions by a line of indices.  It cannot leave its
\* result in an array out: the thunk of out is subscripted, which thunks are not.
_take_using_take_task(s, ind, d, mode, out) ==
  LET f == Flanks(s, d)
      size == s.shape[d]
      count == Size(ind.of)
      fits == ~ind.scalar /\ d = 2 /\ Ndim(s) = 3 /\ Ndim(ind.of) = 1
      src == IF fits THEN s ELSE reshape(s, << f[1], size, f[2] >>)
      line == IF fits THEN ind.of ELSE reshape(ind.of, << count >>)
      Which(n) == IF mode = "clip" THEN Clamped(n, size) ELSE n % size
      taken == Build(<< f[1], count, f[2] >>, LAMBDA i :
                 src.at[<< i[1], Which(line.at[<< i[2] >>]), i[3] >>])
  IN IF ~OK(src) THEN Failure
     ELSE IF fits THEN IF out THEN Failure ELSE taken
     ELSE reshape(taken, SubSeq(s.shape, 1, d - 1) \o ind.of.shape \o SubSeq(s.shape, d + 1, Ndim(s)))

\* The shape is that of self, not the flattened one, when there is no axis; the task is chosen
\* when three dimensions are left, whether or not the axis is the middle one.
_take_decide_algorithm(shape, ind, d) ==
  LET lines == SelectSeq(ind.of.shape, LAMBDA n : n # 1)
      marked == SelectSeq([x \in DOMAIN shape |-> << shape[x], x = d >>], LAMBDA e : e[1] # 1 \/ e[2])
      behind == IF marked[1][2] THEN << << 1, FALSE >> >> \o marked ELSE marked
      both == IF Last(behind)[2] THEN << << 1, FALSE >> >> \o behind ELSE behind
  IN IF ind.of.shape = << >> \/ Len(lines) > 1 THEN "index"
     ELSE IF shape = << >> THEN "fails"
     ELSE IF Len(both) = 3 THEN "task" ELSE "index"

\* ndarray.take; axis is None for the flattened array.
take(m, ind, axis, mode, algorithm, out) ==
  LET s == IF axis = None THEN ravel(m) ELSE m
      d == IF axis = None THEN 1 ELSE Dim(axis, Ndim(m))
      size == s.shape[d]
      shape == SubSeq(s.shape, 1, d - 1) \o ind.of.shape \o SubSeq(s.shape, d + 1, Ndim(s))
      alg == IF algorithm = "auto" THEN _take_decide_algorithm(m.shape, ind, d) ELSE algorithm
  IN IF axis # None /\ ~AxisFits(axis, Ndim(m)) THEN Failure
     ELSE IF size = 0 /\ Size(ind.of) # 0 THEN Failure
     ELSE IF Product(shape) = 0 THEN Build(shape, LAMBDA i : 0)
     ELSE IF mode = "raise" /\ ~(Numbers(ind.of) \subseteq (-size)..(size - 1)) THEN Failure
     ELSE IF alg = "fails" THEN Failure
     ELSE IF alg = "task" THEN _take_using_take_task(s, ind, d, mode, out)
     ELSE _take_using_advanced_indexing(s, ind, d, mode)

\* choices is a sequence of arrays, or the rows of one.
Rows(xs) == [n \in 1..xs.shape[1] |-> get_item(xs, << At(n - 1), Dots >>)]
choose(m, choices, mode) ==
  LET n == Len(choices)
      which == Mapped(m, LAMBDA k : Bounded(mode, k, n))
      shapes == { m.shape } \union { choices[j].shape : j \in DOMAIN choices }
      shape == BroadcastShape(shapes)
  IN IF n = 0 \/ ~Broadcasts(shapes) THEN Failure
     ELSE IF mode = "raise" /\ ~(Numbers(m) \subseteq 0..(n - 1)) THEN Failure
     ELSE Build(shape, LAMBDA i :
            _broadcast(choices[_broadcast(which, shape).at[i] + 1], shape).at[i])

select(conds, choices, default) ==
  LET shapes == { conds[j].shape : j \in DOMAIN conds } \union { choices[j].shape : j \in DOMAIN choices }
      shape == BroadcastShape(shapes)
      Holds(i) == { j \in DOMAIN conds : _broadcast(conds[j], shape).at[i] }
      first(js) == CHOOSE j \in js : \A k \in js : j <= k
  IN IF Len(conds) # Len(choices) \/ conds = << >> \/ ~Broadcasts(shapes) THEN Failure
     ELSE Build(shape, LAMBDA i :
            IF Holds(i) = {} THEN default ELSE _broadcast(choices[first(Holds(i))], shape).at[i])

-----------------------------------------------------------------------------
(* Assignments through an index.                                           *)

\* ndarray._wrap: the elements in row-major order, over and over.
_wrap(v, len) ==
  IF Size(v) = 0 THEN Failure
  ELSE IF len = 1 THEN get_item(v, [d \in DOMAIN v.shape |-> At(0)])
  ELSE Line(len, LAMBDA n : v.at[IndexAt(v.shape, n % Size(v))])

put(m, mem, ind, values, mode) ==
  LET size == Size(m)
      idx == Mapped(IF Ndim(ind) > 1 THEN ravel(ind) ELSE ind, LAMBDA n : Bounded(mode, n, size))
      vals == IF Ndim(values) # Ndim(idx) \/ Size(values) # Size(idx) THEN _wrap(values, Size(idx)) ELSE values
      places == Line(Size(idx), LAMBDA n : compute_idx(Elements(idx)[n + 1], size))
  IN IF 0 \in { size, Size(ind), Size(values) } THEN mem
     ELSE IF Ndim(m) = 0
     THEN IF mode = "raise" /\ ~(Numbers(idx) \subseteq -1..0) THEN Failure
          ELSE IF Ndim(values) > 1 THEN Failure
          ELSE Assigned(mem, m, Build(<< >>, LAMBDA i : Elements(values)[1]))
     ELSE IF ~(Numbers(places) \subseteq 0..(size - 1)) THEN Failure
     ELSE Assigned(mem, places, Line(Size(idx), LAMBDA n : Elements(vals)[n + 1]))

\* The values are broadcast when they can be, and otherwise repeated.
putmask(m, mem, mask, values) ==
  LET vals == IF Broadcasts({ values.shape, m.shape }) THEN values
              ELSE reshape(_wrap(values, Size(m)), m.shape)
      \* the task aligns stores of one shape
      Wide(v) == IF ~OK(v) THEN Failure ELSE IF Ndim(v) > Ndim(m) THEN Failure ELSE _broadcast(v, m.shape)
      Masked(wide) == IF ~OK(wide) THEN Failure
                      ELSE [cells |-> [c \in DOMAIN mem.cells |->
                              LET i == IndexAt(m.shape, c) IN IF mask.at[i] THEN wide.at[i] ELSE mem.cells[c]]]
  IN IF m.shape # mask.shape THEN Failure ELSE Masked(Wide(vals))

place(m, mem, mask, vals) ==
  LET fitted == IF mask.shape # m.shape THEN reshape(mask, m.shape) ELSE mask
      count == Cardinality({ i \in DOMAIN mask.at : mask.at[i] })
      reps == (count + Size(vals) - 1) \div Size(vals)
      tiled == IF reps > 1 THEN tile(vals, << reps >>) ELSE vals
      resized == IF count # Size(vals) THEN get_item(tiled, << Slice(None, count) >>) ELSE vals
  IN IF Size(m) = 0 THEN mem
     ELSE IF Size(mask) # Size(m) \/ Ndim(vals) # 1 THEN Failure
     ELSE IF count = 0 THEN mem
     ELSE IF Size(vals) = 0 \/ ~OK(fitted) THEN Failure
     ELSE set_item(m, mem, << Bools(fitted) >>, resized)

\* The elements of a diagonal that starts again below the last column, past a free row.
WrappedLength(rows, cols) == rows - rows \div (cols + 1)

fill_diagonal(m, mem, val, wrap) ==
  LET n == MinIn(ToSet(m.shape))
      wrapped == Ndim(m) = 2 /\ wrap /\ m.shape[1] > m.shape[2]
      len == IF wrapped THEN WrappedLength(m.shape[1], m.shape[2]) ELSE n
      vals == IF (Size(val) # len /\ Ndim(val) > 0) \/ Ndim(val) > 1 THEN _wrap(val, len) ELSE val
      rows == Line(len, LAMBDA k : (k \div m.shape[2]) * (m.shape[2] + 1) + (k % m.shape[2]))
      key0 == IF wrapped THEN << Ints(rows), Ints(Line(len, LAMBDA k : k % m.shape[2])) >>
              ELSE [d \in DOMAIN m.shape |-> Ints(Line(n, LAMBDA k : k))]
  IN IF 0 \in { Size(m), Size(val) } THEN mem
     ELSE IF Ndim(m) < 2 THEN Failure
     ELSE IF Ndim(m) > 2 /\ Cardinality(ToSet(m.shape)) > 1 THEN Failure
     ELSE set_item(m, mem, key0, Fitted(vals, Ndim(m)))

\* One line of indices per dimension, at right angles, but for the axis.
_fill_fancy_index_for_along_axis_routines(shape, d, ind) ==
  [x \in DOMAIN shape |->
     IF x = d THEN Ints(ind)
     ELSE Ints(reshape(Line(shape[x], LAMBDA n : n), [y \in DOMAIN shape |-> IF y = x THEN -1 ELSE 1]))]

\* An array without elements is not given more dimensions by reshape.
Complete(ks) == \A x \in DOMAIN ks : ks[x].kind = "ints" /\ OK(ks[x].arr)

take_along_axis(m, ind, axis) ==
  LET s == IF axis = None THEN ravel(m) ELSE m
      d == IF axis = None THEN 1 ELSE Dim(axis, Ndim(m))
  IN IF axis = None /\ Ndim(ind) # 1 THEN Failure
     ELSE IF axis # None /\ ~AxisFits(axis, Ndim(m)) THEN Failure
     ELSE IF Ndim(s) # Ndim(ind) THEN Failure
     ELSE LET ks == _fill_fancy_index_for_along_axis_routines(s.shape, d, ind)
          IN IF Complete(ks) THEN get_item(s, ks) ELSE Failure

put_along_axis(m, mem, ind, values, axis) ==
  LET d == IF axis = None THEN 1 ELSE Dim(axis, Ndim(m))
      vals == IF axis = None /\ values.shape # ind.shape THEN _wrap(values, Size(ind)) ELSE values
  IN IF Size(m) = 0 THEN mem
     ELSE IF axis = None /\ (Ndim(ind) # 1 \/ Ndim(m) > 1) THEN Failure
     ELSE IF axis = None /\ 0 \in { Size(ind), Size(values) } THEN mem
     ELSE IF axis # None /\ ~AxisFits(axis, Ndim(m)) THEN Failure
     ELSE IF Ndim(m) # Ndim(ind) THEN Failure
     ELSE set_item(m, mem, _fill_fancy_index_for_along_axis_routines(m.shape, d, ind), Fitted(vals, Ndim(m)))

-----------------------------------------------------------------------------
(* Diagonals.                                                              *)

\* What the DIAG task gathers from the last n dimensions of m, or adds up.
Gathering(m, n, offset, trace) ==
  LET lead == SubSeq(m.shape, 1, Ndim(m) - n)
      size == IF n > 2 THEN Last(m.shape)
              ELSE LET rows == m.shape[Ndim(m) - 1] cols == Last(m.shape) - offset
                   IN IF cols < 0 THEN 0 ELSE IF rows < cols THEN rows ELSE cols
      On(i, k) == m.at[i \o [x \in 1..n |-> IF x = 2 THEN k + offset ELSE k]]
  IN IF trace THEN Build(IF lead = << >> THEN << 1 >> ELSE lead, LAMBDA i :
                     SumOf([k \in 1..size |-> On(IF lead = << >> THEN << >> ELSE i, k - 1)]))
     ELSE Build(Append(lead, size), LAMBDA i : On(SubSeq(i, 1, Len(lead)), Last(i)))

\* A diagonal below the main one is one above it in the transpose.
Oriented(axes, offset) ==
  IF offset >= 0 THEN [axes |-> axes, offset |-> offset]
  ELSE [axes |-> << axes[2], axes[1] >>, offset |-> -offset]

\* ndarray._diag_helper on arrays of two dimensions or more.
_diag_helper(m, offset, axes, trace) ==
  LET rest == SelectSeq([d \in DOMAIN m.shape |-> d - 1], LAMBDA d : d \notin ToSet(axes))
      n == Len(axes)
      o == Oriented(axes, offset)
      two == transpose(m, rest \o o.axes)
      Longer(x, y) == m.shape[x + 1] > m.shape[y + 1] \/ (m.shape[x + 1] = m.shape[y + 1] /\ x < y)
      all == transpose(m, rest \o SetToSortSeq(ToSet(axes), Longer))
  IN IF ~IsInjective(axes) \/ Ndim(m) < n THEN Failure
     ELSE IF n = 2
     THEN IF ~OK(two) THEN Failure
          ELSE IF o.offset >= Last(two.shape) THEN Build(<< 0 >>, LAMBDA i : 0)
          ELSE Gathering(two, 2, o.offset, trace)
     ELSE IF n < 2 \/ offset # 0 \/ trace THEN Failure
     ELSE Gathering(all, n, 0, FALSE)

diagonal(m, offset, axis1, axis2) ==
  IF Ndim(m) < 2 THEN Failure ELSE _diag_helper(m, offset, << axis1, axis2 >>, FALSE)
trace(m, offset, axis1, axis2) ==
  LET r == IF Ndim(m) < 2 THEN Failure ELSE _diag_helper(m, offset, << axis1, axis2 >>, TRUE)
  IN IF ~OK(r) THEN Failure
     ELSE IF Ndim(m) = 2 THEN get_item(r, << At(0) >>) ELSE r

-----------------------------------------------------------------------------
(* Index arrays.                                                           *)

\* The extents in the order in which the coordinates are split off.
Digits(shape, order) == IF order = "C" THEN Reverse(shape) ELSE shape

unravel_index(ind, shape, order) ==
  LET steps == Digits(shape, order)
      Split(st, extent) == [rest |-> Mapped(st.rest, LAMBDA n : n \div extent),
                            coords |-> LET c == Mapped(st.rest, LAMBDA n : n % extent)
                                       IN IF order = "C" THEN << c >> \o st.coords ELSE Append(st.coords, c)]
  IN IF \E n \in Numbers(ind) : n < 0 \/ n > Product(shape) THEN Failure
     ELSE [coords |-> FoldLeft(Split, [rest |-> ind, coords |-> << >>], steps).coords]

ravel_multi_index(coords, dims, modes, order) ==
  LET stride(d) == IF order = "C" THEN Product(SubSeq(dims, d + 1, Len(dims))) ELSE Product(SubSeq(dims, 1, d - 1))
      shapes == { coords[d].shape : d \in DOMAIN coords }
      wide == _broadcast_arrays(coords)
      Of(d, i) == Bounded(modes[d], wide[d].at[i], dims[d])
  IN IF 0 \in ToSet(dims) \/ Len(coords) # Len(dims) \/ ~Broadcasts(shapes) THEN Failure
     ELSE IF \E d \in DOMAIN dims : modes[d] = "raise" /\ ~(Numbers(coords[d]) \subseteq 0..(dims[d] - 1)) THEN Failure
     ELSE Build(BroadcastShape(shapes), LAMBDA i : SumOf([d \in DOMAIN dims |-> Of(d, i) * stride(d)]))

\* Each row of the result is a line of indices, reshaped and broadcast as it is assigned.
indices(dims) ==
  LET n == Len(dims)
      idx(d) == reshape(Line(dims[d], LAMBDA k : k), [x \in 1..n |-> IF x = d THEN dims[d] ELSE 1])
  IN Build(<< n >> \o dims, LAMBDA i : _broadcast(idx(i[1] + 1), dims).at[Tail(i)])

\* args are lines of integers or of truth values, as items of a key.
ix_(args) ==
  LET n == Len(args)
      line(k) == IF args[k].kind = "bools" THEN nonzero(args[k].arr)[1] ELSE args[k].arr
  IN [k \in 1..n |-> Ints(reshape(line(k), [x \in 1..n |-> IF x = k THEN Size(line(k)) ELSE 1]))]

tri(rows, cols, k) == Build(<< rows, cols >>, LAMBDA i : i[2] <= i[1] + k)
tril_indices(n, k, m) == nonzero(tri(n, m, k))
triu_indices(n, k, m) == nonzero(Mapped(tri(n, m, k - 1), LAMBDA x : ~x))
diag_indices_from(m) ==
  IF Ndim(m) < 2 \/ Cardinality(ToSet(m.shape)) > 1 THEN Failure
  ELSE [coords |-> [d \in DOMAIN m.shape |-> Line(m.shape[1], LAMBDA k : k)]]

\* The index that item(n) reads: no lower bound is checked.
_convert_singleton_key(m, n) == IF n >= Size(m) THEN Failure ELSE [index |-> IndexAt(m.shape, n)]

-----------------------------------------------------------------------------
(* One call.                                                               *)

Idle == op = "none"
Returned(fn, args, result) ==
  op' = fn /\ key' = args /\ got' = result /\ UNCHANGED << a, value, memory >>
Stored(fn, args, mem) ==
  op' = fn /\ key' = args /\ memory' = mem /\ UNCHANGED << a, value, got >>

Ind == { Many(x) : x \in Indices } \union { One(n) : n \in -3..2 }
Masks(shape) == { Build(shape, LAMBDA i : Place(shape, i) % 3 # k) : k \in 0..2 }
                \union { Build(shape, LAMBDA i : k) : k \in BOOLEAN }

Take == Idle /\ \E ind \in Ind, x \in Axes \union {None}, mode \in Modes, alg \in {"auto", "index", "task"}, out \in BOOLEAN :
  Returned("take", [ind |-> ind, axis |-> x, mode |-> mode, alg |-> alg, out |-> out], take(a, ind, x, mode, alg, out))
Choose == Idle /\ \E ind \in Indices, mode \in Modes : \E p, q \in Givens :
  Returned("choose", [ind |-> ind, choices |-> << p, q >>, mode |-> mode], choose(ind, << p, q >>, mode))
ChooseRows == Idle /\ Ndim(a) > 1 /\ \E ind \in Indices, mode \in Modes :
  Returned("choose", [ind |-> ind, choices |-> Rows(a), mode |-> mode], choose(ind, Rows(a), mode))
Select == Idle /\ \E p, q \in Masks(a.shape), v \in Givens :
  Returned("select", [conds |-> << p, q >>, choices |-> << a, v >>], select(<< p, q >>, << a, v >>, -1))
Put == Idle /\ \E ind \in Indices \union { Build(<< >>, LAMBDA i : n) : n \in -2..1 }, v \in Givens, mode \in Modes :
  Stored("put", [ind |-> ind, values |-> v, mode |-> mode], put(a, memory, ind, v, mode))
Putmask == Idle /\ \E mask \in Masks(a.shape), v \in Givens :
  Stored("putmask", [mask |-> mask, values |-> v], putmask(a, memory, mask, v))
PlaceCall == Idle /\ Ndim(a) > 0 /\ \E mask \in Masks(a.shape) \union Masks(<< Size(a) >>), v \in Givens :
  Stored("place", [mask |-> mask, values |-> v], place(a, memory, mask, v))
FillDiagonal == Idle /\ \E v \in Givens, wrap \in BOOLEAN :
  Stored("fill_diagonal", [val |-> v, wrap |-> wrap], fill_diagonal(a, memory, v, wrap))
TakeAlongAxis == Idle /\ \E ind \in Indices, x \in Axes \union {None} :
  Returned("take_along_axis", [ind |-> ind, axis |-> x], take_along_axis(a, ind, x))
PutAlongAxis == Idle /\ \E ind \in Indices, v \in Givens, x \in Axes \union {None} :
  Stored("put_along_axis", [ind |-> ind, values |-> v, axis |-> x], put_along_axis(a, memory, ind, v, x))
Diagonal == Idle /\ \E k \in -3..3, x, y \in 0..2 :
  Returned("diagonal", [offset |-> k, axes |-> << x, y >>], diagonal(a, k, x, y))
DiagonalAll == Idle /\ Ndim(a) > 2 /\
  Returned("diagonal_all", << >>, _diag_helper(a, 0, [d \in DOMAIN a.shape |-> d - 1], FALSE))
Trace == Idle /\ \E k \in -3..3, x, y \in 0..2 :
  Returned("trace", [offset |-> k, axes |-> << x, y >>], trace(a, k, x, y))
Unravel == Idle /\ \E ind \in Indices, order \in {"C", "F"} :
  Returned("unravel_index", [ind |-> ind, order |-> order], unravel_index(ind, a.shape, order))
Ravel == Idle /\ Ndim(a) = 2 /\ \E p, q \in Indices, r, s \in Modes, order \in {"C", "F"} :
  Returned("ravel_multi_index", [coords |-> << p, q >>, modes |-> << r, s >>, order |-> order],
           ravel_multi_index(<< p, q >>, a.shape, << r, s >>, order))
IndicesCall == Idle /\ Returned("indices", << >>, indices(a.shape))
Cross == Idle /\ Ndim(a) = 2
  /\ \E p \in { x \in Indices : Ndim(x) = 1 }, m \in Masks(<< a.shape[2] >>) :
       LET args == << Ints(p), Bools(m) >>
       IN Returned("ix_", args, IF Complete(ix_(args)) THEN get_item(a, ix_(args)) ELSE Failure)
Triangle == Idle /\ Ndim(a) = 2 /\ \E k \in -2..2, lower \in BOOLEAN :
  Returned("tri_indices", [k |-> k, lower |-> lower],
           [coords |-> IF lower THEN tril_indices(a.shape[1], k, a.shape[2])
                       ELSE triu_indices(a.shape[1], k, a.shape[2])])
DiagIndices == Idle /\ Returned("diag_indices", << >>, diag_indices_from(a))
Item == Idle /\ \E n \in (-Size(a))..Size(a) : Returned("item", [n |-> n], _convert_singleton_key(a, n))

PickNext ==
  \/ Next \/ Take \/ Choose \/ ChooseRows \/ Select \/ Put \/ Putmask \/ PlaceCall \/ FillDiagonal
  \/ TakeAlongAxis \/ PutAlongAxis \/ Diagonal \/ DiagonalAll \/ Trace \/ Unravel \/ Ravel
  \/ IndicesCall \/ Cross \/ Triangle \/ DiagIndices \/ Item

PickSpec == Init /\ [][PickNext]_vars

-----------------------------------------------------------------------------
(* NumPy's definitions.                                                    *)

\* The place along an axis of size elements that an index in bounds names.
Named(mode, n, size) == IF mode = "clip" THEN Clamped(n, size) ELSE n % size
InBounds(mode, xs, size) == mode = "raise" => Numbers(xs) \subseteq (-size)..(size - 1)

NumpyTake(m, ind, axis, mode) ==
  LET s == IF axis = None THEN Reshaped(m, << Size(m) >>) ELSE m
      d == IF axis = None THEN 1 ELSE Dim(axis, Ndim(m))
      k == Ndim(ind)
      Of(i) == Named(mode, ind.at[SubSeq(i, d, d + k - 1)], s.shape[d])
  IN IF axis # None /\ ~AxisFits(axis, Ndim(m)) THEN Failure
     ELSE IF ~InBounds(mode, ind, s.shape[d]) THEN Failure
     ELSE Build(SubSeq(s.shape, 1, d - 1) \o ind.shape \o SubSeq(s.shape, d + 1, Ndim(s)), LAMBDA i :
            s.at[SubSeq(i, 1, d - 1) \o << Of(i) >> \o SubSeq(i, d + k, Len(i))])

\* The element of m that an index array along dimension d names at i.
AlongAxis(m, ind, d) ==
  LET shapes == { [m.shape EXCEPT ![d] = 1], ind.shape }
      wide == BroadcastTo(ind, BroadcastShape(shapes))
      On(i) == [x \in DOMAIN i |-> IF x = d THEN wide.at[i] % m.shape[d] ELSE IF m.shape[x] = 1 THEN 0 ELSE i[x]]
  IN IF Ndim(m) # Ndim(ind) THEN Failure
     ELSE IF ~Broadcasts(shapes) \/ ~InBounds("raise", ind, m.shape[d]) THEN Failure
     ELSE Build(wide.shape, LAMBDA i : m.at[On(i)])

\* The elements of v, over and over, left at the places in a sequence of them.
Flat(mem, places, v) ==
  [cells |-> [c \in DOMAIN mem.cells |->
     LET hit == { n \in DOMAIN places : places[n] = c }
     IN IF hit = {} THEN mem.cells[c] ELSE Elements(v)[(((CHOOSE n \in hit : \A k \in hit : k <= n) - 1) % Size(v)) + 1]]]

Diagonals(m, k, x, y) ==
  LET rest == SelectSeq([d \in DOMAIN m.shape |-> d], LAMBDA d : d \notin { x, y })
      room == MinIn({ m.shape[x] + IF k < 0 THEN k ELSE 0, m.shape[y] - IF k > 0 THEN k ELSE 0 })
      On(i) == [d \in DOMAIN m.shape |->
                  IF d = x THEN Last(i) - IF k < 0 THEN k ELSE 0
                  ELSE IF d = y THEN Last(i) + IF k > 0 THEN k ELSE 0
                  ELSE i[CHOOSE j \in DOMAIN rest : rest[j] = d]]
  IN Build(Append([j \in DOMAIN rest |-> m.shape[rest[j]]], IF room < 0 THEN 0 ELSE room), LAMBDA i : m.at[On(i)])

-----------------------------------------------------------------------------
(* Properties.                                                             *)

\* What take, choose, select and take_along_axis return is NumPy's, whichever of its two ways take
\* goes.  But the task raises when the array is three-dimensional, the axis its middle one and out=
\* is given, and may raise in reshape (see ReshapeIsNumpy) when it was asked for with one index
\* or an index array of several dimensions; the choice of a way raises for an array without dimensions.
TakesAreNumpy ==
  /\ op = "take" =>
       \/ Size(a) = 0
       \/ got = NumpyTake(a, key.ind.of, key.axis, key.mode)
       \/ got = Failure /\ key.out /\ Ndim(a) = 3 /\ key.alg # "index"
       \/ got = Failure /\ Ndim(a) = 0 /\ key.alg = "auto"
       \/ got = Failure /\ key.alg = "task" /\ (Ndim(key.ind.of) > 1 \/ Size(key.ind.of) = 1)
  /\ op = "choose" /\ OK(got) =>
       \A i \in DOMAIN got.at :
         LET k == BroadcastTo(key.ind, got.shape).at[i] n == Len(key.choices)
         IN got.at[i] = BroadcastTo(key.choices[Bounded(key.mode, k, n) + 1], got.shape).at[i]
  /\ op = "select" /\ OK(got) =>
       LET Then(j, rest) == Build(got.shape, LAMBDA i :
             IF BroadcastTo(key.conds[j], got.shape).at[i] THEN BroadcastTo(key.choices[j], got.shape).at[i] ELSE rest.at[i])
       IN got = Then(1, Then(2, Build(got.shape, LAMBDA i : -1)))
  /\ op = "take_along_axis" =>
       LET s == IF key.axis = None THEN Reshaped(a, << Size(a) >>) ELSE a
       IN Size(a) > 0 => got = IF key.axis = None THEN AlongAxis(s, key.ind, 1)
                ELSE IF ~AxisFits(key.axis, Ndim(a)) THEN Failure ELSE AlongAxis(s, key.ind, Dim(key.axis, Ndim(a)))

\* putmask of values that broadcast to the array otherwise than they repeat in it.
Skewed(v) ==
  /\ Ndim(v) > 0
  /\ Broadcasts({ v.shape, a.shape })
  /\ ~Broadcastable(v.shape, a.shape) \/ \E d \in 1..Ndim(v) : v.shape[d] = 1

\* put, putmask, place, fill_diagonal and put_along_axis leave every place as NumPy's do: the
\* values repeated in row-major order, at the places that the indices, the mask or the diagonal
\* name, through _wrap, tile and the assignments to subscripts.  Not so putmask when the values
\* have dimensions of extent 1, which are broadcast, or the array has where they have not.
PutsAreNumpy ==
  LET size == Size(a)
      start == Fresh(a)
      flat == [n \in 1..size |-> n - 1]
  IN
  /\ op = "put" =>
       LET places == [n \in 1..Size(key.ind) |-> Named(key.mode, Elements(key.ind)[n], size)]
       IN IF 0 \in { size, Size(key.values), Size(key.ind) } THEN memory = start
          ELSE IF Ndim(a) = 0 /\ Ndim(key.values) > 1 THEN memory = Failure
          ELSE IF ~InBounds(key.mode, key.ind, size) THEN memory = Failure
          ELSE (IsInjective(places) /\ Ndim(a) > 0) => memory = Flat(start, places, key.values)
  /\ op = "putmask" /\ 0 \notin { size, Size(key.values) } /\ ~Skewed(key.values) =>
       memory = [cells |-> [c \in DOMAIN start.cells |->
                   IF key.mask.at[IndexAt(a.shape, c)] THEN Elements(key.values)[(c % Size(key.values)) + 1] ELSE Old]]
  /\ op = "place" /\ OK(memory) /\ size > 0 /\ Size(key.values) > 0 =>
         memory = Flat(start, SelectSeq(flat, LAMBDA c : Elements(key.mask)[c + 1]), key.values)
  /\ op = "fill_diagonal" /\ OK(memory) /\ 0 \notin { size, Size(key.val) } =>
       LET cols == a.shape[2]
           tall == Ndim(a) = 2 /\ a.shape[1] > cols
           step == SumOf([d \in DOMAIN a.shape |-> Product(SubSeq(a.shape, d + 1, Ndim(a)))])
           end == IF tall /\ ~key.wrap THEN cols * cols ELSE size
       IN memory = Flat(start, SelectSeq(flat, LAMBDA c : c % step = 0 /\ c < end), key.val)
  /\ op = "put_along_axis" /\ OK(memory) /\ key.axis # None /\ size > 0 =>
       LET target == AlongAxis(a, key.ind, Dim(key.axis, Ndim(a)))
       IN NoDuplicates(target) => memory = Assigned(start, target, BroadcastTo(Fitted(key.values, Ndim(a)), target.shape))

\* diagonal, over two axes in either order or over all of them, and trace are NumPy's for offsets of
\* both signs, for which the axes are transposed.  Past the last row or column the result has one
\* dimension and no elements, whatever the array's shape, and trace raises.
DiagonalsAreNumpy ==
  /\ op \in {"diagonal", "trace"} =>
       LET x == key.axes[1] + 1
           y == key.axes[2] + 1
           want == Diagonals(a, key.offset, x, y)
           Traced(i) == SumOf([k \in 1..Last(want.shape) |-> want.at[Append(i, k - 1)]])
       IN IF x = y \/ ~({ x, y } \subseteq DOMAIN a.shape) THEN got = Failure
          ELSE IF Last(want.shape) = 0
          THEN 0 \in ToSet(a.shape) \/ (op = "trace" /\ got = Failure) \/ got.shape = << 0 >>
          ELSE got = IF op = "diagonal" THEN want ELSE Build(Front(want.shape), Traced)
  /\ op = "diagonal_all" =>
       got = Line(MinIn(ToSet(a.shape)), LAMBDA k : a.at[[d \in DOMAIN a.shape |-> k]])

\* unravel_index and ravel_multi_index are inverses of each other and count in the given order;
\* the index that is the size is taken by unravel_index for one in bounds.  indices, ix_, the
\* triangle's indices, diag_indices and item name the places that their definitions name.
IndicesName ==
  LET Back(shape, order, i) == IF order = "C" THEN Place(shape, i) ELSE Place(Reverse(shape), Reverse(i)) IN
  /\ op = "unravel_index" =>
       LET ns == Numbers(key.ind)
       IN IF ns \subseteq 0..(Size(a) - 1)
          THEN \A i \in DOMAIN key.ind.at :
                 LET at == [d \in DOMAIN a.shape |-> got.coords[d].at[i]]
                 IN at \in DOMAIN a.at /\ Back(a.shape, key.order, at) = key.ind.at[i]
          ELSE got = Failure \/ Size(a) \in ns
  /\ op = "ravel_multi_index" /\ OK(got) =>
       \A i \in DOMAIN got.at :
         LET c(d) == Bounded(key.modes[d], BroadcastTo(key.coords[d], got.shape).at[i], a.shape[d])
         IN c(1) \in 0..(a.shape[1] - 1) /\ c(2) \in 0..(a.shape[2] - 1) /\ got.at[i] = Back(a.shape, key.order, << c(1), c(2) >>)
  /\ op = "indices" => \A i \in DOMAIN got.at : got.at[i] = i[i[1] + 2]
  /\ op = "ix_" /\ OK(got) =>
       LET p == key[1].arr
           hits == SelectSeq([n \in 1..a.shape[2] |-> n - 1], LAMBDA n : key[2].arr.at[<< n >>])
       IN got = Build(<< p.shape[1], Len(hits) >>, LAMBDA i : a.at[<< p.at[<< i[1] >>] % a.shape[1], hits[i[2] + 1] >>])
  /\ op = "tri_indices" =>
       LET pair(n) == << got.coords[1].at[<< n >>], got.coords[2].at[<< n >>] >>
           count == got.coords[1].shape[1]
       IN /\ { pair(n) : n \in 0..(count - 1) }
               = { i \in Box(a.shape) : IF key.lower THEN i[2] - i[1] <= key.k ELSE i[2] - i[1] >= key.k }
          /\ \A n \in 1..(count - 1) : Place(a.shape, pair(n - 1)) < Place(a.shape, pair(n))
  /\ op = "diag_indices" /\ OK(got) => get_item(a, [d \in DOMAIN a.shape |-> Ints(got.coords[d])])
       = Line(a.shape[1], LAMBDA k : a.at[[d \in DOMAIN a.shape |-> k]])
  /\ op = "item" => IF key.n = Size(a) THEN got = Failure ELSE a.at[got.index] = key.n % Size(a)

\* The functions built on indexing pick and assign what NumPy's do, and the index arrays that they make
\* name the elements they are made for.
PicksAreNumpy ==
  /\ TakesAreNumpy
  /\ PutsAreNumpy
  /\ DiagonalsAreNumpy
  /\ IndicesName
=============================================================================
