---------------------------- MODULE Manipulation ----------------------------
(***************************************************************************)
(* One call of a function that reshapes, joins, splits or rearranges       *)
(* arrays, and what it returns.  Every action is one function; the         *)
(* properties compare it with NumPy's definition, or functions with each   *)
(* other.  The elements of an array are their own places, so an array that *)
(* is right holds the right elements.                                      *)
(***************************************************************************)
EXTENDS Splitting, SharedViews

CONSTANTS
  Shapes,       \* the shapes of the arrays
  NewShapes,    \* the shapes asked for, -1 for an extent to be worked out
  Axes,         \* the axes
  Sequences,    \* sequences of numbers: repeats, reps, indices
  Blocks        \* nested lists of arrays

VARIABLES call, result

vars == << call, result >>

Arrays == { Arange(s) : s \in Shapes }
Ndims(n) == { a \in Arrays : Ndim(a) = n }
\* Arrays with elements that are not those of another one.
Second(a) == [a EXCEPT !.at = [i \in DOMAIN a.at |-> 100 + a.at[i]]]
AxisSeqs(n) == UNION { [1..m -> Axes] : m \in 1..n }

Init == call = [fn |-> "none"] /\ result = Failure

Idle == call.fn = "none"
Call(c, r) == call' = c /\ result' = r

Reshape == Idle /\ \E a \in Arrays, s \in NewShapes :
  Call([fn |-> "reshape", a |-> a, shape |-> s], reshape(a, s))
Squeeze == Idle /\ \E a \in Arrays, axes \in AxisSeqs(2) :
  Call([fn |-> "squeeze", a |-> a, axes |-> axes], squeeze(a, axes))
SqueezeAll == Idle /\ \E a \in Arrays : Call([fn |-> "squeeze_all", a |-> a], squeeze_all(a))
ExpandDims == Idle /\ \E a \in Arrays, axes \in AxisSeqs(2) :
  Call([fn |-> "expand_dims", a |-> a, axes |-> axes], expand_dims(a, axes))
Swapaxes == Idle /\ \E a \in Arrays, x, y \in Axes :
  Call([fn |-> "swapaxes", a |-> a, x |-> x, y |-> y], swapaxes(a, x, y))
Moveaxis == Idle /\ \E a \in Arrays, src, dst \in AxisSeqs(2) :
  Call([fn |-> "moveaxis", a |-> a, src |-> src, dst |-> dst], moveaxis(a, src, dst))
BroadcastCall == Idle /\ \E a \in Arrays, s \in Shapes :
  Call([fn |-> "broadcast_to", a |-> a, shape |-> s], _broadcast_to(a, s))
BroadcastPairs == Idle /\ \E a, b \in Arrays :
  Call([fn |-> "broadcast", a |-> a, b |-> Second(b)],
       IF Broadcasts({ a.shape, b.shape }) THEN [pairs |-> broadcast(<< a, Second(b) >>)] ELSE Failure)

Concatenate == Idle /\ \E a, b \in Arrays, x \in Axes :
  Call([fn |-> "concatenate", parts |-> << a, Second(b), a >>, axis |-> x],
       concatenate(<< a, Second(b), a >>, x))
ConcatenateFlat == Idle /\ \E a, b \in Arrays :
  Call([fn |-> "concatenate_flat", parts |-> << a, Second(b) >>], concatenate_flat(<< a, Second(b) >>))
Append2 == Idle /\ \E a, b \in Arrays, x \in Axes :
  Call([fn |-> "append", parts |-> << a, Second(b) >>, axis |-> x], append(a, Second(b), x))
Stack == Idle /\ \E a, b \in Arrays, x \in Axes :
  Call([fn |-> "stack", parts |-> << a, Second(b) >>, axis |-> x], stack(<< a, Second(b) >>, x))
Stacks == Idle /\ \E a, b \in Arrays, f \in {"vstack", "hstack", "dstack", "column_stack"} :
  LET t == << a, Second(b) >>
  IN Call([fn |-> f, parts |-> t],
          CASE f = "vstack" -> vstack(t) [] f = "hstack" -> hstack(t)
            [] f = "dstack" -> dstack(t) [] f = "column_stack" -> column_stack(t))
Block == Idle /\ \E x \in Blocks : Call([fn |-> "block", x |-> x], block(x))
Insert == Idle /\ \E a, v \in Arrays, x \in Axes, ks \in Sequences :
  \E obj \in { Build(<< Len(ks) >>, LAMBDA i : ks[i[1] + 1]) }
             \union (IF Len(ks) = 1 THEN { Build(<< >>, LAMBDA i : ks[1]) } ELSE {}) :
    /\ Ndim(v) <= Ndim(a)
    /\ Call([fn |-> "insert", a |-> a, obj |-> obj, values |-> Second(v), axis |-> x,
             objAfter |-> IF AxisFits(x, Ndim(a)) THEN ObjAfterInsert(a, obj, x) ELSE obj],
            insert(a, obj, Second(v), x))

ArraySplit == Idle /\ \E a \in Arrays, x \in Axes, equal \in BOOLEAN :
  \E p \in { [n |-> n] : n \in 0..5 } \union { [at |-> ks] : ks \in { ks \in Sequences : \A j \in DOMAIN ks : ks[j] >= 0 } } :
    Call([fn |-> "array_split", a |-> a, p |-> p, axis |-> x, equal |-> equal], array_split(a, p, x, equal))
HVDSplit == Idle /\ \E a \in Arrays, n \in 1..3, f \in {"vsplit", "hsplit", "dsplit"} :
  Call([fn |-> f, a |-> a, p |-> [n |-> n], axis |-> CASE f = "vsplit" -> 0 [] f = "hsplit" -> 1 [] OTHER -> 2],
       CASE f = "vsplit" -> vsplit(a, [n |-> n]) [] f = "hsplit" -> hsplit(a, [n |-> n])
         [] OTHER -> dsplit(a, [n |-> n]))
Tile == Idle /\ \E a \in Arrays, reps \in Sequences :
  /\ \A j \in DOMAIN reps : reps[j] >= 0
  /\ Call([fn |-> "tile", a |-> a, reps |-> reps], tile(a, reps))
Repeat == Idle /\ \E a \in Arrays, x \in Axes :
  \E r \in { [n |-> n] : n \in 0..2 }
           \union { [at |-> ks] : ks \in { ks \in Sequences : ks # << >> /\ \A j \in DOMAIN ks : ks[j] >= 0 } } :
    Call([fn |-> "repeat", a |-> a, r |-> r, axis |-> x], repeat(a, r, x))
Delete == Idle /\ \E a \in Arrays, x \in Axes :
  \E obj \in { [at |-> ks] : ks \in Sequences } \union { [lo |-> 0, hi |-> 1], [lo |-> 1, hi |-> 3] }
             \union { [mask |-> m] : m \in UNION { [1..n -> BOOLEAN] : n \in 1..3 } } :
    Call([fn |-> "delete", a |-> a, obj |-> obj, axis |-> x], delete(a, obj, x))
Flip == Idle /\ \E a \in Arrays, axes \in AxisSeqs(2) : Call([fn |-> "flip", a |-> a, axes |-> axes], flip(a, axes))
Roll == Idle /\ \E a \in Arrays, axes \in AxisSeqs(2), by \in { s \in Sequences : Len(s) \in {1, 2} } :
  Call([fn |-> "roll", a |-> a, axes |-> axes, by |-> by],
       roll(a, Build(<< Len(by) >>, LAMBDA i : by[i[1] + 1]),
            Build(<< Len(axes) >>, LAMBDA i : axes[i[1] + 1])))
RollFlat == Idle /\ \E a \in Arrays, n \in Axes :
  Call([fn |-> "roll_flat", a |-> a, by |-> n], roll_flat(a, Build(<< >>, LAMBDA i : n)))
Rot90 == Idle /\ \E a \in Arrays, k \in -1..5, x, y \in Axes :
  Call([fn |-> "rot90", a |-> a, k |-> k, axes |-> << x, y >>], rot90(a, k, << x, y >>))

\* asarray of a view of a NumPy array of the application, taken by indexing it and perhaps reversing
\* the order of the axes of that.
AsarrayOfView == Idle /\ \E s \in Shapes, deferred \in BOOLEAN, reversed \in BOOLEAN :
  \E cuts \in { c \in [DOMAIN s -> UNION { CutsOf(s[d]) : d \in DOMAIN s }] : \A d \in DOMAIN s : c[d] \in CutsOf(s[d]) } :
    \E new \in 0..(Cardinality({ d \in DOMAIN s : ~cuts[d].drop }) + 1) :
      \E v \in { ViewOf(s, cuts, new) } :
        Call([fn |-> "asarray", shape |-> s, cuts |-> cuts, new |-> new, reversed |-> reversed, deferred |-> deferred,
              view |-> IF reversed THEN AxesReversed(v) ELSE v],
             find_or_create_view(s, IF reversed THEN AxesReversed(v) ELSE v, deferred))

Next ==
  \/ Reshape \/ Squeeze \/ SqueezeAll \/ ExpandDims \/ Swapaxes \/ Moveaxis \/ BroadcastCall
  \/ BroadcastPairs \/ Concatenate \/ ConcatenateFlat \/ Append2 \/ Stack \/ Stacks \/ Block \/ Insert
  \/ ArraySplit \/ HVDSplit \/ Tile \/ Repeat \/ Delete \/ Flip \/ Roll \/ RollFlat \/ Rot90
  \/ AsarrayOfView

Spec == Init /\ [][Next]_vars

-----------------------------------------------------------------------------
(* NumPy's definitions.                                                    *)

NumpyReshape(a, shape) ==
  LET known == Product(SelectSeq(shape, LAMBDA e : e # -1))
      unknowns == Cardinality({ d \in DOMAIN shape : shape[d] = -1 })
  IN IF unknowns = 0 THEN IF known = Size(a) THEN Reshaped(a, shape) ELSE Failure
     ELSE IF unknowns > 1 \/ known = 0 THEN Failure
     ELSE IF Size(a) % known # 0 THEN Failure
     ELSE Reshaped(a, [d \in DOMAIN shape |-> IF shape[d] = -1 THEN Size(a) \div known ELSE shape[d]])

\* Two groups of the shapes, one before the other: the second is linearised and split again,
\* the first is not.
Lopsided(in, out) ==
  LET gs == Groups(in, out).pairs
  IN \E m, n \in DOMAIN gs : m < n /\ ~Both(gs[m]) /\ Both(gs[n])

\* Arrays joined along dimension d.
NumpyJoin(arrs, d) ==
  LET n == Ndim(arrs[1])
      start(j) == SumOf([k \in 1..(j - 1) |-> arrs[k].shape[d]])
      total == start(Len(arrs) + 1)
  IN IF \/ \E j \in DOMAIN arrs : Ndim(arrs[j]) # n
        \/ d \notin 1..n
     THEN Failure
     ELSE IF \E j \in DOMAIN arrs : \E x \in (1..n) \ {d} : arrs[j].shape[x] # arrs[1].shape[x] THEN Failure
     ELSE Build(ReplaceAt(arrs[1].shape, d, total), LAMBDA i :
            LET j == CHOOSE k \in DOMAIN arrs : start(k) <= i[d] /\ i[d] < start(k + 1)
            IN arrs[j].at[[i EXCEPT ![d] = @ - start(j)]])

\* The same with an axis that may be negative.
NumpyConcat(arrs, axis) ==
  IF AxisFits(axis, Ndim(arrs[1])) THEN NumpyJoin(arrs, Dim(axis, Ndim(arrs[1]))) ELSE Failure

WithShape(arrs, Shape(_)) == [j \in DOMAIN arrs |-> Reshaped(arrs[j], Shape(arrs[j].shape))]

\* vstack, hstack, dstack and column_stack, as NumPy's documentation defines them.
NumpyStacks(f, t) ==
  LET Row(s) == IF Len(s) < 2 THEN << 1, Product(s) >> ELSE s
      Column(s) == IF Len(s) < 2 THEN << Product(s), 1 >> ELSE s
      Deep(s) == IF Len(s) < 2 THEN << 1, Product(s), 1 >> ELSE IF Len(s) = 2 THEN s \o << 1 >> ELSE s
      Line(s) == IF s = << >> THEN << 1 >> ELSE s
  IN CASE f = "vstack" -> NumpyJoin(WithShape(t, Row), 1)
       [] f = "hstack" -> LET l == WithShape(t, Line) IN NumpyJoin(l, IF Ndim(l[1]) = 1 THEN 1 ELSE 2)
       [] f = "dstack" -> NumpyJoin(WithShape(t, Deep), 3)
       [] f = "column_stack" -> NumpyJoin(WithShape(t, Column), 2)

\* The leaves of nested lists get as many dimensions as the lists are deep; a list of depth m
\* is joined along the m-th dimension from the end.
RECURSIVE NumpyBlock(_, _, _)
NumpyBlock(x, m, n) ==
  IF ~IsList(x) THEN Reshaped(x, Padded(x.shape, n))
  ELSE LET parts == [j \in DOMAIN x.list |-> NumpyBlock(x.list[j], m - 1, n)]
       IN IF \E j \in DOMAIN parts : ~OK(parts[j]) THEN Failure ELSE NumpyJoin(parts, n - m + 1)
RECURSIVE Leaves(_)
Leaves(x) == IF IsList(x) THEN UNION { Leaves(x.list[j]) : j \in DOMAIN x.list } ELSE { x }


\* Before each element along the axis go the values whose index it is, in the order of the call.
NumpyInsert(a, obj, values, d) ==
  LET n == a.shape[d]
      given == Elements(obj)
      ks == [j \in DOMAIN given |-> IF given[j] < 0 THEN given[j] + n ELSE given[j]]
      \* one index takes all the values there are along the axis, several take one each
      rows == Reshaped(values, Padded(values.shape, Ndim(a)))
      moved == IF Ndim(obj) = 0
               THEN LET order == InsertAt([x \in 1..(Ndim(a) - 1) |-> x + 1], d, 1)
                    IN TransposeDims(rows, order)
               ELSE rows
      m == IF Len(ks) = 1 THEN moved.shape[d] ELSE Len(ks)
      vals == BroadcastTo(IF Len(ks) = 1 THEN moved ELSE values, ReplaceAt(a.shape, d, m))
      at(j) == IF Len(ks) = 1 THEN ks[1] ELSE ks[j]
      \* what stands along the axis: << 1, j >> is value j, << 0, k >> element k
      line == FlattenSeq([k \in 1..(n + 1) |->
                SelectSeq([j \in 1..m |-> << 1, j - 1 >>], LAMBDA v : at(v[2] + 1) = k - 1)
                \o IF k <= n THEN << << 0, k - 1 >> >> ELSE << >>])
  IN IF ~OK(vals) THEN Failure
     ELSE Build(ReplaceAt(a.shape, d, Len(line)), LAMBDA i :
            LET e == line[i[d] + 1]
            IN IF e[1] = 1 THEN vals.at[[i EXCEPT ![d] = e[2]]] ELSE a.at[[i EXCEPT ![d] = e[2]]])

\* The parts of a of extent 1 along d at the given places, joined.
Chosen(a, d, places) ==
  IF places = << >> THEN Build(ReplaceAt(a.shape, d, 0), LAMBDA i : Unset)
  ELSE NumpyJoin([j \in DOMAIN places |-> SliceDim(a, d, places[j], places[j] + 1)], d)

\* One quarter turn from dimension x towards dimension y.
QuarterTurn(m, x, y) ==
  Build([d \in DOMAIN m.shape |-> m.shape[Swapped(Ndim(m), x, y)[d]]], LAMBDA i :
        m.at[[d \in DOMAIN i |-> IF d = x THEN i[y] ELSE IF d = y THEN m.shape[y] - 1 - i[x] ELSE i[d]]])
Turned(m, k, x, y) == FoldLeft(LAMBDA t, n : QuarterTurn(t, x, y), m, [n \in 1..(k % 4) |-> n])

-----------------------------------------------------------------------------
(* Properties.                                                             *)

\* reshape gives the elements in row-major order under the new shape, through whatever copies
\* and transformations of stores the grouping of the extents in DeferredArray.reshape picks.
\* Not so when a group that is split again follows one that is not, or for empty arrays with
\* an extent to be worked out.
ReshapeIsNumpy ==
  call.fn = "reshape" =>
    LET want == NumpyReshape(call.a, call.shape)
    IN \/ Size(call.a) = 0
       \/ OK(want) /\ Lopsided(call.a.shape, want.shape)
       \/ result = want

\* The functions that drop, add or reorder dimensions keep the elements: through projections
\* one after the other, whose dimensions move as they go; through reshape; through the list
\* that moveaxis inserts into.  squeeze is right for axes in ascending order.
AxesAreNumpy ==
  /\ call.fn \in {"squeeze", "squeeze_all"} =>
       LET a == call.a
           dims == IF call.fn = "squeeze" THEN Dims(call.axes, Ndim(a))
                   ELSE SelectSeq([d \in DOMAIN a.shape |-> d], LAMBDA d : a.shape[d] = 1)
           kept == SelectSeq([d \in DOMAIN a.shape |-> d], LAMBDA d : d \notin ToSet(dims))
           valid == /\ call.fn = "squeeze" => AxesFit(call.axes, Ndim(a))
                    /\ \A j \in DOMAIN dims : a.shape[dims[j]] = 1
           ascending == \A j, k \in DOMAIN dims : j < k => dims[j] < dims[k]
       IN IF ~valid THEN ~OK(result)
          ELSE ascending => result = Reshaped(a, [j \in DOMAIN kept |-> a.shape[kept[j]]])
  /\ call.fn = "expand_dims" =>
       LET n == Ndim(call.a) + Len(call.axes)
           new == ToSet(Dims(call.axes, n))
           kept == SelectSeq([d \in 1..n |-> d], LAMBDA d : d \notin new)
       IN IF ~AxesFit(call.axes, n) THEN ~OK(result)
          ELSE \/ call.a.shape = << 0 >>
               \/ /\ \A d \in new : result.shape[d] = 1
                  /\ [j \in DOMAIN kept |-> result.shape[kept[j]]] = call.a.shape
                  /\ Elements(result) = Elements(call.a)
  /\ call.fn = "moveaxis" =>
       LET n == Ndim(call.a)
           src == Dims(call.src, n)
           dst == Dims(call.dst, n)
           moved == { p \in [1..n -> 1..n] :
                        /\ IsInjective(p)
                        /\ \A j \in DOMAIN src : p[dst[j]] = src[j]
                        /\ \A x, y \in (1..n) \ ToSet(dst) : x < y => p[x] < p[y] }
       IN IF ~AxesFit(call.src, n) \/ ~AxesFit(call.dst, n) \/ Len(src) # Len(dst) THEN ~OK(result)
          ELSE \A p \in moved : result = TransposeDims(call.a, p)
  /\ call.fn = "swapaxes" /\ OK(result) =>
       \A i \in DOMAIN call.a.at :
         LET n == Ndim(call.a) sw == Swapped(n, Dim(call.x, n), Dim(call.y, n))
         IN result.at[[d \in 1..n |-> i[sw[d]]]] = call.a.at[i]

\* broadcast_to, and the pairs that iterating over a broadcast object yields in lock step, show
\* the element that NumPy's broadcasting puts at each place.
BroadcastIsNumpy ==
  /\ call.fn = "broadcast_to" => result = BroadcastTo(call.a, call.shape)
  /\ call.fn = "broadcast" /\ OK(result) =>
       LET shape == BroadcastShape({ call.a.shape, call.b.shape })
       IN \A i \in Box(shape) : result.pairs[Place(shape, i) + 1]
            = << BroadcastTo(call.a, shape).at[i], BroadcastTo(call.b, shape).at[i] >>

\* An array without elements and of one dimension, to which reshape adds no dimension.
EmptyLine(parts) == \E j \in DOMAIN parts : parts[j].shape = << 0 >>

\* concatenate and its relatives leave no place of the result unassigned and no element of an
\* input out, empty inputs included, and raise exactly when the shapes do not fit (column_stack
\* raises for arrays of one and of two dimensions together, too, and those that add a dimension
\* raise for an array << 0 >>).
JoinsAreNumpy ==
  /\ call.fn \in {"concatenate", "append"} => result = NumpyConcat(call.parts, call.axis)
  /\ call.fn = "concatenate_flat" =>
       result = NumpyJoin(WithShape(call.parts, LAMBDA s : << Product(s) >>), 1)
  /\ call.fn = "stack" /\ ~EmptyLine(call.parts) =>
       LET p == call.parts n == Ndim(p[1]) + 1
       IN IF p[1].shape # p[2].shape \/ ~AxisFits(call.axis, n) THEN ~OK(result)
          ELSE result = Build(InsertAt(p[1].shape, Dim(call.axis, n), 2), LAMBDA i :
                          p[i[Dim(call.axis, n)] + 1].at[RemoveAt(i, Dim(call.axis, n))])
  /\ call.fn \in {"vstack", "hstack", "dstack", "column_stack"} =>
       \/ result = NumpyStacks(call.fn, call.parts)
       \/ call.fn # "hstack" /\ EmptyLine(call.parts)
       \/ call.fn = "column_stack" /\ Ndim(call.parts[1]) # Ndim(call.parts[2])

\* block puts every leaf where NumPy's definition joins it, from the slices that the recursion
\* collects level by level; where leaves of one list differ in their dimensions, or have none,
\* it may raise.
BlockIsNumpy ==
  call.fn = "block" =>
    LET depth == check_list_depth(call.x)
        ndims == { Ndim(l) : l \in Leaves(call.x) }
        n == CHOOSE m \in ndims \union {depth} : \A k \in ndims \union {depth} : k <= m
        want == IF depth < 1 THEN Failure ELSE NumpyBlock(call.x, depth, n)
    IN OK(want) => result = want \/ (~OK(result) /\ (Cardinality(ndims) > 1 \/ 0 \in ndims))

\* insert leaves the values before the elements that the indices name and in the order of the
\* call, however the indices are raised; with several indices along the first axis only.
InsertIsNumpy ==
  call.fn = "insert" /\ AxisFits(call.axis, Ndim(call.a)) =>
    LET d == Dim(call.axis, Ndim(call.a))
        n == call.a.shape[d]
    IN (Size(call.obj) = 1 \/ d = 1) /\ (\A i \in DOMAIN call.obj.at : call.obj.at[i] \in (-n)..n)
       => result = NumpyInsert(call.a, call.obj, call.values, d)

\* The sections of array_split, joined, are the array, and their extents differ by one at most,
\* the longer ones first; between given places they are NumPy's slices.
SplitsJoin ==
  call.fn \in {"array_split", "hsplit", "vsplit", "dsplit"} /\ OK(result) =>
    LET a == call.a
        d == Dim(call.axis, Ndim(a))
        parts == result.parts
        size(k) == parts[k].shape[d]
        bound(k) == IF k = 0 THEN 0 ELSE IF k > Len(call.p.at) THEN a.shape[d]
                    ELSE IF call.p.at[k] > a.shape[d] THEN a.shape[d] ELSE call.p.at[k]
    IN IF "n" \in DOMAIN call.p
       THEN /\ Len(parts) = call.p.n
            /\ \A k \in 2..Len(parts) : size(k - 1) - size(k) \in {0, 1}
            /\ size(1) - size(Len(parts)) \in {0, 1}
            /\ NumpyJoin(parts, d) = a
       ELSE /\ Len(parts) = Len(call.p.at) + 1
            /\ \A k \in DOMAIN parts :
                 parts[k] = Chosen(a, d, [j \in 1..(bound(k) - bound(k - 1)) |-> bound(k - 1) + j - 1])

\* tile and repeat, which tasks compute from the point of each element, are copies joined along
\* each axis.
CopiesJoin ==
  /\ call.fn = "tile" =>
       LET n == IF Len(call.reps) > Ndim(call.a) THEN Len(call.reps) ELSE Ndim(call.a)
           reps == Padded(call.reps, n)
           start == Reshaped(call.a, Padded(call.a.shape, n))
       IN result = FoldLeft(LAMBDA t, d :
              Chosen(t, d, [k \in 1..(t.shape[d] * reps[d]) |-> (k - 1) % t.shape[d]]),
              start, [d \in 1..n |-> d])
  /\ call.fn = "repeat" /\ AxisFits(call.axis, Ndim(call.a)) =>
       LET d == Dim(call.axis, Ndim(call.a))
           size == call.a.shape[d]
           times == IF "n" \in DOMAIN call.r THEN [k \in 1..size |-> call.r.n]
                    ELSE IF Len(call.r.at) = 1 THEN [k \in 1..size |-> call.r.at[1]] ELSE call.r.at
       IN size > 0 => IF Len(times) # size THEN ~OK(result)
                      ELSE result = Chosen(call.a, d, FlattenSeq([k \in 1..size |->
                                             [m \in 1..times[k] |-> k - 1]]))

\* delete leaves the elements that no index, slice or True names, and raises for an index that
\* names none.
DeleteIsNumpy ==
  call.fn = "delete" /\ AxisFits(call.axis, Ndim(call.a)) =>
    LET d == Dim(call.axis, Ndim(call.a))
        size == call.a.shape[d]
        gone == IF "at" \in DOMAIN call.obj THEN { IF call.obj.at[j] < 0 THEN call.obj.at[j] + size ELSE call.obj.at[j] : j \in DOMAIN call.obj.at }
                ELSE IF "mask" \in DOMAIN call.obj
                THEN { j - 1 : j \in { k \in DOMAIN call.obj.mask : call.obj.mask[k] } }
                ELSE call.obj.lo..(call.obj.hi - 1)
        valid == /\ "at" \in DOMAIN call.obj =>
                      \A j \in DOMAIN call.obj.at : call.obj.at[j] \in (-size)..(size - 1)
                 /\ "mask" \in DOMAIN call.obj => Len(call.obj.mask) = size
    IN IF ~valid THEN ~OK(result)
       ELSE result = Chosen(call.a, d, SelectSeq([k \in 1..size |-> k - 1], LAMBDA k : k \notin gone))

\* roll and rot90 move each element to the place that the sum of the shifts of its axes, or the
\* number of quarter turns, says; flipping two axes is half a turn.
\* (An array without elements does not get its shape back when it is rolled flat.)
TurnsAreNumpy ==
  /\ call.fn = "roll" /\ OK(result) =>
       LET a == call.a
           m == IF Len(call.by) > Len(call.axes) THEN Len(call.by) ELSE Len(call.axes)
           pick(s, j) == IF Len(s) = 1 THEN s[1] ELSE s[j]
           by(d) == SumOf([j \in 1..m |-> IF Dim(pick(call.axes, j), Ndim(a)) = d
                                          THEN pick(call.by, j) ELSE 0])
       IN \A i \in DOMAIN a.at :
            result.at[[d \in DOMAIN i |-> (i[d] + by(d)) % a.shape[d]]] = a.at[i]
  /\ call.fn = "roll_flat" /\ Size(call.a) > 0 =>
       LET s == call.a.shape n == Size(call.a)
       IN /\ result.shape = s
          /\ \A i \in Box(s) : result.at[IndexAt(s, (Place(s, i) + call.by) % n)] = call.a.at[i]
  /\ call.fn \in {"rot90", "flip"} /\ OK(result) =>
       LET n == Ndim(call.a)
           k == IF call.fn = "flip" THEN 2 ELSE call.k
       IN Len(call.axes) = 2 =>
            result = Turned(call.a, k, Dim(call.axes[1], n), Dim(call.axes[2], n))

\* A view of an array of the application that asarray attaches is the view again, computed back from
\* an address and strides: every element in its order, dimensions that an integer dropped staying
\* as extents of one.  It is refused where an axis runs backwards or a new axis comes last, where the
\* owner is empty or has no dimensions, and on the deferred side mostly for steps.  A view whose axes are
\* transposed may come back wrong.
SharedViewsAreKept ==
  call.fn = "asarray" /\ ~call.reversed =>
    LET view == call.view
        proper(shape) == SelectSeq(shape, LAMBDA e : e # 1)
        kept == { d \in DOMAIN call.cuts : ~call.cuts[d].drop }
        refused == \/ call.shape = << >> \/ Product(call.shape) = 0
                   \/ \E d \in kept : call.cuts[d].step < 0
                   \/ call.new = Cardinality(kept) + 1
        stepped == \E d \in kept : call.cuts[d].step # 1
    IN IF refused THEN ~OK(result)
       ELSE \/ ~OK(result) /\ call.deferred /\ stepped
            \/ /\ OK(result)
               /\ proper(result.shape) = proper(view.shape)
               /\ Elements(result) = Elements(Shown(view))

\* The functions that rearrange an array without joining or cutting it - reshape, the functions that
\* drop, add, reorder, flip or roll dimensions, broadcasting - give every element its place in NumPy's
\* result, through the transformations of stores and the temporaries they go by.
ShapesAreNumpy ==
  /\ ReshapeIsNumpy
  /\ AxesAreNumpy
  /\ BroadcastIsNumpy
  /\ TurnsAreNumpy
  /\ SharedViewsAreKept

\* Joining loses, repeats and displaces nothing, cutting is its inverse, and what is inserted, deleted or
\* repeated stands where NumPy puts it, of every mix of shapes and of lists of sections.
PartsAreNumpy ==
  /\ JoinsAreNumpy
  /\ BlockIsNumpy
  /\ InsertIsNumpy
  /\ SplitsJoin
  /\ CopiesJoin
  /\ DeleteIsNumpy
=============================================================================
