----------------------------- MODULE Statistics -----------------------------
(***************************************************************************)
(* One call of a function that reduces arrays: sums and their relatives,   *)
(* those that skip NaNs, averages, variances, running sums and quantiles,  *)
(* down to the launches that the reduction of several axes is made of.     *)
(*                                                                         *)
(* The elements are integers from Least to Greatest, the range of a small  *)
(* type, and NaN.  Fractions are pairs of a numerator and a denominator.   *)
(***************************************************************************)
EXTENDS Manipulation

CONSTANTS
  Samples,      \* the arrays
  AxisTuples,   \* the axis arguments that are tuples
  Masks,        \* the arrays of Booleans that where= is given
  None, NaN,
  Least, Greatest,
  NoPlace       \* the place of the identity of an arg-reduction, LLONG_MIN

Kept(i, d, k, keepdims) == IF keepdims THEN [i EXCEPT ![d] = k] ELSE InsertAt(i, d, k)
Shrunk(shape, d, keepdims) == IF keepdims THEN [shape EXCEPT ![d] = 1] ELSE RemoveAt(shape, d)
Elementwise(m, F(_)) == Build(m.shape, LAMBDA i : F(m.at[i]))
Descending(S) == Reverse(SelectSeq([d \in 1..3 |-> d], LAMBDA d : d \in S))

Plus(x, y) == IF x = NaN \/ y = NaN THEN NaN ELSE x + y
Times(x, y) == IF x = NaN \/ y = NaN THEN NaN ELSE x * y
isnan(m) == Elementwise(m, LAMBDA x : x = NaN)
IsFloat(m) == \E i \in DOMAIN m.at : m.at[i] = NaN

-----------------------------------------------------------------------------
(* Reductions.                                                             *)

ArgReds == {"ARGMAX", "ARGMIN", "NANARGMAX", "NANARGMIN"}
_NON_DECOMPOSABLE_OPS == ArgReds \union {"ALL", "ANY", "COUNT_NONZERO"}
get_non_nan_unary_red_code(m, op) ==
  IF IsFloat(m) THEN op
  ELSE CASE op = "NANARGMAX" -> "ARGMAX" [] op = "NANARGMIN" -> "ARGMIN" [] op = "NANMAX" -> "MAX"
         [] op = "NANMIN" -> "MIN" [] op = "NANSUM" -> "SUM" [] op = "NANPROD" -> "PROD" [] OTHER -> op

Maximal == {"MAX", "NANMAX", "ARGMAX", "NANARGMAX"}
Minimal == {"MIN", "NANMIN", "ARGMIN", "NANARGMIN"}
Identity(op) ==
  CASE op \in {"PROD", "NANPROD", "ALL"} -> 1
    [] op \in Maximal -> IF op \in ArgReds THEN [place |-> NoPlace, value |-> Least] ELSE Least
    [] op \in Minimal -> IF op \in ArgReds THEN [place |-> NoPlace, value |-> Greatest] ELSE Greatest
    [] OTHER -> 0

Fold(op, x, y) ==
  CASE op \in {"PROD", "NANPROD"} -> Times(x, y)
    [] op = "ALL" -> x * y
    [] op = "ANY" -> IF x = 1 THEN x ELSE y
    [] op \in {"MAX", "NANMAX"} -> IF y > x THEN y ELSE x
    [] op \in {"MIN", "NANMIN"} -> IF y < x THEN y ELSE x
    \* Argval::apply: the place changes when the value does.
    [] op \in {"ARGMAX", "NANARGMAX"} -> IF y.value > x.value THEN y ELSE x
    [] op \in {"ARGMIN", "NANARGMIN"} -> IF y.value < x.value THEN y ELSE x
    [] OTHER -> Plus(x, y)

\* UnaryRedOp::convert: what an element counts as.
Converted(op, place, x) ==
  CASE op \in {"NANARGMAX", "NANARGMIN"} -> IF x = NaN THEN Identity(op) ELSE [place |-> place, value |-> x]
    [] op \in {"ARGMAX", "ARGMIN"} -> [place |-> place, value |-> x]
    [] op \in {"NANSUM", "NANPROD", "NANMAX", "NANMIN"} -> IF x = NaN THEN Identity(op) ELSE x
    [] op \in {"ALL", "ANY", "COUNT_NONZERO"} -> IF x = 0 THEN 0 ELSE 1
    [] op = "SUM_SQUARES" -> Times(x, x)
    [] OTHER -> x

\* One dimension away; start is what the result is filled with.
UnaryRed(op, start, m, mask, d, keepdims) ==
  Build(Shrunk(m.shape, d, keepdims), LAMBDA i :
    FoldLeft(LAMBDA x, k :
               IF mask = None THEN Fold(op, x, Converted(op, k, m.at[Kept(i, d, k, keepdims)]))
               ELSE IF mask.at[Kept(i, d, k, keepdims)]
               THEN Fold(op, x, Converted(op, k, m.at[Kept(i, d, k, keepdims)])) ELSE x,
             start, [k \in 1..m.shape[d] |-> k - 1]))

ScalarUnaryRed(op, start, m, mask) ==
  FoldLeft(LAMBDA x, n :
             IF mask = None THEN Fold(op, x, Converted(op, n, m.at[IndexAt(m.shape, n)]))
             ELSE IF mask.at[IndexAt(m.shape, n)]
             THEN Fold(op, x, Converted(op, n, m.at[IndexAt(m.shape, n)])) ELSE x,
           start, [n \in 1..Size(m) |-> n - 1])

\* DeferredArray._multi_axis_unary_reduction: the last axis first, the mask only then, the initial value
\* only in the result.
Later(op, start, m, order, keepdims) ==
  FoldLeft(LAMBDA t, n : UnaryRed(op, IF n = Len(order) THEN start ELSE Identity(op), t, None, order[n], keepdims),
           m, Tail([n \in DOMAIN order |-> n]))
MultiAxis(op, start, m, mask, axes, keepdims) ==
  LET order == Descending(axes)
  IN Later(op, start, UnaryRed(op, Identity(op), m, mask, order[1], keepdims), order, keepdims)

unary_reduction(op, start, m, mask, axes, keepdims, shape) ==
  LET made == IF Product(shape) = 1
              THEN LET x == ScalarUnaryRed(op, start, m, mask) IN Build(shape, LAMBDA i : x)
              ELSE IF Cardinality(axes) = 1
              THEN UnaryRed(op, start, m, mask, CHOOSE d \in axes : TRUE, keepdims)
              ELSE MultiAxis(op, start, m, mask, axes, keepdims)
  IN IF op \in ArgReds THEN Elementwise(made, LAMBDA x : x.place) ELSE made

\* The dimensions that an axis argument names.
AxesOf(axis, n) == IF axis = None THEN 1..n ELSE ToSet(Dims(axis, n))
ReducedShape(shape, axes, keepdims) ==
  IF keepdims THEN [d \in DOMAIN shape |-> IF d \in axes THEN 1 ELSE shape[d]]
  ELSE LET rest == SelectSeq([d \in DOMAIN shape |-> d], LAMBDA d : d \notin axes)
       IN [x \in DOMAIN rest |-> shape[rest[x]]]

Masked(op, m, axes, keepdims, initial, mask) ==
  IF op \in _NON_DECOMPOSABLE_OPS /\ Cardinality(axes) \in 2..(Ndim(m) - 1) THEN Failure
  ELSE IF mask = Failure THEN Failure
  ELSE unary_reduction(op, IF initial = None THEN Identity(op) ELSE initial, m, mask, axes, keepdims,
                       ReducedShape(m.shape, axes, keepdims))
broadcast_where(where, shape) == IF where = None THEN None ELSE BroadcastTo(where, shape)
perform_unary_reduction(op, m, axis, keepdims, initial, where) ==
  IF axis # None /\ ~AxesFit(axis, Ndim(m)) THEN Failure
  ELSE Masked(op, m, AxesOf(axis, Ndim(m)), keepdims, initial, broadcast_where(where, m.shape))

\* The methods of ndarray; the functions reduce by a ufunc, which takes axis 0 of a single value.
sum(m, axis, keepdims, initial, where) == perform_unary_reduction("SUM", m, axis, keepdims, initial, where)
prod(m, axis, keepdims, initial, where) == perform_unary_reduction("PROD", m, axis, keepdims, initial, where)
max(m, axis, keepdims, initial, where) == perform_unary_reduction("MAX", m, axis, keepdims, initial, where)
min(m, axis, keepdims, initial, where) == perform_unary_reduction("MIN", m, axis, keepdims, initial, where)
all(m, axis, keepdims, where) == perform_unary_reduction("ALL", m, axis, keepdims, None, where)
any(m, axis, keepdims, where) == perform_unary_reduction("ANY", m, axis, keepdims, None, where)
OneAxisOnly(axis) == IF axis = None THEN TRUE ELSE Len(axis) = 1
argmax(m, axis, keepdims) ==
  IF ~OneAxisOnly(axis) THEN Failure ELSE perform_unary_reduction("ARGMAX", m, axis, keepdims, None, None)
argmin(m, axis, keepdims) ==
  IF ~OneAxisOnly(axis) THEN Failure ELSE perform_unary_reduction("ARGMIN", m, axis, keepdims, None, None)
ReducedAxis(axis, m) == IF Ndim(m) = 0 /\ axis = << 0 >> THEN None ELSE axis
reduce(red_code, m, axis, keepdims, initial, where) ==
  perform_unary_reduction(red_code, m, ReducedAxis(axis, m), keepdims, initial, where)

\* FAULTY: slices without numbers keep the identity.
FaultyWithNaNs(made, nans) == made
\* nanmin and nanmax; in the compatible mode slices without numbers give NaN.
WithNaNs(made, nans) ==
  IF ~OK(made) \/ ~OK(nans) THEN Failure
  ELSE Build(made.shape, LAMBDA i : IF nans.at[i] = 1 THEN NaN ELSE made.at[i])
AllNaN(m, axis, keepdims, where) == all(Elementwise(m, LAMBDA x : IF x = NaN THEN 1 ELSE 0), axis, keepdims, where)
NanReduced(op, m, axis, keepdims, initial, where) ==
  perform_unary_reduction(get_non_nan_unary_red_code(m, op), m, axis, keepdims, initial, where)
NanExtremum(op, m, axis, keepdims, initial, where, compat) ==
  IF ~compat \/ ~IsFloat(m) THEN NanReduced(op, m, axis, keepdims, initial, where)
  ELSE WithNaNs(NanReduced(op, m, axis, keepdims, initial, where), AllNaN(m, axis, keepdims, where))

\* nanargmin and nanargmax; in the compatible mode slices without numbers raise.
AnyOne(nans) == OK(nans) /\ \E i \in DOMAIN nans.at : nans.at[i] = 1
NanArg(op, m, axis, keepdims, compat) ==
  IF Size(m) = 0 THEN Failure
  ELSE IF compat /\ IsFloat(m) /\ AnyOne(AllNaN(m, axis, FALSE, None)) THEN Failure
  ELSE NanReduced(op, m, axis, keepdims, None, None)

_count_nonzero(m, axis) ==
  IF Size(m) = 0 THEN Build(<< >>, LAMBDA i : 0) ELSE perform_unary_reduction("COUNT_NONZERO", m, axis, FALSE, None, None)

-----------------------------------------------------------------------------
(* Averages.                                                               *)

Ones(mask) == Elementwise(mask, LAMBDA x : IF x THEN 1 ELSE 0)

\* The sums over what they are sums of: each a fraction.
_normalize_summation(sums, m, axis, ddof, keepdims, mask) ==
  LET axes == AxesOf(axis, Ndim(m))
      ByNumber(n) == Elementwise(sums, LAMBDA x : << x, n - ddof >>)
      ByNumbers(n) == Build(sums.shape, LAMBDA i : << sums.at[i], IF n.at[i] = 0 THEN 0 ELSE n.at[i] - ddof >>)
  IN IF mask = None THEN ByNumber(Product([d \in 1..Ndim(m) |-> IF d \in axes THEN m.shape[d] ELSE 1]))
     ELSE IF axis = None THEN ByNumber(_count_nonzero(Ones(mask), None).at[<< >>])
     ELSE ByNumbers(perform_unary_reduction("SUM", Ones(mask), axis, keepdims, None, None))

MeanOf(sums, m, axis, keepdims, mask) ==
  IF ~OK(sums) THEN Failure ELSE _normalize_summation(sums, m, axis, 0, keepdims, mask)
mean(m, axis, keepdims, where) ==
  MeanOf(sum(m, axis, keepdims, None, where), m, axis, keepdims,
         broadcast_where(where, m.shape))

\* p &= q: p keeps its shape.
And(p, q) ==
  LET full == BroadcastTo(q, p.shape)
  IN IF ~OK(full) THEN Failure ELSE Build(p.shape, LAMBDA i : p.at[i] /\ full.at[i])

_nanmean(m, axis, keepdims, where) ==
  LET numbers == Elementwise(m, LAMBDA x : x # NaN)
      MeanWhere(mask) == IF mask = Failure THEN Failure ELSE mean(m, axis, keepdims, mask)
  IN MeanWhere(IF where = None THEN numbers ELSE And(numbers, where))

\* The deviations from a mean s / n, times n.
Deviations(m, mu) ==
  LET full == BroadcastTo(mu, m.shape)
  IN Build(m.shape, LAMBDA i : Plus(Times(full.at[i][2], m.at[i]), Times(-1, full.at[i][1])))

\* In one pass over all axes, in two otherwise; the squares of the deviations times the n of the
\* means are over the squares of n times the divisor.
Shaped(mu, shape) == IF mu.shape = shape THEN mu ELSE reshape(mu, shape)
VarianceOf(squares, mu, over) == Build(squares.shape, LAMBDA i : << over.at[i][1], mu.at[i][2] * mu.at[i][2] * over.at[i][2] >>)
Squares(m, mu, axis, keepdims, mask) ==
  perform_unary_reduction("SUM_SQUARES", Deviations(m, mu), axis, keepdims, None, mask)
var(m, axis, ddof, keepdims, where) ==
  LET mask == broadcast_where(where, m.shape)
      Normalized(squares, mu) == VarianceOf(squares, Shaped(mu, squares.shape), _normalize_summation(squares, m, axis, ddof, keepdims, mask))
      From(mu) == IF ~OK(mu) THEN Failure ELSE Normalized(Squares(m, mu, axis, keepdims, mask), mu)
  IN From(mean(m, axis, TRUE, where))

AverageOf(avg, scl) ==
  IF ~OK(avg) THEN Failure
  ELSE IF \E i \in DOMAIN scl.at : scl.at[i] = 0 THEN Failure
  ELSE Build(avg.shape, LAMBDA i : << avg.at[i], scl.at[i] >>)
Weighing(m, weights) == Build(m.shape, LAMBDA i : Times(m.at[i], weights.at[i]))
Weighted(m, weights, axis, keepdims) ==
  AverageOf(sum(Weighing(m, weights), axis, keepdims, None, None), sum(weights, axis, keepdims, None, None))

\* One weight for each element, or one for each place along the one axis.
average(m, axis, weights, keepdims) ==
  IF axis # None /\ ~AxesFit(axis, Ndim(m)) THEN Failure
  ELSE IF weights = None THEN mean(m, axis, keepdims, None)
  ELSE IF weights.shape = m.shape THEN Weighted(m, weights, axis, keepdims)
  ELSE IF axis = None \/ Ndim(weights) # 1 THEN Failure
  ELSE IF Len(axis) # 1 THEN Failure
  ELSE LET d == Dim(axis[1], Ndim(m))
           scl == SumOf([n \in 1..Size(weights) |-> weights.at[<< n - 1 >>]])
           project_shape == [x \in 1..Ndim(m) |-> IF x = d THEN -1 ELSE 1]
           Along_(rows) == Weighing(m, BroadcastTo(rows, m.shape))
       IN IF Size(weights) # m.shape[d] \/ scl = 0 THEN Failure
          ELSE Elementwise(sum(Along_(reshape(weights, project_shape)), axis, keepdims, None, None), LAMBDA x : << x, scl >>)

-----------------------------------------------------------------------------
(* Running sums and products, differences, gradients, cross products.      *)

\* What convert, or the kernel, does of NaNs.
_nan_to_identity(op, m) == Elementwise(m, LAMBDA x : IF x = NaN THEN Identity(op) ELSE x)
scan(op, m, d) ==
  Build(m.shape, LAMBDA i :
    FoldLeft(LAMBDA x, k : Fold(op, x, m.at[[i EXCEPT ![d] = k]]), Identity(op), [k \in 1..(i[d] + 1) |-> k - 1]))
ScanAlong(op, src, d, nan_to_identity) ==
  IF ~OK(src) THEN Failure ELSE scan(op, IF nan_to_identity THEN _nan_to_identity(op, src) ELSE src, d)
perform_scan(op, m, axis, nan_to_identity) ==
  IF axis = None THEN ScanAlong(op, ravel(m), 1, nan_to_identity)
  ELSE IF ~AxisFits(axis, Ndim(m)) THEN Failure
  ELSE ScanAlong(op, m, Dim(axis, Ndim(m)), nan_to_identity)

\* What diff puts before or after the array: a number stands for a whole part.
Attached(m, x, d) == IF x = None THEN << >>
                     ELSE << IF Ndim(x) = 0 THEN BroadcastTo(x, [m.shape EXCEPT ![d] = 1]) ELSE x >>
Differences(m, d) ==
  LET n == m.shape[d]
  IN Build([m.shape EXCEPT ![d] = n - 1],
           LAMBDA i : SliceDim(m, d, 1, n).at[i] - SliceDim(m, d, 0, n - 1).at[i])
\* FAULTY: one difference too many.
FaultyDifferenced(m, n, d) == FoldLeft(LAMBDA t, k : IF t.shape[d] = 0 THEN t ELSE Differences(t, d), m, [k \in 1..(n + 1) |-> k])
Differenced(m, n, d) ==
  IF m.shape[d] <= n THEN Build([m.shape EXCEPT ![d] = 0], LAMBDA i : Unset)
  ELSE FoldLeft(LAMBDA t, k : Differences(t, d), m, [k \in 1..n |-> k])
diff(m, n, axis, prepend, append_) ==
  IF n = 0 THEN m
  ELSE IF n < 0 \/ Ndim(m) = 0 \/ ~AxisFits(axis, Ndim(m)) THEN Failure
  ELSE LET d == Dim(axis, Ndim(m))
           parts == Attached(m, prepend, d) \o << m >> \o Attached(m, append_, d)
           whole == IF Len(parts) > 1 THEN concatenate(parts, axis) ELSE m
       IN IF ~OK(whole) THEN Failure ELSE Differenced(whole, n, d)

\* Fractions.
Over(n, q) == << n, q >>
Added(x, y) == << x[1] * y[2] + y[1] * x[2], x[2] * y[2] >>
Scaled(x, n) == << x[1] * n, x[2] >>
\* a * f + b * g + c * h
Weigh(a, f, b, g, c, h) == Added(Added(Scaled(a, f), Scaled(b, g)), Scaled(c, h))

\* The derivative at the places of one line, f, whose neighbours are dx apart: one number, or one
\* for each pair of neighbours.  The inner places first, then the edges.
Inner(f, k, uniform, dx) ==
  IF uniform THEN Over(f[k + 1] - f[k - 1], 2 * dx[1])
  ELSE LET p == dx[k - 1] q == dx[k]
       IN Weigh(Over(-q, p * (p + q)), f[k - 1], Over(q - p, p * q), f[k], Over(p, q * (p + q)), f[k + 1])
FirstEdge(f, uniform, dx) ==
  IF uniform THEN Weigh(Over(-3, 2 * dx[1]), f[1], Over(2, dx[1]), f[2], Over(-1, 2 * dx[1]), f[3])
  ELSE LET p == dx[1] q == dx[2]
       IN Weigh(Over(-(2 * p + q), p * (p + q)), f[1], Over(p + q, p * q), f[2], Over(-p, q * (p + q)), f[3])
LastEdge(f, uniform, dx) ==
  LET n == Len(f)
  IN IF uniform THEN Weigh(Over(1, 2 * dx[1]), f[n - 2], Over(-2, dx[1]), f[n - 1], Over(3, 2 * dx[1]), f[n])
     ELSE LET p == dx[Len(dx) - 1] q == dx[Len(dx)]
          IN Weigh(Over(q, p * (p + q)), f[n - 2], Over(-(q + p), p * q), f[n - 1], Over(2 * q + p, q * (p + q)), f[n])
Derivative(f, uniform, dx, edge_order) ==
  LET n == Len(f)
      last == IF uniform THEN dx[1] ELSE dx[Len(dx)]
  IN [k \in 1..n |->
        IF k \in 2..(n - 1) THEN Inner(f, k, uniform, dx)
        ELSE IF edge_order = 2 THEN IF k = 1 THEN FirstEdge(f, uniform, dx) ELSE LastEdge(f, uniform, dx)
        ELSE IF k = 1 THEN Over(f[2] - f[1], dx[1]) ELSE Over(f[n] - f[n - 1], last)]
\* gradient of an array of one dimension, or along one of its dimensions; points: None for
\* neighbours one apart, a number for a distance, an array of one dimension for where the places are.
gradient(m, axis, points, edge_order) ==
  IF ~AxisFits(axis, Ndim(m)) THEN Failure
  ELSE LET d == Dim(axis, Ndim(m))
           n == m.shape[d]
           uniform == points = None \/ Ndim(points) = 0
           \* diff of the points
           dx == IF points = None THEN << 1 >>
                 ELSE IF Ndim(points) = 0 THEN << points.at[<< >>] >>
                 ELSE [k \in 1..(Size(points) - 1) |-> points.at[<< k >>] - points.at[<< k - 1 >>]]
           line(i) == [k \in 1..n |-> m.at[[i EXCEPT ![d] = k - 1]]]
       IN IF ~uniform /\ (Ndim(points) # 1 \/ Size(points) # n) THEN Failure
          ELSE IF n < edge_order + 1 THEN Failure
          ELSE Build(m.shape, LAMBDA i : Derivative(line(i), uniform, dx, edge_order)[i[d] + 1])

\* The products of two vectors, of which one or both may lack the third component.
Components(p, q) ==
  IF Len(p) = 2 /\ Len(q) = 2 THEN << p[1] * q[2] - p[2] * q[1] >>
  ELSE IF Len(p) = 2 THEN << p[2] * q[3], -(p[1] * q[3]), p[1] * q[2] - p[2] * q[1] >>
  ELSE IF Len(q) = 2 THEN << -(p[3] * q[2]), p[3] * q[1], p[1] * q[2] - p[2] * q[1] >>
  ELSE << p[2] * q[3] - p[3] * q[2], p[3] * q[1] - p[1] * q[3], p[1] * q[2] - p[2] * q[1] >>
\* The vectors along the last dimension.
Vectors(m) == Build(Front(m.shape), LAMBDA i : [k \in 1..Last(m.shape) |-> m.at[Append(i, k - 1)]])
Crossed(p, q, axisc, flat) ==
  IF ~Broadcasts({ p.shape, q.shape }) THEN Failure
  ELSE LET shape == BroadcastShape({ p.shape, q.shape })
           at(i) == Components(BroadcastTo(p, shape).at[i], BroadcastTo(q, shape).at[i])
           n == Len(shape) + 1
       IN IF flat THEN Build(shape, LAMBDA i : at(i)[1])
          ELSE IF ~AxisFits(axisc, n) THEN Failure
          ELSE moveaxis(Build(Append(shape, 3), LAMBDA i : at(Front(i))[Last(i) + 1]), << -1 >>, << Dim(axisc, n) - 1 >>)
cross(a, b, axisa, axisb, axisc) ==
  IF Ndim(a) < 1 \/ Ndim(b) < 1 THEN Failure
  ELSE IF ~AxisFits(axisa, Ndim(a)) \/ ~AxisFits(axisb, Ndim(b)) THEN Failure
  ELSE IF { a.shape[Dim(axisa, Ndim(a))], b.shape[Dim(axisb, Ndim(b))] } \subseteq {2, 3}
  THEN Crossed(Vectors(moveaxis(a, << axisa >>, << -1 >>)), Vectors(moveaxis(b, << axisb >>, << -1 >>)), axisc,
               a.shape[Dim(axisa, Ndim(a))] = 2 /\ b.shape[Dim(axisb, Ndim(b))] = 2)
  ELSE Failure

-----------------------------------------------------------------------------

AnyAxis == {None} \union AxisTuples
AnyMask == {None} \union Masks
Numeric == { m \in Samples : ~IsFloat(m) }
Numbers == { Build(<< >>, LAMBDA i : n) : n \in {2, 5} }

\* A call of a function, or of the method of the same name.
Reducing(op, m, axis, keepdims, where, initial, made) ==
  \E r \in made : Call([fn |-> "reduce", op |-> op, m |-> m, axis |-> axis, keepdims |-> keepdims, where |-> where, initial |-> initial], r)
Sum == Idle /\ \E m \in Samples, axis \in AnyAxis, keepdims \in BOOLEAN, where \in AnyMask, initial \in {None, 1} :
  Reducing("SUM", m, axis, keepdims, where, initial, { reduce("SUM", m, axis, keepdims, initial, where), sum(m, axis, keepdims, initial, where) })
Prod == Idle /\ \E m \in Samples, axis \in AnyAxis, keepdims \in BOOLEAN, where \in AnyMask, initial \in {None, 1} :
  Reducing("PROD", m, axis, keepdims, where, initial, { reduce("PROD", m, axis, keepdims, initial, where), prod(m, axis, keepdims, initial, where) })
Amax == Idle /\ \E m \in Numeric, axis \in AnyAxis, keepdims \in BOOLEAN, where \in AnyMask, initial \in {None, 2} :
  Reducing("MAX", m, axis, keepdims, where, initial, { reduce("MAX", m, axis, keepdims, initial, where), max(m, axis, keepdims, initial, where) })
Amin == Idle /\ \E m \in Numeric, axis \in AnyAxis, keepdims \in BOOLEAN, where \in AnyMask, initial \in {None, 2} :
  Reducing("MIN", m, axis, keepdims, where, initial, { reduce("MIN", m, axis, keepdims, initial, where), min(m, axis, keepdims, initial, where) })
AllTrue == Idle /\ \E m \in Samples, axis \in AnyAxis, keepdims \in BOOLEAN, where \in AnyMask :
  Reducing("ALL", m, axis, keepdims, where, None, { all(m, axis, keepdims, where) })
AnyTrue == Idle /\ \E m \in Samples, axis \in AnyAxis, keepdims \in BOOLEAN, where \in AnyMask :
  Reducing("ANY", m, axis, keepdims, where, None, { any(m, axis, keepdims, where) })
CountNonzero == Idle /\ \E m \in Samples, axis \in AnyAxis : Reducing("COUNT_NONZERO", m, axis, FALSE, None, None, { _count_nonzero(m, axis) })
Nansum == Idle /\ \E m \in Samples, axis \in AnyAxis, keepdims \in BOOLEAN, where \in AnyMask, initial \in {None, 1} :
  Reducing("NANSUM", m, axis, keepdims, where, initial, { NanReduced("NANSUM", m, axis, keepdims, initial, where) })
Nanprod == Idle /\ \E m \in Samples, axis \in AnyAxis, keepdims \in BOOLEAN, where \in AnyMask, initial \in {None, 1} :
  Reducing("NANPROD", m, axis, keepdims, where, initial, { NanReduced("NANPROD", m, axis, keepdims, initial, where) })
Placing(op, m, axis, keepdims, compat, made) ==
  Call([fn |-> "arg", op |-> op, m |-> m, axis |-> axis, keepdims |-> keepdims, compat |-> compat], made)
Argmax == Idle /\ \E m \in Numeric, axis \in AnyAxis, keepdims \in BOOLEAN : Placing("ARGMAX", m, axis, keepdims, FALSE, argmax(m, axis, keepdims))
Argmin == Idle /\ \E m \in Numeric, axis \in AnyAxis, keepdims \in BOOLEAN : Placing("ARGMIN", m, axis, keepdims, FALSE, argmin(m, axis, keepdims))
Nanargmax == Idle /\ \E m \in Samples, axis \in AnyAxis, keepdims, compat \in BOOLEAN :
  Placing("NANARGMAX", m, axis, keepdims, compat, NanArg("NANARGMAX", m, axis, keepdims, compat))
Nanargmin == Idle /\ \E m \in Samples, axis \in AnyAxis, keepdims, compat \in BOOLEAN :
  Placing("NANARGMIN", m, axis, keepdims, compat, NanArg("NANARGMIN", m, axis, keepdims, compat))
NanExtreme(op, m, axis, keepdims, where, compat, made) ==
  Call([fn |-> "nan_extremum", op |-> op, m |-> m, axis |-> axis, keepdims |-> keepdims, where |-> where, compat |-> compat], made)
Nanmax == Idle /\ \E m \in Samples, axis \in AnyAxis, keepdims \in BOOLEAN, where \in AnyMask, compat \in BOOLEAN :
  NanExtreme("NANMAX", m, axis, keepdims, where, compat, NanExtremum("NANMAX", m, axis, keepdims, None, where, compat))
Nanmin == Idle /\ \E m \in Samples, axis \in AnyAxis, keepdims \in BOOLEAN, where \in AnyMask, compat \in BOOLEAN :
  NanExtreme("NANMIN", m, axis, keepdims, where, compat, NanExtremum("NANMIN", m, axis, keepdims, None, where, compat))
Averaged(m, axis, keepdims, where, skip, made) ==
  Call([fn |-> "mean", m |-> m, axis |-> axis, keepdims |-> keepdims, where |-> where, skip |-> skip], made)
Mean == Idle /\ \E m \in Samples, axis \in AnyAxis, keepdims \in BOOLEAN, where \in AnyMask :
  Averaged(m, axis, keepdims, where, FALSE, mean(m, axis, keepdims, where))
Nanmean == Idle /\ \E m \in Samples, axis \in AnyAxis, keepdims \in BOOLEAN, where \in AnyMask :
  Averaged(m, axis, keepdims, where, TRUE, _nanmean(m, axis, keepdims, where))
Var == Idle /\ \E m \in Samples, axis \in AnyAxis, keepdims \in BOOLEAN, ddof \in {0, 1}, where \in AnyMask :
  Call([fn |-> "var", m |-> m, axis |-> axis, keepdims |-> keepdims, where |-> where, ddof |-> ddof],
       var(m, axis, ddof, keepdims, where))
Average == Idle /\ \E m \in Numeric, axis \in AnyAxis, keepdims \in BOOLEAN : \E weights \in {None} \union { w \in Numeric : Ndim(w) = 1 \/ w.shape = m.shape } :
  Call([fn |-> "average", m |-> m, axis |-> axis, keepdims |-> keepdims, weights |-> weights],
       average(m, axis, weights, keepdims))
Scanning(op, m, axis, skip) == Call([fn |-> "scan", op |-> op, m |-> m, axis |-> axis, skip |-> skip], perform_scan(op, m, axis, skip))
Cumsum == Idle /\ \E m \in Samples, axis \in Axes \union {None} : Scanning("SUM", m, axis, FALSE)
Cumprod == Idle /\ \E m \in Samples, axis \in Axes \union {None} : Scanning("PROD", m, axis, FALSE)
Nancumsum == Idle /\ \E m \in Samples, axis \in Axes \union {None} : Scanning("SUM", m, axis, TRUE)
Nancumprod == Idle /\ \E m \in Samples, axis \in Axes \union {None} : Scanning("PROD", m, axis, TRUE)
Diff == Idle /\ \E m \in Numeric, n \in -1..3, axis \in Axes : \E p, q \in {None} \union Numbers \union { w \in Numeric : w.shape = m.shape } :
  Call([fn |-> "diff", m |-> m, n |-> n, axis |-> axis, prepend |-> p, append |-> q], diff(m, n, axis, p, q))
\* A polynomial c1 + c2 x + c3 x^2 along one of the dimensions of an array of any shape.
Gradient == Idle /\ \E xs \in { << 0, 1, 3, 4 >>, << 2, 4, 6 >>, << 0, 2, 5 >>, << 1, 4 >>, << 3 >> }, c \in [1..3 -> {-1, 0, 2}], order \in {1, 2}, flip_ \in BOOLEAN, spaced \in BOOLEAN :
  LET n == Len(xs)
      p(x) == c[1] + c[2] * x + c[3] * x * x
      m == Build(IF flip_ THEN << 2, n >> ELSE << n, 2 >>,
                 LAMBDA i : p(xs[(IF flip_ THEN i[2] ELSE i[1]) + 1]) + 10 * (IF flip_ THEN i[1] ELSE i[2]))
      even == \A k \in 1..(n - 1) : xs[k + 1] - xs[k] = xs[2] - xs[1]
  IN /\ spaced => even /\ n > 1
     /\ Call([fn |-> "gradient", xs |-> xs, c |-> c, order |-> order, flip |-> flip_],
             gradient(m, IF flip_ THEN -1 ELSE 0,
                      IF spaced THEN Build(<< >>, LAMBDA i : xs[2] - xs[1])
                      ELSE Build(<< n >>, LAMBDA i : xs[i[1] + 1]), order))
Cross3 == Idle /\ \E a, b \in { Build(s, LAMBDA i : ((7 * Place(s, i)) % 5) - 1) : s \in { << 3 >>, << 2 >>, << 2, 3 >>, << 3, 2 >>, << 1, 3 >>, << 2, 1, 3 >> } }, x, y, z \in Axes :
  Call([fn |-> "cross", a |-> a, b |-> b, x |-> x, y |-> y, z |-> z], cross(a, b, x, y, z))

StatNext ==
  \/ Sum \/ Prod \/ Amax \/ Amin \/ AllTrue \/ AnyTrue \/ CountNonzero \/ Nansum \/ Nanprod \/ Argmax \/ Argmin \/ Nanargmax \/ Nanargmin
  \/ Nanmax \/ Nanmin \/ Mean \/ Nanmean \/ Var \/ Average \/ Cumsum \/ Cumprod \/ Nancumsum \/ Nancumprod \/ Diff \/ Gradient \/ Cross3

-----------------------------------------------------------------------------
(* Properties.                                                             *)

ValidAxis(axis, m) == axis = None \/ AxesFit(axis, Ndim(m))
\* The places of the elements that element i of a reduction is made of, in row-major order.
Members(m, axes, keepdims, mask, i) ==
  LET rest == SelectSeq([d \in DOMAIN m.shape |-> d], LAMBDA d : d \notin axes)
      at(j) == IF keepdims THEN [d \in DOMAIN j |-> IF d \in axes THEN 0 ELSE j[d]] ELSE [x \in DOMAIN rest |-> j[rest[x]]]
      every == SelectSeq([n \in 1..Size(m) |-> IndexAt(m.shape, n - 1)], LAMBDA j : at(j) = i)
  IN IF mask = None THEN every ELSE SelectSeq(every, LAMBDA j : mask.at[j])
Values(m, js) == [n \in DOMAIN js |-> m.at[js[n]]]
MaskFits(where, m) == where = None \/ Broadcastable(where.shape, m.shape)
MaskOf(where, m) == IF where = None THEN None ELSE BroadcastTo(where, m.shape)
WithoutNaN(xs) == SelectSeq(xs, LAMBDA x : x # NaN)
Several(axis, m) == Cardinality(AxesOf(axis, Ndim(m))) \in 2..(Ndim(m) - 1)

NumpyReduce(op, xs, initial) ==
  LET ys == WithoutNaN(xs)
      more == IF initial = None THEN << >> ELSE << initial >>
      Total(zs) == IF \E n \in DOMAIN zs : zs[n] = NaN THEN NaN ELSE SumOf(zs)
      Volume(zs) == IF \E n \in DOMAIN zs : zs[n] = NaN THEN NaN ELSE Product(zs)
  IN CASE op = "SUM" -> Total(more \o xs) [] op = "NANSUM" -> Total(more \o ys)
       [] op = "PROD" -> Volume(more \o xs) [] op = "NANPROD" -> Volume(more \o ys)
       [] op = "ALL" -> IF \A n \in DOMAIN xs : xs[n] # 0 THEN 1 ELSE 0
       [] op = "ANY" -> IF \E n \in DOMAIN xs : xs[n] # 0 THEN 1 ELSE 0
       [] op = "COUNT_NONZERO" -> Len(SelectSeq(xs, LAMBDA x : x # 0))
       [] op = "MAX" -> CHOOSE x \in ToSet(more \o xs) : \A y \in ToSet(more \o xs) : y <= x
       [] op = "MIN" -> CHOOSE x \in ToSet(more \o xs) : \A y \in ToSet(more \o xs) : x <= y

\* A reduction over any axes, with a mask, with an initial value and with the reduced dimensions kept
\* or not, gives NumPy's result for the elements that meet in each place, whether one launch reduces
\* them all or one launch per axis does, through temporaries.  Not so for the reductions that cannot
\* be taken one axis at a time, which raise; for the maximum of nothing; and for the count of nothing,
\* which is a number whatever the axis.
ReductionsAreNumpy ==
  call.fn = "reduce" =>
    LET m == call.m
        axis == ReducedAxis(call.axis, m)
        axes == AxesOf(axis, Ndim(m))
    IN IF ~ValidAxis(axis, m) THEN ~OK(result) \/ Size(m) = 0
       ELSE IF ~MaskFits(call.where, m) THEN ~OK(result)
       ELSE IF Several(axis, m) /\ call.op \in _NON_DECOMPOSABLE_OPS THEN ~OK(result) \/ Size(m) = 0
       ELSE IF ~OK(result) THEN axis # call.axis
       ELSE IF call.op = "COUNT_NONZERO" /\ Size(m) = 0 THEN result.shape = << >>
       ELSE /\ result.shape = ReducedShape(m.shape, axes, call.keepdims)
            /\ \A i \in DOMAIN result.at :
                 LET xs == Values(m, Members(m, axes, call.keepdims, MaskOf(call.where, m), i))
                 IN \/ xs = << >> /\ call.op \in {"MAX", "MIN"} /\ call.initial = None
                    \/ result.at[i] = NumpyReduce(call.op, xs, call.initial)

\* The functions that skip NaNs reduce the other elements; where there is none, the compatible mode
\* gives NaN, and raises for a place.  A place that is found is the first of the elements that are
\* extreme (an element that is the identity of the reduction is not found).
NansAreSkipped ==
  /\ call.fn = "nan_extremum" /\ OK(result) =>
       \A i \in DOMAIN result.at :
         LET m == call.m
             xs == Values(m, Members(m, AxesOf(call.axis, Ndim(m)), call.keepdims, MaskOf(call.where, m), i))
             ys == WithoutNaN(xs)
         IN IF ys # << >> THEN result.at[i] = NumpyReduce(IF call.op = "NANMAX" THEN "MAX" ELSE "MIN", ys, None)
            ELSE call.compat /\ IsFloat(m) => result.at[i] = NaN
  /\ call.fn = "arg" /\ OK(result) =>
       \A i \in DOMAIN result.at :
         LET m == call.m
             js == Members(m, AxesOf(call.axis, Ndim(m)), call.keepdims, None, i)
             xs == Values(m, js)
             most == call.op \in Maximal
             best == NumpyReduce(IF most THEN "MAX" ELSE "MIN", WithoutNaN(xs), None)
         IN IF WithoutNaN(xs) = << >> THEN call.op \in {"NANARGMAX", "NANARGMIN"} => (~call.compat \/ ~IsFloat(m))
            ELSE \/ best = IF most THEN Least ELSE Greatest
                 \/ /\ xs[result.at[i] + 1] = best
                    /\ \A n \in 1..result.at[i] : xs[n] # best

\* argmax and argmin name an element, as their documentation says.
ArgNamesAnElement ==
  call.fn = "arg" /\ OK(result) /\ Size(call.m) > 0 =>
    \A i \in DOMAIN result.at : (WithoutNaN(Values(call.m, Members(call.m, AxesOf(call.axis, Ndim(call.m)), call.keepdims, None, i))) # << >>) => result.at[i] # NoPlace

\* The same number: fractions of the same value, or neither is one.
Same(x, y) == IF x[2] = 0 \/ y[2] = 0 THEN x[2] = y[2]
              ELSE IF x[1] = NaN \/ y[1] = NaN THEN x[1] = y[1]
              ELSE x[1] * y[2] = y[1] * x[2]

\* Means divide by the number of elements that the mask leaves along the axes, variances by ddof less;
\* the deviations are those from the mean of the same elements, in one pass over all axes and in two
\* passes along some of them; average weighs the elements along the axis that the weights belong to.
\* (A variance over several but not all axes squares the sums of squares again; ddof above the number
\* of elements gives a negative divisor.)
MeansAreNumpy ==
  call.fn \in {"mean", "var", "average"} =>
    LET m == call.m
        axes == AxesOf(call.axis, Ndim(m))
        where == IF call.fn = "average" THEN None ELSE call.where
    IN IF ~ValidAxis(call.axis, m) THEN ~OK(result)
       ELSE IF ~MaskFits(where, m) THEN ~OK(result)
       ELSE OK(result) =>
         /\ result.shape = ReducedShape(m.shape, axes, call.keepdims)
         /\ \A i \in DOMAIN result.at :
              LET js == Members(m, axes, call.keepdims, MaskOf(where, m), i)
                  xs == IF call.fn = "mean" /\ call.skip THEN WithoutNaN(Values(m, js)) ELSE Values(m, js)
                  n == Len(xs)
                  total == NumpyReduce("SUM", xs, None)
                  weight(j) == IF Ndim(call.weights) = Ndim(m) THEN call.weights.at[j]
                               ELSE call.weights.at[<< j[Dim(call.axis[1], Ndim(m))] >>]
              IN CASE call.fn = "mean" -> Same(result.at[i], << total, n >>)
                   [] call.fn = "var" ->
                        \/ Several(call.axis, m) \/ n < call.ddof
                        \/ Same(result.at[i],
                                << NumpyReduce("SUM", [k \in DOMAIN xs |-> LET x == Plus(Times(n, xs[k]), Times(-1, total)) IN Times(x, x)], None),
                                   n * n * (n - call.ddof) >>)
                   [] call.fn = "average" ->
                        IF call.weights = None THEN Same(result.at[i], << total, n >>)
                        ELSE Same(result.at[i], << SumOf([k \in DOMAIN js |-> m.at[js[k]] * weight(js[k])]),
                                                   SumOf([k \in DOMAIN js |-> weight(js[k])]) >>)

\* Each element of a running sum or product is that of the elements before it and itself; NaNs count
\* as nothing when they are skipped.
ScansAreNumpy ==
  call.fn = "scan" /\ OK(result) =>
    LET src == IF call.axis = None THEN Build(<< Size(call.m) >>, LAMBDA i : call.m.at[IndexAt(call.m.shape, i[1])]) ELSE call.m
        d == IF call.axis = None THEN 1 ELSE Dim(call.axis, Ndim(src))
    IN /\ result.shape = src.shape
       /\ \A i \in DOMAIN src.at :
            LET xs == [k \in 1..(i[d] + 1) |-> src.at[[i EXCEPT ![d] = k - 1]]]
            IN result.at[i] = NumpyReduce(call.op, IF call.skip THEN WithoutNaN(xs) ELSE xs, None)

\* The n-th differences are the sums of neighbours that binomial coefficients weigh, the parts that are
\* prepended and appended included.
DifferencesAreNumpy ==
  call.fn = "diff" /\ OK(result) /\ call.n > 0 =>
    LET m == call.m
        d == Dim(call.axis, Ndim(m))
        Part(x) == IF x = None THEN << >> ELSE << IF Ndim(x) = 0 THEN Build([m.shape EXCEPT ![d] = 1], LAMBDA i : x.at[<< >>]) ELSE x >>
        whole == NumpyJoin(Part(call.prepend) \o << m >> \o Part(call.append), d)
        signs == << << -1, 1 >>, << 1, -2, 1 >>, << -1, 3, -3, 1 >> >>[call.n]
    IN /\ result.shape[d] = IF whole.shape[d] > call.n THEN whole.shape[d] - call.n ELSE 0
       /\ \A i \in DOMAIN result.at :
            result.at[i] = SumOf([k \in DOMAIN signs |-> signs[k] * whole.at[[i EXCEPT ![d] = @ + k - 1]]])

\* gradient is exact for the functions that its order is for: those of second degree between
\* neighbours on both sides, wherever the places are, and at the edges when edge_order is 2; those of
\* first degree at the edges otherwise.
GradientIsExact ==
  call.fn = "gradient" =>
    LET n == Len(call.xs)
    IN IF n < call.order + 1 THEN ~OK(result)
       ELSE \A i \in DOMAIN result.at :
              LET k == (IF call.flip THEN i[2] ELSE i[1]) + 1
                  y == result.at[i]
              IN \/ k \in {1, n} /\ call.order = 1 /\ call.c[3] # 0
                 \/ y[2] # 0 /\ y[1] = y[2] * (call.c[2] + 2 * call.c[3] * call.xs[k])

\* A cross product is orthogonal to both factors and changes its sign with their order, along any axes;
\* vectors without a third component have zero there.
CrossIsNumpy ==
  call.fn = "cross" /\ OK(result) =>
    LET p == Vectors(moveaxis(call.a, << call.x >>, << -1 >>))
        q == Vectors(moveaxis(call.b, << call.y >>, << -1 >>))
        flat == call.a.shape[Dim(call.x, Ndim(call.a))] = 2 /\ call.b.shape[Dim(call.y, Ndim(call.b))] = 2
        shape == BroadcastShape({ p.shape, q.shape })
        Full(v) == IF Len(v) = 2 THEN Append(v, 0) ELSE v
        z == Dim(call.z, Len(shape) + 1)
    IN \A i \in Box(shape) :
         LET u == Full(BroadcastTo(p, shape).at[i]) v == Full(BroadcastTo(q, shape).at[i])
             w == IF flat THEN << 0, 0, result.at[i] >> ELSE [k \in 1..3 |-> result.at[InsertAt(i, z, k - 1)]]
             Dot(r, t) == r[1] * t[1] + r[2] * t[2] + r[3] * t[3]
         IN /\ Dot(w, u) = 0 /\ Dot(w, v) = 0
            \* Lagrange's identity, and the third component's sign
            /\ Dot(w, w) = Dot(u, u) * Dot(v, v) - Dot(u, v) * Dot(u, v)
            /\ w[3] = u[1] * v[2] - u[2] * v[1]
            /\ w[1] = u[2] * v[3] - u[3] * v[2]

\* Reductions of an array with masks, initial values, NaNs and any axes, and the means and variances built
\* from them, are those of NumPy, but for the cases that the parts name.
StatisticsAreNumpy ==
  /\ ReductionsAreNumpy
  /\ NansAreSkipped
  /\ MeansAreNumpy

\* What is computed along a line from neighbouring elements or from all elements before is NumPy's: running
\* sums, differences, gradients of any spacing, and cross products.
LinesAreNumpy ==
  /\ ScansAreNumpy
  /\ DifferencesAreNumpy
  /\ GradientIsExact
  /\ CrossIsNumpy
=============================================================================
