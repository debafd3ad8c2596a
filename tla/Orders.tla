------------------------------- MODULE Orders -------------------------------
(***************************************************************************)
(* One call of a function that sorts, searches, counts or takes quantiles. *)
(*                                                                         *)
(* Quantiles are asked for in quarters, k for k/4, and positions and       *)
(* weights are integers of which One stands for 1, so every position of    *)
(* every method is exact; a quantile is the number that is One times it.   *)
(***************************************************************************)
EXTENDS Statistics

CONSTANTS
  Lines,        \* one-dimensional arrays of numbers
  Infinite      \* the element above Greatest, the infinity of a floating-point type

One == 48

NoNaN(m) == ~IsFloat(m)
OfSeq(xs) == Build(<< Len(xs) >>, LAMBDA i : xs[i[1] + 1])
\* The line along the last dimension that index i is on.
LastLine(m, i) == [k \in 1..m.shape[Ndim(m)] |-> m.at[[i EXCEPT ![Ndim(m)] = k - 1]]]

-----------------------------------------------------------------------------
(* Sorting.  Equal elements keep their order when the sort is stable;      *)
(* otherwise ties says which way they fall.                                *)

RankIn(xs, j, ties) ==
  Cardinality({ k \in DOMAIN xs : xs[k] < xs[j] \/ (xs[k] = xs[j] /\ IF ties = "last" THEN k > j ELSE k < j) })
Ranked(xs, ties) == [r \in DOMAIN xs |-> CHOOSE j \in DOMAIN xs : RankIn(xs, j, ties) = r - 1]
sort_task(m, arg, ties) ==
  Build(m.shape, LAMBDA i :
    LET xs == LastLine(m, i)
        j == Ranked(xs, ties)[i[Ndim(m)] + 1]
    IN IF arg THEN j - 1 ELSE xs[j])
sort_swapped(m, arg, axis, ties) ==
  swapaxes(sort_task(swapaxes(m, axis, Ndim(m) - 1), arg, ties), Ndim(m) - 1, axis)
sort_deferred(m, arg, axis, ties) ==
  IF axis = None /\ Ndim(m) > 1 THEN sort_task(reshape(m, << Size(m) >>), arg, ties)
  ELSE LET computed == IF axis = None THEN 0 ELSE axis
       IN IF ~AxisFits(computed, Ndim(m)) THEN Failure
          ELSE IF Dim(computed, Ndim(m)) = Ndim(m) THEN sort_task(m, arg, ties)
          ELSE sort_swapped(m, arg, computed, ties)
\* The operations of thunks: only a stable sort settles how equal elements fall, and a partition is a sort.
sort(m, arg, axis, stable, ties) == sort_deferred(m, arg, axis, IF stable THEN "first" ELSE ties)
partition(m, arg, axis, ties) == sort_deferred(m, arg, axis, ties)

-----------------------------------------------------------------------------
(* Quantiles.                                                              *)

\* int() of a position, and the position to the nearest even integer.
Whole(p) == IF p >= 0 THEN p \div One ELSE -((-p) \div One)
Ceiling(p) == -((-p) \div One)
Rounded(p) ==
  LET n == p \div One
      g == p % One
  IN IF 2 * g < One \/ (2 * g = One /\ n % 2 = 0) THEN n ELSE n + 1

\* Each method gives the weight of the right neighbour, None for the left one alone, and the place of
\* the left one.
Neighbours(p, gamma) == << gamma, Whole(p) - 1 >>
Unbiased(p) == Neighbours(p, p - One * Whole(p))
Extreme(p, exact) == Neighbours(p, IF p > One * Whole(p) THEN One ELSE exact)
Closest(p) ==
  << None, IF p # One * Whole(p) \/ Whole(p) % 2 # 0 THEN Whole(p) ELSE Whole(p) - 1 >>
Quarter == One \div 4
_ORDER_FUNCS(method, k, n) ==
  CASE method = "inverted_cdf" -> Extreme(Quarter * k * n, 0)
    [] method = "averaged_inverted_cdf" -> Extreme(Quarter * k * n, One \div 2)
    [] method = "closest_observation" -> Closest(Quarter * k * n - One \div 2)
    [] method = "interpolated_inverted_cdf" -> Unbiased(Quarter * k * n)
    [] method = "hazen" -> Unbiased(Quarter * k * n + One \div 2)
    [] method = "weibull" -> Unbiased(Quarter * k * (n + 1))
    [] method = "linear" -> Unbiased(Quarter * k * (n - 1) + One)
    [] method = "median_unbiased" -> Unbiased((Quarter * k * (3 * n + 1) + One) \div 3)
    [] method = "normal_unbiased" -> Unbiased((2 * Quarter * k * (4 * n + 1) + 3 * One) \div 8)
    [] method = "lower" -> << None, Whole(Quarter * k * (n - 1)) >>
    [] method = "higher" -> << None, Ceiling(Quarter * k * (n - 1)) >>
    [] method = "midpoint" ->
         LET p == Quarter * k * (n - 1) IN << IF p # One * Whole(p) THEN One \div 2 ELSE 0, Whole(p) >>
    [] method = "nearest" -> << None, Rounded(Quarter * k * (n - 1)) >>

\* The places of the two neighbours, put back into the range.
Clamped(left, n) ==
  IF left >= n - 1 THEN << n - 1, n - 1 >> ELSE IF left < 0 THEN << 0, 0 >> ELSE << left, left + 1 >>
Between(gamma, l, r) == IF gamma = None THEN One * l ELSE (One - gamma) * l + gamma * r

\* The dimensions that axes names become one, the first of them.
_reshuffle_reshape(m, axes) ==
  LET sorted == SelectSeq([d \in 1..Ndim(m) |-> d - 1], LAMBDA a : a + 1 \in ToSet(Dims(axes, Ndim(m))))
      low == sorted[1]
      n == Len(sorted)
      shuffled == moveaxis(m, sorted, [j \in 1..n |-> low + j - 1])
      collapsed == Product(SubSeq(shuffled.shape, low + 1, low + n))
  IN reshape(shuffled, SubSeq(shuffled.shape, 1, low) \o << collapsed >>
                       \o SubSeq(shuffled.shape, low + n + 1, Ndim(m)))
\* The array that is sorted, and the axis of it.
OneAxis(m, axis) ==
  IF axis = None THEN << m, None >>
  ELSE IF Len(axis) = 1 THEN << m, Dim(axis[1], Ndim(m)) - 1 >>
  ELSE << _reshuffle_reshape(m, axis), (CHOOSE d \in AxesOf(axis, Ndim(m)) : \A e \in AxesOf(axis, Ndim(m)) : d <= e) - 1 >>
Remaining(arr, dim, axes, original, keepdims) ==
  IF dim = None THEN IF keepdims THEN [d \in DOMAIN original |-> 1] ELSE << >>
  ELSE IF keepdims THEN [d \in DOMAIN original |-> IF d \in axes THEN 1 ELSE original[d]]
  ELSE RemoveAt(arr.shape, dim + 1)

\* Place p of every line of arr, in the shape of the result.
TakeAt(arr, dim, p, shape) ==
  IF dim = None THEN Build(shape, LAMBDA i : arr.at[<< p >>]) ELSE reshape(Project(arr, dim + 1, p), shape)
Mixed(gamma, l, r) == Build(l.shape, LAMBDA i : Between(gamma, l.at[i], r.at[i]))
OneQuantile(arr, dim, gamma, p, shape) ==
  Mixed(gamma, TakeAt(arr, dim, p[1], shape), TakeAt(arr, dim, p[2], shape))
\* One result per element of q, put together: the dimensions of q come first.
PerQuantile(q, made, shape) ==
  Build(q.shape \o shape, LAMBDA i : made[SubSeq(i, 1, Ndim(q))].at[SubSeq(i, Ndim(q) + 1, Len(i))])
_quantile_impl(arr, q, dim, shape, method) ==
  LET n == IF dim = None THEN Size(arr) ELSE arr.shape[dim + 1]
      At(w) == OneQuantile(arr, dim, w[1], Clamped(w[2], n), shape)
  IN PerQuantile(q, [j \in DOMAIN q.at |-> At(_ORDER_FUNCS(method, q.at[j], n))], shape)
quantile(m, q, axis, method, keepdims) ==
  LET Of(s) == _quantile_impl(sort_deferred(s[1], FALSE, s[2], "first"), q, s[2],
                              Remaining(s[1], s[2], AxesOf(axis, Ndim(m)), m.shape, keepdims), method)
  IN Of(OneAxis(m, axis))
percentile(m, percents, axis, method, keepdims) ==
  quantile(m, Elementwise(percents, LAMBDA n : n \div 25), axis, method, keepdims)
median(m, axis, keepdims) == quantile(m, Build(<< >>, LAMBDA i : 2), axis, "midpoint", keepdims)

\* The number of elements that are not NaN decides the places, slice by slice; NaNs are the greatest
\* finite number while the array is sorted.
Filled(m) == Elementwise(m, LAMBDA x : IF x = NaN THEN Greatest ELSE x)
SliceQuantile(xs, n, w) ==
  IF n = 0 THEN NaN
  ELSE LET p == Clamped(w[2], n) IN Between(w[1], xs[p[1] + 1], xs[p[2] + 1])
LineAt(arr, dim, i) ==
  IF dim = None THEN [k \in 1..Size(arr) |-> arr.at[<< k - 1 >>]]
  ELSE [k \in 1..arr.shape[dim + 1] |-> arr.at[InsertAt(i, dim + 1, k - 1)]]
\* The elements of a slice go where the slice's index leads in the shape of the result, which has the
\* dimension of the slices too when it is kept.
nanquantile_impl(arr, q, counts, dim, shape, method) ==
  IF \E d \in DOMAIN counts.shape : counts.shape[d] > shape[d] THEN Failure
  ELSE LET W(k, n) == IF n = 0 THEN << None, 0 >> ELSE _ORDER_FUNCS(method, k, n)
           At(k, i) == SliceQuantile(LineAt(arr, dim, i), counts.at[i], W(k, counts.at[i]))
       IN PerQuantile(q, [j \in DOMAIN q.at |-> Build(shape, LAMBDA i : At(q.at[j], SubSeq(i, 1, Ndim(counts))))],
                      shape)
nanquantile(m, q, axis, method, keepdims) ==
  LET Of(s) ==
        nanquantile_impl(sort_deferred(Filled(s[1]), FALSE, s[2], "first"), q,
                         _count_nonzero(Elementwise(s[1], LAMBDA x : IF x = NaN THEN 0 ELSE 1),
                                        IF s[2] = None THEN None ELSE << s[2] >>),
                         s[2], Remaining(s[1], s[2], AxesOf(axis, Ndim(m)), m.shape, keepdims), method)
  IN Of(OneAxis(m, axis))
nanpercentile(m, percents, axis, method, keepdims) ==
  nanquantile(m, Elementwise(percents, LAMBDA n : n \div 25), axis, method, keepdims)
nanmedian(m, axis, keepdims) == nanquantile(m, Build(<< >>, LAMBDA i : 2), axis, "midpoint", keepdims)

-----------------------------------------------------------------------------
(* Searching and counting.                                                 *)

\* The pieces of a that are searched one by one, and the least, or greatest, place that one names.
Lower(a, lo, hi, v) == Cardinality({ k \in lo..(hi - 1) : a[k + 1] < v })
Upper(a, lo, hi, v) == Cardinality({ k \in lo..(hi - 1) : a[k + 1] <= v })
\* FAULTY: places are counted from the start of the piece.
Faultysearchsorted_task(a, cuts, v, left) ==
  FoldLeft(LAMBDA x, c : IF left THEN LET n == Lower(a, c[1], c[2], v) IN IF n < c[2] - c[1] /\ n < x THEN n ELSE x
                         ELSE LET n == Upper(a, c[1], c[2], v) IN IF n > 0 /\ n > x THEN n ELSE x,
           IF left THEN Len(a) ELSE 0, cuts)
searchsorted_task(a, cuts, v, left) ==
  FoldLeft(LAMBDA x, c :
             IF left THEN LET n == Lower(a, c[1], c[2], v)
                          IN IF n < c[2] - c[1] /\ c[1] + n < x THEN c[1] + n ELSE x
             ELSE LET n == Upper(a, c[1], c[2], v) IN IF n > 0 /\ c[1] + n > x THEN c[1] + n ELSE x,
           IF left THEN Len(a) ELSE 0, cuts)
searchsorted(a, v, side, sorter, cuts) ==
  IF sorter # None /\ Len(a) > 1 /\ Len(sorter) # Len(a) THEN Failure
  ELSE LET sorted == IF sorter # None /\ Len(a) > 1 THEN [k \in DOMAIN sorter |-> a[sorter[k] + 1]] ELSE a
       IN Elementwise(v, LAMBDA x : searchsorted_task(sorted, cuts, x, side = "left"))

Rises(bins) == \A k \in 2..Len(bins) : bins[k] >= bins[k - 1]
Falls(bins) == \A k \in 2..Len(bins) : bins[k] <= bins[k - 1]
digitize(x, bins, right) ==
  LET side == IF right THEN "left" ELSE "right"
      whole == << << 0, Len(bins) >> >>
  IN IF ~Rises(bins) /\ ~Falls(bins) THEN Failure
     ELSE IF Falls(bins)
     THEN Elementwise(searchsorted(Reverse(bins), x, side, None, whole), LAMBDA n : Len(bins) - n)
     ELSE searchsorted(bins, x, side, None, whole)

\* UniqueImplBody: std::set holds an element back that is neither less nor greater than one it meets,
\* and NaN is neither with any.
Inserted(xs, x) ==
  IF x = NaN \/ \E k \in DOMAIN xs : xs[k] = x THEN xs
  ELSE SelectSeq(xs, LAMBDA y : y < x) \o << x >> \o SelectSeq(xs, LAMBDA y : y > x)
Deduplicated(xs) ==
  IF xs = << >> THEN << >> ELSE IF xs[1] = NaN THEN << NaN >> ELSE FoldLeft(Inserted, << >>, xs)
unique(m) == OfSeq(Deduplicated(Elements(m)))

\* in1d: NaNs are no members of anything.
isin(x, xs) == \E k \in DOMAIN xs : xs[k] = x
Without(xs, float) == IF float THEN WithoutNaN(xs) ELSE xs
Table(ar1, members, invert) ==
  LET least == CHOOSE x \in ToSet(members) : \A y \in ToSet(members) : x <= y
      greatest == CHOOSE x \in ToSet(members) : \A y \in ToSet(members) : y <= x
      mask == [v \in 0..(greatest - least) |-> isin(v + least, members)]
      found(v) == IF v >= least /\ v <= greatest THEN mask[v - least] ELSE FALSE
  IN [k \in DOMAIN ar1 |-> IF invert THEN ~found(ar1[k]) ELSE found(ar1[k])]
BinarySearch(ar1, members, invert) ==
  [k \in DOMAIN ar1 |-> IF invert THEN ~isin(ar1[k], members) ELSE isin(ar1[k], members)]
In1d(ar1, members, invert, kind, float) ==
  LET found == IF kind = "table" THEN Table(ar1, members, invert) ELSE BinarySearch(ar1, members, invert)
  IN OfSeq(IF float THEN [k \in DOMAIN ar1 |-> ar1[k] # NaN /\ found[k]] ELSE found)
in1d(a, b, invert, kind, float) ==
  LET ar1 == Elements(a)
      members == Without(Elements(b), float)
  IN IF ar1 = << >> \/ Elements(b) = << >> THEN OfSeq([k \in DOMAIN ar1 |-> invert])
     ELSE IF kind # "table" THEN In1d(ar1, members, invert, "sort", float)
     ELSE IF float THEN Failure
     ELSE In1d(ar1, members, invert, "table", float)

Most(xs) == CHOOSE x \in ToSet(xs) : \A y \in ToSet(xs) : y <= x
Fewest(xs) == CHOOSE x \in ToSet(xs) : \A y \in ToSet(xs) : x <= y
CountOrWeight(weights, k) == IF weights = None THEN 1 ELSE weights[k]
Extent(x, minlength) == IF minlength > Most(x) + 1 THEN minlength ELSE Most(x) + 1
bincount(x, weights, minlength) ==
  IF weights # None /\ Len(weights) # Len(x) THEN Failure
  ELSE IF minlength < 0 \/ x = << >> THEN Failure
  ELSE IF Fewest(x) < 0 THEN Failure
  ELSE OfSeq(FoldLeft(LAMBDA out, k :
                        [n \in DOMAIN out |-> IF n = x[k] + 1 THEN out[n] + CountOrWeight(weights, k) ELSE out[n]],
                      [n \in 1..Extent(x, minlength) |-> 0], [k \in DOMAIN x |-> k]))

\* histogram: the elements and weights are sorted together; a bin is from the place where the elements
\* reach its edge to the place where they reach the next, and all that equal the last edge are before it.
\* The edges of equal bins are numbers of which num stand for 1.
Edges(x, bins, range) ==
  IF "edges" \in DOMAIN bins THEN bins.edges
  ELSE LET lo == IF range # None THEN range[1] ELSE IF x = << >> THEN 0 ELSE Fewest(x)
           hi == IF range # None THEN range[2] ELSE IF x = << >> THEN 1 ELSE Most(x)
       IN [k \in 1..(bins.num + 1) |-> lo * bins.num + (k - 1) * (hi - lo)]
Reached(x, edges, k) ==
  Cardinality({ j \in DOMAIN x : x[j] < edges[k] \/ (edges[k] = edges[Len(edges)] /\ x[j] = edges[k]) })
histogram_weights(x, edges, weights) ==
  LET order == Ranked(x, "first")
      At(k) == Reached(x, edges, k)
  IN [k \in 1..(Len(edges) - 1) |-> SumOf([j \in (1..(At(k + 1) - At(k))) |-> CountOrWeight(weights, order[At(k) + j])])]
histogram(x, bins, range, weights) ==
  LET unit == IF "edges" \in DOMAIN bins THEN 1 ELSE bins.num
      scaled == [j \in DOMAIN x |-> unit * x[j]]
  IN IF "edges" \notin DOMAIN bins /\ range # None /\ range[1] >= range[2] THEN Failure
     ELSE IF "edges" \in DOMAIN bins /\ ~Rises(bins.edges) THEN Failure
     ELSE IF weights # None /\ Len(weights) # Len(x) THEN Failure
     ELSE IF x = << >> THEN OfSeq([k \in 1..(Len(Edges(x, bins, range)) - 1) |-> 0])
     ELSE OfSeq(histogram_weights(scaled, Edges(x, bins, range), weights))

-----------------------------------------------------------------------------
(* Elements that a condition chooses.                                      *)

\* The indices of the elements that are not zero, in row-major order.
Hits(m) == SelectSeq([n \in 1..Size(m) |-> IndexAt(m.shape, n - 1)], LAMBDA i : m.at[i] # 0)
argwhere(m) == Build(<< Len(Hits(m)), Ndim(m) >>, LAMBDA i : Hits(m)[i[1] + 1][i[2] + 1])
\* One line per dimension.
nonzero(m) == [d \in 1..Ndim(m) |-> LET h == Hits(m) IN OfSeq([n \in DOMAIN h |-> h[n][d]])]
flatnonzero(m) == nonzero(ravel(m))[1]
Brought(condition, m) == IF condition.shape # m.shape THEN reshape(condition, m.shape) ELSE condition
extract(condition, m) ==
  LET Of(c) == IF OK(c) THEN OfSeq([n \in DOMAIN Hits(c) |-> m.at[Hits(c)[n]]]) ELSE Failure
  IN IF Size(condition) # Size(m) THEN Failure ELSE Of(Brought(condition, m))
Selected(c, x, y) == Build(c.shape, LAMBDA i : IF c.at[i] # 0 THEN x.at[i] ELSE y.at[i])
perform_where(c, x, y) ==
  LET shapes == { c.shape, x.shape, y.shape }
      shape == BroadcastShape(shapes)
  IN IF ~Broadcasts(shapes) THEN Failure
     ELSE Selected(BroadcastTo(c, shape), BroadcastTo(x, shape), BroadcastTo(y, shape))

\* clip: a bound that is missing is that of the type.
Clipped(x, lo, hi) == IF x < lo THEN lo ELSE IF x > hi THEN hi ELSE x
clip(m, lo, hi) ==
  Elementwise(m, LAMBDA x : IF x = NaN THEN NaN
                            ELSE Clipped(x, IF lo = None THEN Least ELSE lo, IF hi = None THEN Greatest ELSE hi))
nan_to_num(m, nan, posinf) ==
  Elementwise(m, LAMBDA x : IF x = NaN THEN nan ELSE IF x = Infinite THEN IF posinf = None THEN Greatest ELSE posinf ELSE x)

-----------------------------------------------------------------------------
(* One call.                                                               *)

Methods == { "inverted_cdf", "averaged_inverted_cdf", "closest_observation", "interpolated_inverted_cdf", "hazen",
             "weibull", "linear", "median_unbiased", "normal_unbiased", "lower", "higher", "midpoint", "nearest" }
Ascending(xs) == [r \in DOMAIN xs |-> xs[Ranked(xs, "first")[r]]]
Applies(axis, m) == Ndim(m) > 0 /\ Size(m) > 0 /\ IF axis = None THEN TRUE ELSE AxesFit(axis, Ndim(m))
Points == { Build(<< >>, LAMBDA i : 1), OfSeq(<< 4, 0, 3 >>) }
Wanted == { Build(<< >>, LAMBDA i : 2), Build(<< 2, 2 >>, LAMBDA i : 3 * i[1] + i[2]) }
Whole1(xs) == << << 0, Len(xs) >> >>
\* Every way to cut a line in at most two pieces.
Cuts(xs) == { Whole1(xs) } \union { << << 0, n >>, << n, Len(xs) >> >> : n \in 1..(Len(xs) - 1) }

Sorting(m, axis, arg, stable, made) ==
  /\ Ndim(m) > 0
  /\ Call([fn |-> "sort", m |-> m, axis |-> axis, arg |-> arg, stable |-> stable], made)
Sort == Idle /\ \E m \in Numeric, axis \in Axes \union {None}, stable \in BOOLEAN, ties \in {"first", "last"} :
  Sorting(m, axis, FALSE, stable, sort(m, FALSE, axis, stable, ties))
Argsort == Idle /\ \E m \in Numeric, axis \in Axes \union {None}, stable \in BOOLEAN, ties \in {"first", "last"} :
  Sorting(m, axis, TRUE, stable, sort(m, TRUE, axis, stable, ties))
Partition == Idle /\ \E m \in Numeric, axis \in Axes \union {None}, ties \in {"first", "last"} :
  Sorting(m, axis, FALSE, FALSE, partition(m, FALSE, axis, ties))
Argpartition == Idle /\ \E m \in Numeric, axis \in Axes \union {None}, ties \in {"first", "last"} :
  Sorting(m, axis, TRUE, FALSE, partition(m, TRUE, axis, ties))
Taking(m, q, axis, method, keepdims, made) ==
  /\ Applies(axis, m)
  /\ Call([fn |-> "quantile", m |-> m, q |-> q, axis |-> axis, method |-> method, keepdims |-> keepdims], made)
Percents(q) == Elementwise(q, LAMBDA k : 25 * k)
Percentile == Idle /\ \E m \in Numeric, q \in Points, axis \in AnyAxis, keepdims \in BOOLEAN :
  Taking(m, q, axis, "linear", keepdims, percentile(m, Percents(q), axis, "linear", keepdims))
Quantile == Idle /\ \E xs \in Lines, k \in 0..4, method \in Methods :
  Taking(OfSeq(xs), Build(<< >>, LAMBDA i : k), << 0 >>, method, FALSE,
         quantile(OfSeq(xs), Build(<< >>, LAMBDA i : k), << 0 >>, method, FALSE))
Half == Build(<< >>, LAMBDA i : 2)
Median == Idle /\ \E m \in Numeric, axis \in AnyAxis, keepdims \in BOOLEAN :
  Taking(m, Half, axis, "midpoint", keepdims, median(m, axis, keepdims))
NanTaking(m, q, axis, method, keepdims, made) ==
  /\ Applies(axis, m)
  /\ Call([fn |-> "nanquantile", m |-> m, q |-> q, axis |-> axis, method |-> method, keepdims |-> keepdims], made)
Nanquantile == Idle /\ \E m \in Samples, axis \in AnyAxis, method \in {"linear", "lower", "hazen"}, keepdims \in BOOLEAN :
  NanTaking(m, OfSeq(<< 4, 0, 3 >>), axis, method, keepdims, nanquantile(m, OfSeq(<< 4, 0, 3 >>), axis, method, keepdims))
Nanpercentile == Idle /\ \E m \in Samples, q \in Points, axis \in AnyAxis, keepdims \in BOOLEAN :
  NanTaking(m, q, axis, "linear", keepdims, nanpercentile(m, Percents(q), axis, "linear", keepdims))
Nanmedian == Idle /\ \E m \in Samples, axis \in AnyAxis, keepdims \in BOOLEAN :
  NanTaking(m, Half, axis, "midpoint", keepdims, nanmedian(m, axis, keepdims))
Searchsorted == Idle /\ \E xs \in Lines, v \in Wanted, side \in {"left", "right"}, sorted \in BOOLEAN :
  \E cuts \in Cuts(xs) :
    LET sorter == [r \in DOMAIN xs |-> Ranked(xs, "last")[r] - 1]
    IN Call([fn |-> "searchsorted", a |-> xs, v |-> v, side |-> side],
            IF sorted THEN searchsorted(Ascending(xs), v, side, None, cuts) ELSE searchsorted(xs, v, side, sorter, cuts))
Digitize == Idle /\ \E xs \in Lines, v \in Wanted, right \in BOOLEAN, order \in {"up", "down", "given"} :
  LET bins == IF order = "up" THEN Ascending(xs) ELSE IF order = "down" THEN Reverse(Ascending(xs)) ELSE xs
  IN Call([fn |-> "digitize", x |-> v, bins |-> bins, right |-> right], digitize(v, bins, right))
Unique == Idle /\ \E m \in Samples : Call([fn |-> "unique", m |-> m], unique(m))
In1dCall == Idle /\ \E a, b \in Samples, invert \in BOOLEAN, kind \in {"sort", "table"} :
  LET float == IsFloat(a) \/ IsFloat(b)
  IN Call([fn |-> "in1d", a |-> a, b |-> b, invert |-> invert, kind |-> kind], in1d(a, b, invert, kind, float))
Bincount == Idle /\ \E x \in Lines \union { << >>, << 1, -1 >> }, weights \in {None} \union Lines, minlength \in { -1, 0, 3, 6 } :
  Call([fn |-> "bincount", x |-> x, weights |-> weights, minlength |-> minlength], bincount(x, weights, minlength))
HistogramCall == Idle /\ \E x \in Lines \union { << >> }, weights \in {None} \union Lines, range \in { None, << 1, 3 >>, << 2, 2 >> } :
  \E bins \in { [num |-> n] : n \in 1..3 } \union { [edges |-> e] : e \in { << 0, 2, 3 >>, << 1, 1, 4 >>, << 2, 1 >>, << 0, 2, 2 >> } } :
    Call([fn |-> "histogram", x |-> x, bins |-> bins, range |-> range, weights |-> weights],
         histogram(x, bins, range, weights))
Argwhere == Idle /\ \E m \in Numeric : Call([fn |-> "argwhere", m |-> m], argwhere(m))
Nonzero == Idle /\ \E m \in Numeric : Call([fn |-> "nonzero", m |-> m], nonzero(m))
Flatnonzero == Idle /\ \E m \in Numeric : Call([fn |-> "flatnonzero", m |-> m], flatnonzero(m))
Extract == Idle /\ \E m, c \in Numeric : Call([fn |-> "extract", m |-> m, c |-> c], extract(c, m))
Where == Idle /\ \E c, x, y \in Numeric : Call([fn |-> "where", c |-> c, x |-> x, y |-> y], perform_where(c, x, y))
Clip == Idle /\ \E m \in Samples, lo \in {None, 1, 3}, hi \in {None, 2, 5} :
  Call([fn |-> "clip", m |-> m, lo |-> lo, hi |-> hi], clip(m, lo, hi))
\* The samples, and each with infinities for its threes.
Extended == Samples \union { Elementwise(m, LAMBDA x : IF x = 3 THEN Infinite ELSE x) : m \in Samples }
NanToNum == Idle /\ \E m \in Extended, posinf \in {None, 5} :
  Call([fn |-> "nan_to_num", m |-> m, posinf |-> posinf], nan_to_num(m, 4, posinf))

OrderNext ==
  \/ Sort \/ Argsort \/ Partition \/ Argpartition \/ Quantile \/ Percentile \/ Median \/ Nanquantile \/ Nanpercentile \/ Nanmedian \/ Searchsorted \/ Digitize \/ Unique
  \/ In1dCall \/ Bincount \/ HistogramCall \/ Argwhere \/ Nonzero \/ Flatnonzero \/ Extract \/ Where \/ Clip \/ NanToNum

-----------------------------------------------------------------------------
(* NumPy's definitions, and the properties.                                *)

\* The line of an array that index i of a reduction of it stands for.
Line(m, axis, keepdims, i) == Values(m, Members(m, AxesOf(axis, Ndim(m)), keepdims, None, i))
CountOf(xs, x) == Cardinality({ k \in DOMAIN xs : xs[k] = x })

\* A sort along any axis, or of all the elements, gives the elements of each line in order; an argsort
\* gives their places, each once, those of equal elements in order when it is stable.  (NaNs have no
\* order in the comparison that the kernel uses, and an array without dimensions raises.)
SortsAreNumpy ==
  call.fn = "sort" =>
    LET m == IF call.axis = None THEN OfSeq(Elements(call.m)) ELSE call.m
        axis == IF call.axis = None THEN 0 ELSE call.axis
        d == Dim(axis, Ndim(m))
    IN IF ~AxisFits(axis, Ndim(m)) THEN ~OK(result)
       ELSE /\ result.shape = m.shape
            /\ \A i \in DOMAIN m.at : i[d] = 0 =>
                 LET xs == [k \in 1..m.shape[d] |-> m.at[[i EXCEPT ![d] = k - 1]]]
                     ys == [k \in 1..m.shape[d] |-> result.at[[i EXCEPT ![d] = k - 1]]]
                 IN IF call.arg
                    THEN /\ ToSet(ys) = 0..(Len(xs) - 1)
                         /\ \A k \in 2..Len(xs) :
                              \/ xs[ys[k - 1] + 1] < xs[ys[k] + 1]
                              \/ xs[ys[k - 1] + 1] = xs[ys[k] + 1] /\ (call.stable => ys[k - 1] < ys[k])
                    ELSE /\ \A k \in 2..Len(xs) : ys[k - 1] <= ys[k]
                         /\ \A k \in DOMAIN xs : CountOf(xs, xs[k]) = CountOf(ys, xs[k])

\* The quantile k/4 of an ascending line, One times it.  Hyndman and Fan's definitions: those that
\* interpolate have a parameter each for the two ends, in units of One; the others choose elements by
\* their shares of the line.
Alpha(method) ==
  CASE method = "hazen" -> One \div 2 [] method = "linear" -> One [] method = "median_unbiased" -> One \div 3
    [] method = "normal_unbiased" -> (3 * One) \div 8 [] OTHER -> 0
Beta(method) == IF method = "interpolated_inverted_cdf" THEN One ELSE Alpha(method)
Interpolated(xs, p) ==
  LET n == Len(xs)
      v == IF p < 0 THEN 0 ELSE IF p > One * (n - 1) THEN One * (n - 1) ELSE p
      j == v \div One
  IN IF v % One = 0 THEN One * xs[j + 1] ELSE (One - (v % One)) * xs[j + 1] + (v % One) * xs[j + 2]
\* The least element with at least, or with more than, k/4 of the line up to it.
Reaching(xs, k) == xs[CHOOSE j \in DOMAIN xs : (4 * j >= k * Len(xs)) /\ \A i \in 1..(j - 1) : 4 * i < k * Len(xs)]
Exceeding(xs, k) == IF k = 4 THEN xs[Len(xs)] ELSE xs[CHOOSE j \in DOMAIN xs : (4 * j > k * Len(xs)) /\ \A i \in 1..(j - 1) : 4 * i <= k * Len(xs)]
\* The element whose place is the nearest to k/4 of the line, the even one of two that are as near.
Nearest(xs, k) ==
  LET off(j) == IF 4 * j >= k * Len(xs) THEN 4 * j - k * Len(xs) ELSE k * Len(xs) - 4 * j
      near == { j \in DOMAIN xs : \A i \in DOMAIN xs : off(j) <= off(i) }
  IN xs[CHOOSE j \in near : Cardinality(near) = 1 \/ j % 2 = 0]
NumpyQuantile(xs, k, method) ==
  LET n == Len(xs)
      \* place (n - 1) k / 4, below, above and the rest
      lo == (k * (n - 1)) \div 4
      hi == (k * (n - 1) + 3) \div 4
      rest == (k * (n - 1)) % 4
  IN CASE method = "inverted_cdf" -> One * Reaching(xs, k)
       [] method = "averaged_inverted_cdf" -> (One \div 2) * (Reaching(xs, k) + Exceeding(xs, k))
       [] method = "closest_observation" -> One * Nearest(xs, k)
       [] method = "lower" -> One * xs[lo + 1]
       [] method = "higher" -> One * xs[hi + 1]
       [] method = "midpoint" -> (One \div 2) * (xs[lo + 1] + xs[hi + 1])
       [] method = "nearest" -> One * xs[(IF rest < 2 \/ (rest = 2 /\ lo % 2 = 0) THEN lo ELSE hi) + 1]
       [] OTHER -> Interpolated(xs, (One \div 4) * k * n + Alpha(method)
                                    + (k * (One - Alpha(method) - Beta(method))) \div 4 - One)

\* A quantile by any of the thirteen methods, along any axes, is the one of the line of elements that it
\* is for; the dimensions of q come first.
QuantilesAreNumpy ==
  call.fn = "quantile" =>
    LET axes == AxesOf(call.axis, Ndim(call.m))
    IN /\ result.shape = call.q.shape \o ReducedShape(call.m.shape, axes, call.keepdims)
       /\ \A i \in DOMAIN result.at :
            LET j == SubSeq(i, Ndim(call.q) + 1, Len(i))
            IN result.at[i] = NumpyQuantile(Ascending(Line(call.m, call.axis, call.keepdims, j)),
                                            call.q.at[SubSeq(i, 1, Ndim(call.q))], call.method)

\* nanquantile is the quantile of the elements that are not NaN, and NaN where there are none.  Kept
\* dimensions of other than the last axes raise; an infinity beside a NaN is excepted, it is sorted
\* behind the number that stands for the NaN.
NanQuantilesAreNumpy ==
  call.fn = "nanquantile" =>
    LET axes == AxesOf(call.axis, Ndim(call.m))
    IN IF ~OK(result) THEN call.keepdims /\ \E d \in 1..Ndim(call.m) : d \notin axes /\ \E e \in axes : e < d
       ELSE /\ result.shape = call.q.shape \o ReducedShape(call.m.shape, axes, call.keepdims)
            /\ \A i \in DOMAIN result.at :
                 LET xs == Line(call.m, call.axis, call.keepdims, SubSeq(i, Ndim(call.q) + 1, Len(i)))
                     ys == WithoutNaN(xs)
                 IN IF ys = << >> THEN result.at[i] = NaN
                    ELSE \/ (Infinite \in ToSet(xs) /\ NaN \in ToSet(xs))
                         \/ result.at[i] = NumpyQuantile(Ascending(ys), call.q.at[SubSeq(i, 1, Ndim(call.q))], call.method)

\* The table of digitize's documentation: where x lies between the bins that its result names.
InTheTable ==
  LET up == Rises(call.bins)
      n == Len(call.bins)
      edge(k) == IF k = 0 \/ k = n + 1 THEN None ELSE call.bins[k]
      Above(x, e) == e = None \/ IF call.right THEN x > e ELSE x >= e
      Under(x, e) == e = None \/ IF call.right THEN x <= e ELSE x < e
  IN IF ~up /\ ~Falls(call.bins) THEN ~OK(result)
     ELSE \A i \in DOMAIN result.at :
            LET x == call.x.at[i] k == result.at[i]
            IN IF up THEN Above(x, edge(k)) /\ Under(x, edge(k + 1)) ELSE Under(x, edge(k)) /\ Above(x, edge(k + 1))

\* Searches find the same places however the line is cut into pieces, and with the line's own order or a
\* sorter; digitize names the bin of its documentation's table for bins that rise or fall.  (One bin, or
\* equal ones, rise and fall and are taken to fall.)
PlacesAreNumpy ==
  /\ call.fn = "searchsorted" =>
       \A i \in DOMAIN result.at :
         result.at[i] = Cardinality({ k \in DOMAIN call.a : call.a[k] < call.v.at[i]
                                                            \/ (call.side = "right" /\ call.a[k] = call.v.at[i]) })
  /\ call.fn = "digitize" => (Rises(call.bins) /\ Falls(call.bins)) \/ InTheTable

\* Every bin of digitize is the one of its documentation's table.
DigitizeFollowsItsTable == call.fn = "digitize" => InTheTable

\* unique has every element once, in order; in1d says of each element whether it is a member.  (Among
\* elements with NaN a set that compares by order loses elements; NaNs are no members of any array, not
\* even when members are asked to be told by FALSE.)
SetsAreNumpy ==
  /\ call.fn = "unique" /\ NoNaN(call.m) =>
       /\ ToSet(Elements(result)) = ToSet(Elements(call.m))
       /\ \A k \in 2..Size(result) : result.at[<< k - 2 >>] < result.at[<< k - 1 >>]
  /\ call.fn = "in1d" =>
       IF ~OK(result) THEN call.kind = "table" /\ (IsFloat(call.a) \/ IsFloat(call.b))
       ELSE /\ result.shape = << Size(call.a) >>
            /\ \A n \in 1..Size(call.a) :
                 LET x == Elements(call.a)[n]
                 IN IF x = NaN THEN result.at[<< n - 1 >>] = (call.invert /\ Size(call.b) = 0)
                    ELSE result.at[<< n - 1 >>] = (call.invert # (x \in ToSet(Elements(call.b))))
\* Every element of an array is among its unique ones.
UniqueLosesNothing ==
  call.fn = "unique" => ToSet(Elements(call.m)) \subseteq ToSet(Elements(result))

\* The bins of an array: how often, or with which weight, each number occurs, or lies between two edges,
\* the last one included.  (Elements on the last edge of a last bin without width are counted in the bin
\* before it.)
CountsAreNumpy ==
  /\ call.fn = "bincount" =>
       IF \/ call.weights # None /\ Len(call.weights) # Len(call.x)
          \/ call.minlength < 0 \/ call.x = << >> \/ \E k \in DOMAIN call.x : call.x[k] < 0
       THEN ~OK(result)
       ELSE /\ \A k \in DOMAIN call.x : call.x[k] < result.shape[1]
            /\ result.shape[1] >= call.minlength /\ result.shape[1] \in { call.minlength } \union { call.x[k] + 1 : k \in DOMAIN call.x }
            /\ \A n \in 0..(result.shape[1] - 1) :
                 LET own == SelectSeq([k \in DOMAIN call.x |-> k], LAMBDA k : call.x[k] = n)
                 IN result.at[<< n >>] = SumOf([k \in DOMAIN own |-> CountOrWeight(call.weights, own[k])])
  /\ call.fn = "histogram" /\ OK(result) =>
       LET edges == Edges(call.x, call.bins, call.range)
           unit == IF "edges" \in DOMAIN call.bins THEN 1 ELSE call.bins.num
           n == Len(edges) - 1
           In(x, k) == edges[k] <= unit * x /\ (unit * x < edges[k + 1] \/ (k = n /\ unit * x = edges[n + 1]))
       IN \/ edges[n] = edges[n + 1]
          \/ \A k \in 1..n :
               LET own == SelectSeq([j \in DOMAIN call.x |-> j], LAMBDA j : In(call.x[j], k))
               IN result.at[<< k - 1 >>] = SumOf([j \in DOMAIN own |-> CountOrWeight(call.weights, own[j])])

\* argwhere, flatnonzero, extract and where take the elements that the condition chooses, in row-major
\* order and from arrays that broadcast; clip and nan_to_num leave what is between the bounds, and a
\* number, alone.
ChoicesAreNumpy ==
  /\ call.fn = "argwhere" =>
       /\ { [d \in 1..Ndim(call.m) |-> result.at[<< n, d - 1 >>]] : n \in 0..(result.shape[1] - 1) }
            = { i \in DOMAIN call.m.at : call.m.at[i] # 0 }
       /\ \A n \in 1..(result.shape[1] - 1) :
            Place(call.m.shape, [d \in 1..Ndim(call.m) |-> result.at[<< n - 1, d - 1 >>]])
              < Place(call.m.shape, [d \in 1..Ndim(call.m) |-> result.at[<< n, d - 1 >>]])
  /\ call.fn = "nonzero" /\ Ndim(call.m) > 0 =>
       /\ { [d \in 1..Ndim(call.m) |-> result[d].at[<< n >>]] : n \in 0..(Size(result[1]) - 1) }
            = { i \in DOMAIN call.m.at : call.m.at[i] # 0 }
       /\ \A d \in 1..Ndim(call.m) : result[d].shape = result[1].shape
  /\ call.fn = "flatnonzero" =>
       Elements(result) = SelectSeq([n \in 1..Size(call.m) |-> n - 1], LAMBDA n : Elements(call.m)[n + 1] # 0)
  /\ call.fn = "extract" =>
       IF Size(call.c) # Size(call.m) THEN ~OK(result)
       ELSE OK(result) => Elements(result) = LET ks == SelectSeq([n \in 1..Size(call.m) |-> n], LAMBDA n : Elements(call.c)[n] # 0)
                                             IN [n \in DOMAIN ks |-> Elements(call.m)[ks[n]]]
  /\ call.fn = "where" /\ OK(result) =>
       /\ Broadcasts({ call.c.shape, call.x.shape, call.y.shape })
       /\ \A i \in DOMAIN result.at :
            result.at[i] = IF BroadcastTo(call.c, result.shape).at[i] # 0 THEN BroadcastTo(call.x, result.shape).at[i]
                           ELSE BroadcastTo(call.y, result.shape).at[i]
  /\ call.fn = "clip" =>
       \A i \in DOMAIN result.at :
         LET x == call.m.at[i]
             in(e) == (call.lo = None \/ e >= call.lo) /\ (call.hi = None \/ e <= call.hi)
         IN \/ x = NaN /\ result.at[i] = NaN
            \/ (call.lo # None /\ call.hi # None /\ call.lo > call.hi)
            \/ x # NaN /\ in(result.at[i]) /\ (in(x) => result.at[i] = x) /\ (~in(x) => result.at[i] \in { call.lo, call.hi })
  /\ call.fn = "nan_to_num" =>
       \A i \in DOMAIN result.at :
         result.at[i] = IF call.m.at[i] = NaN THEN 4
                        ELSE IF call.m.at[i] = Infinite /\ call.posinf # None THEN call.posinf
                        ELSE IF call.m.at[i] = Infinite THEN Greatest ELSE call.m.at[i]

\* What depends on the order of the elements: sorts and their indices, quantiles by every method with and
\* without NaNs, the places found by search and digitize, sets, counts, and choices by a condition.
OrdersAreNumpy ==
  /\ SortsAreNumpy
  /\ QuantilesAreNumpy
  /\ NanQuantilesAreNumpy
  /\ PlacesAreNumpy
  /\ SetsAreNumpy
  /\ CountsAreNumpy
  /\ ChoicesAreNumpy
=============================================================================
