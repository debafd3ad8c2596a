---------------------------- MODULE TaskKernels ----------------------------
(***************************************************************************)
(* The CPU variants of the tasks that deferred arrays launch: what one     *)
(* piece writes, contributes to a reduction, or produces, from the         *)
(* elements it sees.  V(x) is what the piece sees of argument x; outside   *)
(* of it there is Garbage.                                                 *)
(***************************************************************************)
EXTENDS TaskLaunch

Peek(f, i) == IF i \in DOMAIN f THEN f[i] ELSE Garbage
SumOver(S, F(_)) == FoldSet(LAMBDA i, x : F(i) + x, 0, S)
MinIn(S) == CHOOSE x \in S : \A y \in S : x <= y
Ascending(S) == [n \in 1..Cardinality(S) |-> CHOOSE x \in S : Cardinality({ y \in S : y < x }) = n - 1]
RowMajor(shape, S) ==
  LET places == Ascending({ Place(shape, i) : i \in S }) IN [n \in DOMAIN places |-> IndexAt(shape, places[n])]
Lo(box, d) == MinIn({ i[d] : i \in box })
Hi(box, d) == Lo(box, d) + Cardinality({ i[d] : i \in box }) - 1

\* The value that an operation marks as not a number, and conversions of it to other types.
NaN == -77
Converted(to, nan_op, x) ==
  LET y == IF x = NaN /\ nan_op # "NOOP" THEN (IF nan_op = "PROD" THEN 1 ELSE 0) ELSE x
  IN IF to = "bool" THEN Bool(y # 0) ELSE y

UnaryFunction(op, x) ==
  CASE op = "COPY" -> x
    [] op = "NEGATIVE" -> -x
    [] op = "GETARG" -> x % 100
    [] op = "MODF" -> x % 3
BinaryFunction(op, x, y) ==
  CASE op = "ADD" -> x + y
    [] op = "SUBTRACT" -> x - y
    [] op = "ISCLOSE" -> Bool(x - y \in -1..1)
    [] op = "NOT_EQUAL" -> Bool(x # y)
    [] op = "EQUAL" -> Bool(x = y)

\* Packing and unpacking p.w elements per byte, in either order of bits.
Bit(p, k) == IF p.bitorder = "LITTLE" THEN 2^k ELSE 2^(p.w - 1 - k)
\* The index of the element along axis a.
Along(i, a, n) == [i EXCEPT ![a + 1] = n]

Center(ext) == ext \div 2

OnDiagonal(i, k) == i[2] = i[1] + k

\* The element of the input that a turned, tiled or repeated output copies.
Flipped(p, i, box) == [d \in DOMAIN i |-> IF d - 1 \in p.axes THEN Hi(box, d) - i[d] ELSE i[d]]
Tiled(p, i) == [d \in DOMAIN p.shape |-> i[d + Len(i) - Len(p.shape)] % p.shape[d]]
Taken(p, i, n) ==
  << i[1], IF p.clip THEN IF n < 0 THEN 0 ELSE MinOf(n, p.extent - 1) ELSE n % p.extent, 0, i[4] >>
InTriangle(p, i) ==
  LET n == Len(i) IN IF p.lower THEN i[n] - i[n - 1] <= p.k ELSE i[n] - i[n - 1] >= p.k
\* The element of the input that filter element f meets at i.
Met(p, i, f) == [d \in DOMAIN i |-> i[d] + p.ext[d] - 1 - f[d] - Center(p.ext[d])]
Convolved(p, i, filter, halo) ==
  SumOver({ f \in DOMAIN filter : \A d \in DOMAIN i : Met(p, i, f)[d] \in 0..(p.shape[d] - 1) },
          LAMBDA f : Peek(halo, Met(p, i, f)) * filter[f])
PackedAt(p, i, in) ==
  LET n == i[p.axis + 1] * p.w
  IN SumOver({ b \in 0..(p.w - 1) : n + b < p.extent },
             LAMBDA b : Bit(p, b) * Bool(Peek(in, Along(i, p.axis, n + b)) # 0))
UnpackedAt(p, i, in) ==
  LET n == i[p.axis + 1] IN (Peek(in, Along(i, p.axis, n \div p.w)) \div Bit(p, n % p.w)) % 2
WrappedAt(p, i, n) ==
  IF p.has_input THEN IF n < 0 THEN n + Product(p.shape) ELSE n ELSE i[1] % Product(p.shape)
\* A transform reads the lines along its axes; here it adds them up.
Transformed(p, i, in) ==
  SumOver({ j \in Box(p.shape) : \A d \in DOMAIN i : d - 1 \in p.axes \/ j[d] = i[d] }, LAMBDA j : Peek(in, j))
  + 2 * Peek(in, i)
RandomAt(p, i) == 100 * p.epoch + FoldLeft(LAMBDA n, d : n + i[d] * p.strides[d], 0, [d \in DOMAIN i |-> d])
MultipliedAt(i, lhs, rhs1, rhs2) ==
  Peek(lhs, i) + SumOver({ j \in DOMAIN rhs1 : j[1] = i[1] }, LAMBDA j : rhs1[j] * Peek(rhs2, << j[2], i[2] >>))
ScannedAt(i, box, in) ==
  SumOver({ j \in box : Front(j) = Front(i) /\ Last(j) <= Last(i) }, LAMBDA j : Peek(in, j))

\* The value of output x at i.
Value(l, x, i, box, V(_)) ==
  LET p == l.p
      k == l.kernel
      At(y, j) == Peek(V(y), j)
  IN CASE k = "FILL" -> p.value
       [] k = "UNARY_OP" -> IF x = "out1" THEN At("rhs", i) \div 3 ELSE UnaryFunction(p.op, At("rhs", i))
       [] k = "BINARY_OP" -> BinaryFunction(p.op, At("rhs1", i), At("rhs2", i))
       [] k = "WHERE" -> IF At("rhs1", i) # 0 THEN At("rhs2", i) ELSE At("rhs3", i)
       [] k = "CONVERT" -> Converted(p.to, p.nan_op, At("rhs", i))
       [] k = "CHOOSE" -> At(<< "c0", "c1" >>[At("ind", i) + 1], i)
       [] k = "SELECT" -> IF At("cond0", i) # 0 THEN At("c0", i)
                          ELSE IF At("cond1", i) # 0 THEN At("c1", i) ELSE p.default
       [] k = "PUTMASK" -> At("values", i)
       [] k = "TRILU" -> IF InTriangle(p, i) THEN At("rhs", i) ELSE 0
       [] k = "FLIP" -> At("in", Flipped(p, i, box))
       [] k = "TILE" -> At("rhs", Tiled(p, i))
       [] k = "EYE" -> 1
       [] k = "ARANGE" -> p.start + i[1] * p.step
       [] k = "RAND" -> RandomAt(p, i)
       [] k = "WINDOW" -> MinOf(i[1], p.M - 1 - i[1])
       [] k = "IN1D" -> Bool((\E j \in DOMAIN V("in2") : V("in2")[j] = At("in1", i)) # p.invert)
       [] k = "TAKE" -> At("src", Taken(p, i, At("ind", << i[3] >>)))
       [] k = "CONVOLVE" -> Convolved(p, i, V("filter"), V("halo"))
       [] k = "FFT" -> Transformed(p, i, V("in"))
       [] k = "PACKBITS" -> PackedAt(p, i, V("in"))
       [] k = "UNPACKBITS" -> UnpackedAt(p, i, V("in"))
       [] k = "REPEAT" -> At("in", Along(i, p.axis, i[p.axis + 1] \div p.repeats))
       [] k = "DIAG" -> At("diag", i)
       [] k = "MATMUL" -> MultipliedAt(i, V("lhs"), V("rhs1"), V("rhs2"))
       [] k = "SCAN_LOCAL" -> ScannedAt(i, box, V("in"))
       [] k = "SCATTER" -> At("values", CHOOSE j \in DOMAIN V("indirect") : V("indirect")[j] = Place(p.shape, i))
       [] k = "GATHER" -> At("src", IndexAt(p.shape, At("indirect", i)))
       [] k = "WRAP" -> WrappedAt(p, i, IF p.has_input THEN At("indices", i) ELSE 0)

\* The tasks that leave part of their output alone.
Touches(l, i, V(_)) ==
  CASE l.kernel = "PUTMASK" -> Peek(V("mask"), i) # 0
    [] l.kernel = "EYE" -> OnDiagonal(i, l.p.k)
    [] l.kernel = "DIAG" -> OnDiagonal(i, 0)
    [] l.kernel = "TAKE" -> i[2] = 0
    [] l.kernel = "SCATTER" -> \E j \in DOMAIN V("indirect") : V("indirect")[j] = Place(l.p.shape, i)
    [] OTHER -> TRUE

Wrote(l, part, c, V(_)) ==
  [x \in { y \in Bound(l) : l.args[y].priv \in {"out", "inout"} } |->
     [i \in { j \in part[x][c] : Touches(l, j, V) } |-> Value(l, x, i, part[x][c], V)]]

-----------------------------------------------------------------------------
(* Reductions: what each element contributes, and where.                   *)

Contribution(p, i, x) ==
  CASE p.op \in {"SUM", "PROD", "MAX", "MIN"} -> x
    [] p.op = "SUM_SQUARES" -> x * x
    [] p.op = "VARIANCE" -> (x - p.mean) * (x - p.mean)
    [] p.op = "NANSUM" -> IF x = NaN THEN 0 ELSE x
    [] p.op = "NANPROD" -> IF x = NaN THEN 1 ELSE x
    [] p.op \in {"COUNT_NONZERO", "ALL", "ANY"} -> Bool(x # 0)
    [] p.op = "CONTAINS" -> Bool(x = p.value)
    \* a pair of a value and its index
    [] p.op \in {"ARGMAX", "ARGMIN"} -> 100 * x + i

Positions(offset, n) == n + offset

Reduced(l, part, c, V(_)) ==
  LET p == l.p
      k == l.kernel
      At(y, j) == Peek(V(y), j)
      Each(x, Keep(_), Where(_), What(_)) ==
        LET s == RowMajor(ShapeOf(l, x), { j \in part[x][c] : Keep(j) })
        IN [n \in DOMAIN s |-> << Where(s[n]), What(s[n]) >>]
      Unmasked(j) == IF "where" \in DOMAIN l.args THEN At("where", j) # 0 ELSE TRUE
  IN CASE k = "UNARY_RED" ->
            Each("rhs", Unmasked, LAMBDA j : j, LAMBDA j : Contribution(p, j[p.axis + 1], At("rhs", j)))
       [] k = "SCALAR_UNARY_RED" ->
            LET to == CHOOSE z \in Box(ShapeOf(l, "lhs")) : TRUE
            IN Each("rhs", Unmasked, LAMBDA j : to, LAMBDA j : Contribution(p, Place(p.shape, j), At("rhs", j)))
       [] k = "BINARY_RED" ->
            Each("rhs1", LAMBDA j : TRUE, LAMBDA j : CHOOSE z \in Box(ShapeOf(l, "lhs")) : TRUE,
                 LAMBDA j : BinaryFunction(p.op, At("rhs1", j), At("rhs2", j)))
       [] k = "DOT" ->
            Each("rhs1", LAMBDA j : TRUE, LAMBDA j : CHOOSE z \in Box(ShapeOf(l, "lhs")) : TRUE,
                 LAMBDA j : At("rhs1", j) * At("rhs2", j))
       [] k \in {"MATVECMUL", "CONTRACT", "MATMUL"} ->
            Each("rhs1", LAMBDA j : TRUE, LAMBDA j : j, LAMBDA j : At("rhs1", j) * At("rhs2", j))
       [] k = "BINCOUNT" ->
            Each("src", LAMBDA j : TRUE, LAMBDA j : << At("src", j) >>,
                 LAMBDA j : IF "weight" \in DOMAIN l.args
                            THEN At("weight", IF p.one THEN CHOOSE z \in Box(ShapeOf(l, "weight")) : TRUE ELSE j)
                            ELSE 1)
       [] k = "HISTOGRAM" ->
            LET bins == Cardinality(DOMAIN V("bins")) - 1
                in(b, x) == /\ At("bins", << b >>) <= x
                            /\ x < At("bins", << b + 1 >>) \/ (b = bins - 1 /\ x = At("bins", << b + 1 >>))
                bin(j) == { b \in 0..(bins - 1) : in(b, At("src", j)) }
            IN Each("src", LAMBDA j : bin(j) # {}, LAMBDA j : << MinIn(bin(j)) >>, LAMBDA j : At("weight", j))
       [] k = "DIAG" ->
            Each("matrix", LAMBDA j : \A d \in (Len(j) - p.naxes + 1)..Len(j) : j[d] = Last(j),
                 LAMBDA j : j, LAMBDA j : At("matrix", j))
       [] k = "SEARCHSORTED" ->
            LET base == part["rhs"][c]
                offset == IF base = {} THEN 0 ELSE Lo(base, 1)
                \* lower_bound and upper_bound within the piece
                n(x) == Cardinality({ j \in base : IF p.left THEN At("rhs", j) < x ELSE At("rhs", j) <= x })
                hit(x) == IF p.left THEN n(x) < Cardinality(base) ELSE n(x) > 0
            IN Each("v", LAMBDA j : hit(At("v", j)), LAMBDA j : j, LAMBDA j : Positions(offset, n(At("v", j))))
       [] OTHER -> << >>

-----------------------------------------------------------------------------
(* Outputs whose size only the task knows.  The pieces' parts are put      *)
(* together in the order of the pieces.                                    *)

\* The pieces along the scanned dimension that come before piece c in a row.
Before(part, c, row) == { b \in 1..(c - 1) : \E i \in part["lhs"][b] : Front(i) = row }

Made(l, part, c, V(_)) ==
  LET k == l.kernel
      box == part["in"][c]
      seen == V("in")
  IN CASE k \in {"NONZERO", "ARGWHERE"} -> RowMajor(ShapeOf(l, "in"), { i \in box : seen[i] # 0 })
       [] k = "UNIQUE" -> Ascending({ seen[i] : i \in box })
       [] k = "SCAN_LOCAL" ->
            [row \in { Front(i) : i \in box } |->
               SumOver({ j \in box : Front(j) = row }, LAMBDA j : seen[j])]
       [] OTHER -> << >>

\* SCAN_GLOBAL: piece c adds the sums of the pieces before it to what it holds.
Prefixed(part, c, made, V(_)) ==
  [i \in part["lhs"][c] |->
     V("lhs")[i] + SumOver(Before(part, c, Front(i)), LAMBDA b : made[b][Front(i)])]
=============================================================================
