-------------------------- MODULE MatrixFunctions --------------------------
(***************************************************************************)
(* One call of a function of the linalg module: powers and products of     *)
(* several matrices, norms, the exponential, the factorisations with the   *)
(* tiles that they are launched over, and the singular values of tall      *)
(* matrices.                                                               *)
(***************************************************************************)
EXTENDS Products

CONSTANTS
  Exponents,    \* of matrix_power
  Chains,       \* the operands of multi_dot
  Signed,       \* the arrays that norms are taken of
  NormAxes,     \* the axis arguments of norm: None or a tuple
  Orders1,      \* the ord arguments of norm, as strings; "p" is any other positive number
  Power,        \* the number that "p" is
  ExpNorms,     \* thousandths of the L1 norms of the matrices that expm is given
  StackShapes,       \* shapes of stacks of matrices
  num_procs,
  Talls         \* the matrices that tssvd is given

Product2(x, y) == IF x = None THEN y ELSE matmul(x, y, None)
times_bit(product, z, bit) == IF bit = 0 THEN product ELSE Product2(product, z)
\* A turn of the loop: the next bit of the exponent, and the next power of a.
NextBit(st, z) == [st EXCEPT !.z = z, !.n = @ \div 2, !.result = times_bit(@, z, st.n % 2)]
matrix_power_step(st) ==
  IF st.n = 0 THEN st ELSE NextBit(st, Product2(st.z, IF st.z = None THEN st.a ELSE st.z))
IsSquare(shape) == Len(shape) >= 2 /\ shape[Len(shape) - 1] = shape[Len(shape)]
Eye(n) == Build(<< n, n >>, LAMBDA i : IF i[1] = i[2] THEN 1 ELSE 0)
matrix_power(a, n) ==
  IF ~IsSquare(a.shape) THEN Failure
  ELSE IF n < 0 THEN Failure
  ELSE IF n = 0 THEN BroadcastTo(Eye(Last(a.shape)), a.shape)
  ELSE IF n <= 3 THEN FoldLeft(LAMBDA p, k : matmul(p, a, None), a, [k \in 1..(n - 1) |-> k])
  ELSE FoldLeft(LAMBDA st, k : matrix_power_step(st),
                [n |-> n, a |-> a, z |-> None, result |-> None], [k \in 1..8 |-> k]).result

-----------------------------------------------------------------------------
(* multi_dot.                                                              *)

\* The products that a bracketing costs; p holds the extents, matrix i has p[i] rows.
Cheapest(S) == CHOOSE x \in S : \A y \in S : x <= y
multiplications(p, i, k, j) == p[i] * p[k + 1] * p[j + 1]
costs(p) ==
  LET m[ij \in (1..Len(p)) \X (1..Len(p))] ==
        IF ij[1] >= ij[2] THEN 0
        ELSE Cheapest({ m[<< ij[1], k >>] + m[<< k + 1, ij[2] >>] + multiplications(p, ij[1], k, ij[2]) : k \in ij[1]..(ij[2] - 1) })
  IN m
\* s[i, j]: the first cheapest place to split the product of matrices i to j.
_multi_dot_matrix_chain_order(p) ==
  [ij \in (1..Len(p)) \X (1..Len(p)) |->
     IF ij[1] >= ij[2] THEN 0
     ELSE Cheapest({ k \in ij[1]..(ij[2] - 1) :
            costs(p)[<< ij[1], k >>] + costs(p)[<< k + 1, ij[2] >>] + multiplications(p, ij[1], k, ij[2]) = costs(p)[ij] })]
RECURSIVE _multi_dot(_, _, _, _, _)
DotOr(a, b, out) == IF ~OK(a) \/ ~OK(b) THEN Failure ELSE dot(a, b, out)
_multi_dot(arrays, order, i, j, out) ==
  IF i = j THEN arrays[i]
  ELSE DotOr(_multi_dot(arrays, order, i, order[<< i, j >>], None),
             _multi_dot(arrays, order, order[<< i, j >>] + 1, j, None), out)
LeftFirst(A, B, C) ==
  A.shape[1] * C.shape[1] * (A.shape[2] + C.shape[2]) < A.shape[2] * C.shape[2] * (A.shape[1] + C.shape[1])
_multi_dot_three(A, B, C) ==
  [ij \in (1..3) \X (1..3) |-> IF ij = << 1, 3 >> /\ LeftFirst(A, B, C) THEN 2 ELSE ij[1]]
ExtentsOf(arrays) == [i \in DOMAIN arrays |-> arrays[i].shape[1]] \o << arrays[Len(arrays)].shape[2] >>
Chained(arrays, out) ==
  IF \E i \in DOMAIN arrays : Ndim(arrays[i]) # 2 THEN Failure
  ELSE IF (IF out = None THEN FALSE ELSE Len(out) # 2) THEN Failure
  ELSE _multi_dot(arrays, IF Len(arrays) = 3 THEN _multi_dot_three(arrays[1], arrays[2], arrays[3])
                          ELSE _multi_dot_matrix_chain_order(ExtentsOf(arrays)), 1, Len(arrays), out)
\* The ends may be single lines: a row, and a column.
Widened(arrays) ==
  [i \in DOMAIN arrays |->
     IF Ndim(arrays[i]) # 1 THEN arrays[i]
     ELSE IF i = 1 THEN Promote(arrays[i], 1, 1)
     ELSE IF i = Len(arrays) THEN Promote(arrays[i], 2, 1) ELSE arrays[i]]
WidenedOut(arrays, out) ==
  LET row == IF Ndim(arrays[1]) = 1 THEN << 1 >> ELSE << >>
      column == IF Ndim(Last(arrays)) = 1 THEN << 1 >> ELSE << >>
  IN IF out = None THEN None ELSE row \o out \o column
Narrow(r, first, last) ==
  IF ~OK(r) THEN Failure
  ELSE IF first = 1 /\ last = 1 THEN reshape(r, << >>)
  ELSE IF first = 1 \/ last = 1 THEN ravel(r) ELSE r
multi_dot(arrays, out) ==
  IF Len(arrays) < 2 THEN Failure
  ELSE IF Len(arrays) = 2 THEN dot(arrays[1], arrays[2], out)
  ELSE Narrow(Chained(Widened(arrays), WidenedOut(arrays, out)), Ndim(arrays[1]), Ndim(Last(arrays)))

-----------------------------------------------------------------------------
(* norm.  A root is represented by what it is taken of, and its degree.    *)
(* Negative powers are those of NormUnit \div v, NormUnit being a multiple  *)
(* of the elements; NormPole is infinity, the power of 0 and sums with it.  *)

Absolute(x) == Elementwise(x, LAMBDA v : IF v < 0 THEN -v ELSE v)
ToThe(v, n) == FoldLeft(LAMBDA p, k : p * v, 1, [k \in 1..n |-> k])
NormUnit == 60
NormPole == 1000000
Rooted(a, degree) ==
  IF ~OK(a) THEN Failure
  ELSE [a EXCEPT !.at = [i \in DOMAIN a.at |-> << IF a.at[i] > NormPole THEN NormPole ELSE a.at[i], degree >>]]
addreduce(x, dims, keepdims) == reduce("SUM", x, dims, keepdims, None, None)
Summed(x, axis) == IF ~OK(x) THEN Failure ELSE sum(x, << axis >>, FALSE, None, None)
VectorOrders == {"0", "1", "None", "2", "-1", "-2", "p"}
Degree(ord) ==
  CASE ord \in {"None", "2"} -> 2 [] ord = "p" -> Power [] ord = "-1" -> -1 [] ord = "-2" -> -2 [] OTHER -> 1
Term(v, ord) ==
  CASE ord = "0" -> IF v = 0 THEN 0 ELSE 1
    [] ord = "1" -> v
    [] Degree(ord) < 0 -> IF v = 0 THEN NormPole ELSE ToThe(NormUnit \div v, -Degree(ord))
    [] OTHER -> ToThe(v, Degree(ord))
ExtremeOver(op, x, axes, keepdims) == perform_unary_reduction(op, x, axes, keepdims, None, None)
vector_norm(x, ord, axes, keepdims) ==
  IF ord \in {"inf", "-inf"}
  THEN Rooted(ExtremeOver(IF ord = "inf" THEN "MAX" ELSE "MIN", Absolute(x), axes, keepdims), 1)
  ELSE IF ord \in VectorOrders
  THEN Rooted(addreduce(Elementwise(Absolute(x), LAMBDA v : Term(v, ord)), axes, keepdims), Degree(ord))
  ELSE Failure
\* The sums along one axis, and the extreme of them along the other, which may have moved.
OfSums(op, x, along, other) ==
  ExtremeOver(op, addreduce(x, << along >>, FALSE), << IF other > along THEN other - 1 ELSE other >>, FALSE)
matrix_norm(x, ord, row, col) ==
  IF ord \in {"1", "-1", "inf", "-inf"}
  THEN Rooted(OfSums(IF ord \in {"1", "inf"} THEN "MAX" ELSE "MIN", Absolute(x),
                     IF ord \in {"1", "-1"} THEN row ELSE col, IF ord \in {"1", "-1"} THEN col ELSE row), 1)
  \* The squares are summed along col, then along row, which is not moved.
  ELSE IF ord \in {"None", "fro"} THEN Rooted(Summed(Summed(Elementwise(x, LAMBDA v : v * v), col), row), 2)
  ELSE Failure
KeptDims(r, x, row, col, keepdims) ==
  IF ~OK(r) THEN Failure
  ELSE IF keepdims THEN reshape(r, [x.shape EXCEPT ![row + 1] = 1, ![col + 1] = 1]) ELSE r
norm_axes(x, ord, axes, keepdims) ==
  IF Len(axes) = 1 THEN vector_norm(x, ord, axes, keepdims)
  ELSE IF Len(axes) = 2 THEN KeptDims(matrix_norm(x, ord, axes[1], axes[2]), x, axes[1], axes[2], keepdims)
  ELSE Failure
AllInOne(r, n, keepdims) == IF keepdims THEN reshape(r, [d \in 1..n |-> 1]) ELSE r
norm(x, ord, axis, keepdims) ==
  IF (IF axis = None THEN FALSE ELSE ~AxesFit(axis, Ndim(x))) THEN Failure
  ELSE IF axis = None /\ (ord = "None" \/ (ord = "fro" /\ Ndim(x) = 2) \/ (ord = "2" /\ Ndim(x) = 1))
  THEN Rooted(AllInOne(dot(ravel(x), ravel(x), None), Ndim(x), keepdims), 2)
  ELSE norm_axes(x, ord, [j \in 1..(IF axis = None THEN Ndim(x) ELSE Len(axis)) |->
                            IF axis = None THEN j - 1 ELSE axis[j] % Ndim(x)], keepdims)

-----------------------------------------------------------------------------
(* expm.  The matrix is a nilpotent N with N^4 = 0; a polynomial in N is   *)
(* the sequence of its four coefficients, fractions in lowest terms.       *)

GCD(x, y) ==
  LET g[p \in 0..x, q \in 0..(IF x > y THEN x ELSE y)] == IF p = 0 THEN q ELSE g[q % p, p] IN g[x, y]
Lowest(f) ==
  LET d == GCD(IF f[1] < 0 THEN -f[1] ELSE f[1], f[2]) IN << f[1] \div d, f[2] \div d >>
FPlus(f, g) == Lowest(<< f[1] * (g[2] \div GCD(f[2], g[2])) + g[1] * (f[2] \div GCD(f[2], g[2])),
                        f[2] * (g[2] \div GCD(f[2], g[2])) >>)
FTimes(f, g) == Lowest(<< f[1] * g[1], f[2] * g[2] >>)
Integer(n) == << n, 1 >>
FSum(s) == FoldLeft(FPlus, Integer(0), s)

PolyPlus(p, q) == [k \in 1..4 |-> FPlus(p[k], q[k])]
PolyScale(c, p) == [k \in 1..4 |-> FTimes(c, p[k])]
PolyTimes(p, q) == [k \in 1..4 |-> FSum([j \in 1..k |-> FTimes(p[j], q[k + 1 - j])])]
Unit == << Integer(1), Integer(0), Integer(0), Integer(0) >>
\* The X with A X = B: the first coefficient of A is not zero.
PolySolve(A, B) ==
  LET reciprocal == << A[1][2], A[1][1] >>
      Next1(xs, k) == Append(xs, FTimes(reciprocal,
                        FPlus(B[k], FTimes(Integer(-1), FSum([j \in 1..(k - 1) |-> FTimes(xs[j], A[k + 1 - j])])))))
  IN FoldLeft(Next1, << >>, << 1, 2, 3, 4 >>)

\* The first four of the coefficients, over their common divisor: powers above the third are zero.
b_coeff(m) ==
  CASE m = 3 -> << 120, 60, 12, 1 >>
    [] m = 5 -> << 72, 36, 8, 1 >>
    [] m = 7 -> << 312, 156, 36, 5 >>
    [] m = 9 -> << 408, 204, 48, 7 >>
    [] OTHER -> << 600, 300, 72, 11 >>
theta(m) == CASE m = 3 -> 15 [] m = 5 -> 250 [] m = 7 -> 950 [] m = 9 -> 2100 [] OTHER -> 5400
\* U takes the odd coefficients, V the even ones.
make_uv(A, b) ==
  LET A2 == PolyTimes(A, A)
      turn(st, j) == [U |-> PolyPlus(st.U, PolyScale(Integer(b[2 * j + 2]), st.A2k)),
                      V |-> PolyPlus(st.V, PolyScale(Integer(b[2 * j + 1]), st.A2k)),
                      A2k |-> PolyTimes(st.A2k, A2)]
      zero == [k \in 1..4 |-> Integer(0)]
      uv == FoldLeft(turn, [U |-> zero, V |-> zero, A2k |-> Unit], << 0, 1 >>)
  IN [U |-> PolyTimes(A, uv.U), V |-> uv.V]
\* The least s >= 1 with norm <= 2^s theta.
scale(norm1) == Cheapest({ s \in 1..8 : norm1 <= theta(13) * ToThe(2, s) })
squared(X, s) == FoldLeft(LAMBDA Y, j : PolyTimes(Y, Y), X, [j \in 1..s |-> j])
Pade(A, m) == LET uv == make_uv(A, b_coeff(m))
              IN PolySolve(PolyPlus(uv.V, PolyScale(Integer(-1), uv.U)), PolyPlus(uv.V, uv.U))
expm_impl(norm1) ==
  LET small == { m \in {3, 5, 7, 9} : norm1 <= theta(m) }
      A(s) == << Integer(0), << 1, ToThe(2, s) >>, Integer(0), Integer(0) >>
  IN IF small # {} THEN Pade(A(0), Cheapest(small))
     ELSE squared(Pade(A(scale(norm1)), 13), scale(norm1))
expm(shape, norm1) ==
  IF ~IsSquare(shape) \/ Product(shape) <= 1 THEN Failure
  ELSE [i \in Box(SubSeq(shape, 1, Len(shape) - 2)) |-> expm_impl(norm1)]

-----------------------------------------------------------------------------
(* Factorisations: their checks, the shapes of their results, the tiles.   *)

Ceil(x, y) == (x + y - 1) \div y
\* Half of the tiles move from the first dimension to the one with the most per tile.
Rebalanced(shape, colors) ==
  LET d == CHOOSE x \in 1..(Len(shape) - 2) :
             /\ \A y \in 1..(Len(shape) - 2) : shape[x] * colors[y] >= shape[y] * colors[x]
             /\ \A y \in 1..(x - 1) : shape[x] * colors[y] > shape[y] * colors[x]
  IN IF colors[1] % 2 = 0 /\ shape[d] * colors[1] > 2 * shape[1] * colors[d]
     THEN [colors EXCEPT ![1] = @ \div 2, ![d] = @ * 2] ELSE colors
choose_nd_color_shape(shape) ==
  IF Len(shape) <= 2 THEN [d \in DOMAIN shape |-> 1]
  ELSE FoldLeft(LAMBDA colors, k : Rebalanced(shape, colors),
                [d \in DOMAIN shape |-> IF d = 1 THEN num_procs ELSE 1], [k \in 1..num_procs |-> k])
tilesize(shape) == [d \in DOMAIN shape |-> Ceil(shape[d], choose_nd_color_shape(shape)[d])]
\* FAULTY: a last, smaller tile gets no color.
Faulty_prepare(shape) ==
  IF \E d \in DOMAIN shape : tilesize(shape)[d] = 0 THEN Failure
  ELSE [part |-> tilesize(shape), colors |-> [d \in DOMAIN shape |-> shape[d] \div tilesize(shape)[d]]]
prepare_manual_task_for_batched_matrices(shape) ==
  IF \E d \in DOMAIN shape : tilesize(shape)[d] = 0 THEN Failure
  ELSE [part |-> tilesize(shape),
        colors |-> [d \in DOMAIN shape |-> Ceil(shape[d], tilesize(shape)[d])]]

\* The index tuples of a tile of a store of the given shape.
InTile(part, p, i) == \A d \in DOMAIN i : i[d] \div part[d] = p[d]
TileOf(shape, part, p) == { i \in Box(shape) : InTile(part, p, i) }
Launched(shape, tiling) == { TileOf(shape, tiling.part, p) : p \in Box(tiling.colors) }
\* The tiles of a factorisation of a stack of matrices, and its results' shapes.
Batched(shape, shapes) ==
  IF Last(shape) = 0 THEN [shapes |-> shapes, tiles |-> {}]
  ELSE LET tiling == prepare_manual_task_for_batched_matrices(shape)
       IN IF tiling = Failure THEN Failure ELSE [shapes |-> shapes, tiles |-> Launched(shape, tiling)]
OneTask(shape, shapes) == [shapes |-> shapes, tiles |-> { Box(shape) }]

eig(shape) == IF ~IsSquare(shape) THEN Failure ELSE Batched(shape, << Front(shape), shape >>)
eigvals(shape) == IF ~IsSquare(shape) THEN Failure ELSE Batched(shape, << Front(shape) >>)
UPLO_is_valid(UPLO) == UPLO \in {"L", "U"}
eigh(shape, UPLO) ==
  IF ~IsSquare(shape) \/ ~UPLO_is_valid(UPLO) THEN Failure ELSE Batched(shape, << Front(shape), shape >>)
eigvalsh(shape, UPLO) ==
  IF ~IsSquare(shape) \/ ~UPLO_is_valid(UPLO) THEN Failure ELSE Batched(shape, << Front(shape) >>)
Lesser(x, y) == IF x < y THEN x ELSE y
qr(shape) ==
  IF Len(shape) # 2 THEN Failure
  ELSE LET k == Lesser(shape[1], shape[2]) IN OneTask(shape, << << shape[1], k >>, << k, shape[2] >> >>)
svd(shape, full_matrices) ==
  IF Len(shape) # 2 THEN Failure
  ELSE IF shape[1] < shape[2] THEN Failure
  ELSE LET k == Lesser(shape[1], shape[2])
       IN OneTask(shape, << << shape[1], IF full_matrices THEN shape[1] ELSE k >>, << k >>,
                           << IF full_matrices THEN shape[2] ELSE k, shape[2] >> >>)

\* What the tasks of solve_batched leave in the result: the matrix that the right-hand sides of each
\* place of the stack were solved with, or Unset.
Leading(s) == SubSeq(s, 1, Len(s) - 2)
TileExtents(shape, part, p) ==
  [d \in DOMAIN shape |-> Cardinality({ x \in 0..(shape[d] - 1) : x \div part[d] = p[d] })]
SolvedIn(a, b, part, p, i) ==
  /\ InTile(Leading(part), Leading(p), i)
  /\ i \in Box(Leading(a))
  /\ TileExtents(Leading(a), Leading(part), Leading(p)) = TileExtents(Leading(b), Leading(part), Leading(p))
solve_batched(a, b) ==
  LET tiling == prepare_manual_task_for_batched_matrices(a)
  IN Build(Leading(b), LAMBDA i :
       IF \E p \in Box(tiling.colors) : SolvedIn(a, b, tiling.part, p, i) THEN i ELSE Unset)
solve_dispatch(a, b) == IF Len(b) # Len(a) THEN Failure ELSE solve_batched(a, b)
solve(a, b, out) ==
  IF Len(a) < 2 \/ Len(b) < 1 THEN Failure
  ELSE IF ~IsSquare(a) THEN Failure
  ELSE IF Len(a) = 2 /\ Last(a) # b[1] THEN Failure
  ELSE IF Len(a) > 2 /\ Len(a) # Len(b) THEN Failure
  ELSE IF Len(a) > 2 /\ Last(a) # b[IF Len(b) = 1 THEN 1 ELSE Len(b) - 1] THEN Failure
  ELSE IF Product(a) = 0 \/ Product(b) = 0 THEN Build(<< 0 >>, LAMBDA i : i)
  ELSE IF (IF out = None THEN FALSE ELSE out # b) THEN Failure
  ELSE solve_dispatch(a, IF Len(b) = 1 THEN Append(b, 1) ELSE b)

-----------------------------------------------------------------------------
(* tssvd, of matrices whose columns are orthogonal and have one element.   *)

Transposed(a) == transpose(a, << >>)
Diagonal(x) == [j \in 1..x.shape[1] |-> x.at[<< j - 1, j - 1 >>]]
Root(n) == CHOOSE r \in 0..n : r * r = n
\* What eigh returns of a diagonal matrix: eigenvalues in increasing order, signed unit vectors.
Orderings(d) == { p \in [DOMAIN d -> DOMAIN d] : IsInjective(p) /\ \A j \in 1..(Len(d) - 1) : d[p[j]] <= d[p[j + 1]] }
EigenVectors(p, signs) == Build(<< Len(p), Len(p) >>, LAMBDA i : IF p[i[2] + 1] = i[1] + 1 THEN signs[i[2] + 1] ELSE 0)
\* flip(argsort(svals))
Decreasing(svals) == Reverse(SetToSortSeq(DOMAIN svals, LAMBDA j, k : svals[j] < svals[k] \/ (svals[j] = svals[k] /\ j < k)))
OverRoots(x, svals) == [x EXCEPT !.at = [i \in DOMAIN x.at |-> x.at[i] \div svals[i[2] + 1]]]
rows(vt, d) == Build(vt.shape, LAMBDA i : vt.at[<< d[i[1] + 1] - 1, i[2] >>])
columns(u, d) == Build(u.shape, LAMBDA i : u.at[<< i[1], d[i[2] + 1] - 1 >>])
InOrder(u, svals, vt, d) == [u |-> columns(u, d), s |-> [j \in DOMAIN svals |-> svals[d[j]]], vt |-> rows(vt, d)]
Decomposed(a, svals, ev) ==
  InOrder(OverRoots(matmul(a, ev, None), svals), svals, Transposed(ev), Decreasing(svals))
tssvd(a, ew, ev) ==
  IF Ndim(a) # 2 \/ Size(a) <= 1 THEN Failure
  ELSE IF \E j \in DOMAIN ew : ew[j] = 0 THEN Failure
  ELSE Decomposed(a, [j \in DOMAIN ew |-> Root(ew[j])], ev)

-----------------------------------------------------------------------------
(* The calls.                                                              *)

MatrixPower == Idle /\ \E a \in Factors, n \in Exponents :
  Call([fn |-> "matrix_power", a |-> a, n |-> n], matrix_power(a, n))
MultiDot == Idle /\ \E arrays \in Chains, out \in OutShapes :
  Call([fn |-> "multi_dot", arrays |-> arrays, out |-> out], multi_dot(arrays, out))
Norm == Idle /\ \E a \in Signed, ord \in Orders1, axis \in NormAxes, keepdims \in BOOLEAN :
  Call([fn |-> "norm", a |-> a, ord |-> ord, axis |-> axis, keepdims |-> keepdims], norm(a, ord, axis, keepdims))
Expm == Idle /\ \E s \in StackShapes, n \in ExpNorms :
  Call([fn |-> "expm", shape |-> s, norm |-> n], [exps |-> expm(s, n)])
Eig == Idle /\ \E s \in StackShapes, f \in {"eig", "eigvals"} :
  Call([fn |-> f, shape |-> s], IF f = "eig" THEN eig(s) ELSE eigvals(s))
Eigh == Idle /\ \E s \in StackShapes, f \in {"eigh", "eigvalsh"}, u \in {"L", "U", "M"} :
  Call([fn |-> f, shape |-> s, UPLO |-> u], IF f = "eigh" THEN eigh(s, u) ELSE eigvalsh(s, u))
Qr == Idle /\ \E s \in StackShapes : Call([fn |-> "qr", shape |-> s], qr(s))
Svd == Idle /\ \E s \in StackShapes, full \in BOOLEAN : Call([fn |-> "svd", shape |-> s, full |-> full], svd(s, full))
Solve == Idle /\ \E s, t \in StackShapes, out \in OutShapes :
  Call([fn |-> "solve", shape |-> s, b |-> t, out |-> out], solve(s, t, out))
TssvdOf(a, d) ==
  \E p \in Orderings(d), signs \in [DOMAIN d -> {-1, 1}] :
    Call([fn |-> "tssvd", a |-> a], tssvd(a, [j \in DOMAIN d |-> d[p[j]]], EigenVectors(p, signs)))
Tssvd == Idle /\ \E a \in Talls : TssvdOf(a, IF Ndim(a) = 2 THEN Diagonal(matmul(Transposed(a), a, None)) ELSE << >>)

MatrixNext == MatrixPower \/ MultiDot \/ Norm \/ Expm \/ Eig \/ Eigh \/ Qr \/ Svd \/ Solve \/ Tssvd

-----------------------------------------------------------------------------
(* What the library promises.                                              *)

Identity2(a) == Build(a.shape, LAMBDA i : IF i[Len(i) - 1] = Last(i) THEN 1 ELSE 0)
PowerOf(a, n) == FoldLeft(LAMBDA p, k : MatrixProduct(p, a), Identity2(a), [k \in 1..n |-> k])
\* The loop over the bits of an exponent multiplies each factor in once: matrix_power(a, n) is the
\* product of n factors, of stacks, too, and of exponents with every pattern of bits.
PowersAreProducts ==
  call.fn = "matrix_power" =>
    IF ~IsSquare(call.a.shape) \/ call.n < 0 THEN result = Failure ELSE result = PowerOf(call.a, call.n)

\* The cost of a bracketing, and of the best one.
RECURSIVE CostOf(_, _, _, _), BestCost(_, _, _)
CostOf(order, p, i, j) ==
  IF i = j THEN 0
  ELSE CostOf(order, p, i, order[<< i, j >>]) + CostOf(order, p, order[<< i, j >>] + 1, j)
       + p[i] * p[order[<< i, j >>] + 1] * p[j + 1]
BestCost(p, i, j) ==
  IF i = j THEN 0
  ELSE Cheapest({ BestCost(p, i, k) + BestCost(p, k + 1, j) + p[i] * p[k + 1] * p[j + 1] : k \in i..(j - 1) })
ChainFits(arrays) ==
  /\ Len(arrays) > 1
  /\ \A i \in DOMAIN arrays : Ndim(arrays[i]) = 2 \/ (i \in {1, Len(arrays)} /\ Ndim(arrays[i]) = 1)
  /\ \A i \in 1..(Len(arrays) - 1) : Last(arrays[i].shape) = arrays[i + 1].shape[1]
ProductOf(arrays) == FoldLeft(DotProduct, Head(arrays), Tail(arrays))
\* multi_dot computes the product of its operands, whatever order it brackets them in, and the order
\* of four operands or more costs no more multiplications than any other.
MultiDotIsCheapest ==
  call.fn = "multi_dot" /\ ChainFits(call.arrays) =>
      /\ Agrees(ProductOf(call.arrays), call.out)
      /\ Len(call.arrays) > 3 =>
           LET p == ExtentsOf(Widened(call.arrays))
           IN CostOf(_multi_dot_matrix_chain_order(p), p, 1, Len(call.arrays)) = BestCost(p, 1, Len(call.arrays))

\* The norm of the elements xs of a vector, and of a matrix of rows M.
ExtremeOf(S, greatest) == CHOOSE x \in S : \A y \in S : IF greatest THEN y <= x ELSE x <= y
AbsOf(v) == IF v < 0 THEN -v ELSE v
VectorNorm(xs, ord) ==
  CASE ord \in {"inf", "-inf"} -> << ExtremeOf({ AbsOf(xs[k]) : k \in DOMAIN xs }, ord = "inf"), 1 >>
    [] ord = "0" -> << Cardinality({ k \in DOMAIN xs : xs[k] # 0 }), 1 >>
    [] ord = "1" -> << SumOf([k \in DOMAIN xs |-> AbsOf(xs[k])]), 1 >>
    [] ord \in {"-1", "-2"} ->
         LET n == IF ord = "-1" THEN 1 ELSE 2
         IN << IF \E k \in DOMAIN xs : xs[k] = 0 THEN NormPole
               ELSE SumOf([k \in DOMAIN xs |-> ToThe(NormUnit \div AbsOf(xs[k]), n)]), -n >>
    [] ord = "p" -> << SumOf([k \in DOMAIN xs |-> ToThe(AbsOf(xs[k]), Power)]), Power >>
    [] OTHER -> << SumOf([k \in DOMAIN xs |-> xs[k] * xs[k]]), 2 >>
MatrixNorm(M, ord) ==
  LET colsum(c) == SumOf([r \in DOMAIN M |-> AbsOf(M[r][c])])
      rowsum(r) == SumOf([c \in DOMAIN M[r] |-> AbsOf(M[r][c])])
  IN CASE ord \in {"1", "-1"} -> << ExtremeOf({ colsum(c) : c \in DOMAIN M[1] }, ord = "1"), 1 >>
       [] ord \in {"inf", "-inf"} -> << ExtremeOf({ rowsum(r) : r \in DOMAIN M }, ord = "inf"), 1 >>
       [] OTHER -> << SumOf([r \in DOMAIN M |-> SumOf([c \in DOMAIN M[r] |-> M[r][c] * M[r][c]])]), 2 >>
\* The dimensions that are reduced; index i of the result, with or without those.
NormDims(c) == IF c.axis = None THEN [d \in DOMAIN c.a.shape |-> d] ELSE Dims(c.axis, Ndim(c.a))
At(i, dims, ks, keepdims) ==
  IF keepdims THEN [d \in DOMAIN i |-> IF \E j \in DOMAIN dims : dims[j] = d
                                      THEN ks[CHOOSE j \in DOMAIN dims : dims[j] = d] ELSE i[d]]
  ELSE FoldLeft(LAMBDA t, j : InsertAt(t, dims[j], ks[j]), i,
                SetToSortSeq(DOMAIN dims, LAMBDA j, k : dims[j] < dims[k]))
NormAt(c, dims, i) ==
  IF Len(dims) = 1
  THEN VectorNorm([k \in 1..c.a.shape[dims[1]] |-> c.a.at[At(i, dims, << k - 1 >>, c.keepdims)]], c.ord)
  ELSE MatrixNorm([r \in 1..c.a.shape[dims[1]] |-> [k \in 1..c.a.shape[dims[2]] |->
                     c.a.at[At(i, dims, << r - 1, k - 1 >>, c.keepdims)]]], c.ord)
NormOrders(n) == IF n = 1 THEN {"None", "inf", "-inf", "0", "1", "2", "-1", "-2", "p"} ELSE {"None", "fro", "1", "-1", "inf", "-inf"}
Flat(c) == c.axis = None /\ (c.ord = "None" \/ (c.ord = "fro" /\ Ndim(c.a) = 2))
NormDefined(c) ==
  IF c.axis = None THEN Ndim(c.a) \in {1, 2} /\ c.ord \in NormOrders(Ndim(c.a))
  ELSE AxesFit(c.axis, Ndim(c.a)) /\ Len(c.axis) <= 2 /\ c.ord \in NormOrders(Len(c.axis))
NormIsRight(c) ==
  /\ OK(result)
  /\ result.shape = ReducedShape(c.a.shape, ToSet(NormDims(c)), c.keepdims)
  /\ \A i \in DOMAIN result.at : result.at[i] = NormAt(c, NormDims(c), i)
\* norm reduces the axes it is given in the order it is given them, through two reductions the second
\* of which has to allow for the axis that the first one removed, as NumPy does; except the
\* Frobenius norm over axes in decreasing order (linalg.py:931, test_norm.py:91).  Vectors have a norm
\* of any order (test_norm.py:24), matrices none of order 2, -2 or "nuc" ("requires SVD decomposition").
NormIsNumpy ==
  call.fn = "norm" =>
    IF Flat(call)
    THEN /\ Size(result) = 1 
         /\ \A i \in DOMAIN result.at :
              result.at[i] = << SumOf([n \in 1..Size(call.a) |-> Elements(call.a)[n] * Elements(call.a)[n]]), 2 >>
    ELSE IF ~NormDefined(call) THEN result = Failure
    ELSE \/ Len(NormDims(call)) = 2 /\ NormDims(call)[1] > NormDims(call)[2] /\ call.ord \in {"None", "fro"}
         \/ NormIsRight(call)

\* expm: whatever degree the norm selects, and however often the result is squared, the rational
\* function is the exponential up to the third power, the highest that N has.
ExpmIsExponential ==
  call.fn = "expm" =>
    IF ~IsSquare(call.shape) \/ Product(call.shape) <= 1 THEN result.exps = Failure
    ELSE \A i \in DOMAIN result.exps : result.exps[i] = << Integer(1), Integer(1), << 1, 2 >>, << 1, 6 >> >>

\* The eigenvalue functions split a stack over the processors without cutting through a matrix: every
\* matrix is whole in exactly one tile, there are no more tiles than processors, and only stacks
\* without matrices are refused besides what NumPy refuses.
MatricesStayWhole ==
  call.fn \in {"eig", "eigvals", "eigh", "eigvalsh"} =>
    IF ~OK(result)
    THEN \/ ~IsSquare(call.shape)
         \/ Product(Leading(call.shape)) = 0
         \/ call.fn \in {"eigh", "eigvalsh"} /\ call.UPLO = "M"
    ELSE /\ Cardinality(result.tiles) <= num_procs
         /\ Last(call.shape) # 0 =>
              \A i \in Box(Leading(call.shape)) :
                Cardinality({ t \in result.tiles :
                  \A r, c \in 0..(Last(call.shape) - 1) : i \o << r, c >> \in t }) = 1
         /\ \A s, t \in result.tiles : s = t \/ s \cap t = {}

\* The tasks of solve: each system is solved, by the tile that has its own matrix, when the leading
\* extents of the operands agree; solve itself does not compare them (linalg.py:448).
SystemsAreSolved ==
  call.fn = "solve" =>
    LET b == IF Len(call.b) = 1 THEN Append(call.b, 1) ELSE call.b
    IN OK(result) /\ Product(call.shape) # 0 /\ Product(b) # 0 /\ Leading(call.shape) = Leading(b) =>
         \A i \in Box(Leading(b)) : result.at[i] = i

\* The factors that qr and svd return can be multiplied, give a matrix of the operand's shape, and
\* are no larger than needed, or square.
FactorsCompose ==
  /\ call.fn = "qr" /\ OK(result) =>
       /\ << result.shapes[1][1], result.shapes[2][2] >> = call.shape
       /\ result.shapes[1][2] = result.shapes[2][1]
       /\ result.shapes[1][2] = (IF call.shape[1] < call.shape[2] THEN call.shape[1] ELSE call.shape[2])
  /\ call.fn = "svd" /\ OK(result) =>
       /\ << result.shapes[1][1], result.shapes[3][2] >> = call.shape
       /\ result.shapes[2] = << call.shape[2] >>
       /\ IF call.full
          THEN IsSquare(result.shapes[1]) /\ IsSquare(result.shapes[3])
          ELSE result.shapes[1][2] = result.shapes[2][1] /\ result.shapes[3][1] = result.shapes[2][1]

\* tssvd: whatever signs and whichever order of equal eigenvalues eigh chooses, the three results
\* multiply to the operand, the singular values decrease, and the columns of u are orthonormal.
TssvdIsSvd ==
  call.fn = "tssvd" /\ OK(result) =>
    /\ \A j \in 1..(Len(result.s) - 1) : result.s[j] >= result.s[j + 1]
    /\ \A i \in DOMAIN call.a.at :
         call.a.at[i] = SumOf([k \in DOMAIN result.s |->
                                 result.u.at[<< i[1], k - 1 >>] * result.s[k] * result.vt.at[<< k - 1, i[2] >>]])
    /\ MatrixProduct(Transposed(result.u), result.u) = Eye(Len(result.s))

\* The products of the module linalg_mvp and those built from them: every way in which the modes of the
\* operands are named, matched, undoubled and summed out gives the sum of products that the call is for.
ProductsAreExact ==
  /\ ProductsAreNumpy
  /\ OuterIsNumpy
  /\ EinsumIsSum
  /\ PowersAreProducts
  /\ MultiDotIsCheapest

\* The functions of a matrix or of a stack of them: each result has the form that its use requires, each
\* matrix of a stack is in one task with what belongs to it, and what is computed from factors and powers
\* is the function asked for.
MatricesAreServed ==
  /\ NormIsNumpy
  /\ ExpmIsExponential
  /\ MatricesStayWhole
  /\ SystemsAreSolved
  /\ FactorsCompose
  /\ TssvdIsSvd
=============================================================================
