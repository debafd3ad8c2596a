------------------------------ MODULE Products ------------------------------
(***************************************************************************)
(* One call of a function that multiplies arrays and sums the products.    *)
(* Each of them names the dimensions of its operands by letters, the       *)
(* modes, and hands them to _contract; einsum contracts its operands pair  *)
(* by pair, in the order that opt_einsum chooses.                          *)
(***************************************************************************)
EXTENDS Statistics

CONSTANTS
  Factors,      \* the arrays
  ContractAxes, \* the axes arguments of tensordot: << a number >> or a pair of sequences
  Formulas,     \* of einsum: the modes of the operands and of the result
  OutShapes     \* the shapes of the arrays that out= is given, or None

Lowercase == << "a", "b", "c" >>
Uppercase == << "A", "B", "C" >>
LastLower == << "x", "y", "z" >>

Ending(s, n) == SubSeq(s, Len(s) - n + 1, Len(s))
Modes(a, b, out) == [a |-> a, b |-> b, out |-> out]

\* FAULTY: the right operand of dot is contracted over its last dimension.
Faulty_dot_modes(m, n) ==
  LET a == SubSeq(Lowercase, 1, m)
      b == [SubSeq(Uppercase, 1, n) EXCEPT ![n] = a[m]]
  IN Modes(a, b, Front(a) \o Front(b))
dot_modes(m, n) ==
  LET a == SubSeq(Lowercase, 1, m)
      b == [SubSeq(Uppercase, 1, n) EXCEPT ![IF n = 1 THEN 1 ELSE n - 1] = a[m]]
  IN Modes(a, b, Front(a) \o (IF n = 1 THEN << >> ELSE SubSeq(b, 1, n - 2) \o << b[n] >>))

inner_modes(m, n) ==
  LET a == SubSeq(Lowercase, 1, m)
      b == [SubSeq(Uppercase, 1, n) EXCEPT ![n] = a[m]]
  IN Modes(a, b, Front(a) \o Front(b))

\* The leading dimensions of a stack of matrices share their letters, counted from the last.
matmul_modes(m, n) ==
  LET a == IF n >= 2 THEN [Ending(LastLower, m) EXCEPT ![m] = "A"] ELSE Ending(LastLower, m)
      b == IF n >= 2 THEN [Ending(LastLower, n) EXCEPT ![n - 1] = "A"] ELSE Ending(LastLower, n)
      pile == SubSeq(Ending(LastLower, IF m > n THEN m ELSE n), 1, (IF m > n THEN m ELSE n) - 2)
  IN Modes(a, b, IF n = 1 THEN Front(a)
                 ELSE IF m = 1 THEN SubSeq(b, 1, n - 2) \o << b[n] >>
                 ELSE pile \o << a[m - 1], b[n] >>)

convert_axes(axes, m, n) ==
  IF Len(axes) = 1 THEN << [j \in 1..axes[1] |-> m - axes[1] + j - 1], [j \in 1..axes[1] |-> j - 1] >>
  ELSE axes
\* Negative axes count from the end, once.
FromEnd(axes, n) == [j \in DOMAIN axes |-> IF axes[j] < 0 THEN axes[j] + n ELSE axes[j]]
AxesNamed(axes, n) ==
  /\ IsInjective(axes)
  /\ \A j \in DOMAIN axes : axes[j] \in 0..(n - 1)
Unnamed(modes, axes) ==
  LET rest == SelectSeq([d \in DOMAIN modes |-> d], LAMBDA d : d - 1 \notin ToSet(axes))
  IN [j \in DOMAIN rest |-> modes[rest[j]]]
Tied(a, b, x, y) ==
  LET tied == [d \in DOMAIN b |->
                 IF \E j \in DOMAIN y : y[j] = d - 1
                 THEN a[x[CHOOSE j \in DOMAIN y : y[j] = d - 1] + 1] ELSE b[d]]
  IN Modes(a, tied, Unnamed(a, x) \o Unnamed(tied, y))
tensordot_modes(m, n, axes) ==
  LET x == FromEnd(convert_axes(axes, m, n)[1], m)
      y == FromEnd(convert_axes(axes, m, n)[2], n)
  IN IF Len(x) # Len(y) \/ ~AxesNamed(x, m) \/ ~AxesNamed(y, n) THEN Failure
     ELSE Tied(SubSeq(Lowercase, 1, m), SubSeq(Uppercase, 1, n), x, y)

-----------------------------------------------------------------------------
(* _contract.  An operand is an array and the modes of its dimensions.     *)

Operand(a, modes) == [of |-> a, modes |-> modes]
Absent == Operand(None, << >>)
DimsOf(modes, m) == SelectSeq([d \in DOMAIN modes |-> d], LAMBDA d : modes[d] = m)
DimOf(modes, m) == CHOOSE d \in DOMAIN modes : modes[d] = m
WithoutMode(modes, m) == SelectSeq(modes, LAMBDA x : x # m)
Smallest(shape, dims) ==
  LET ext == { shape[dims[j]] : j \in DOMAIN dims } IN CHOOSE e \in ext : \A f \in ext : e <= f

\* ndarray._diag_helper: the other dimensions come first, the diagonal of the given ones last.
DiagonalLast(a, dims) ==
  LET rest == SelectSeq([d \in DOMAIN a.shape |-> d], LAMBDA d : d \notin ToSet(dims))
      back(i, d) == IF d \in ToSet(dims) THEN i[Len(i)] ELSE i[CHOOSE j \in DOMAIN rest : rest[j] = d]
  IN IF a.shape[dims[Len(dims)]] = 0 /\ Len(dims) = 2 THEN Build(<< 0 >>, LAMBDA i : 0)
     ELSE Build([j \in DOMAIN rest |-> a.shape[rest[j]]] \o << Smallest(a.shape, dims) >>,
                LAMBDA i : a.at[[d \in DOMAIN a.shape |-> back(i, d)]])
Collapsed(t, m) ==
  IF Len(DimsOf(t.modes, m)) < 2 THEN t
  ELSE Operand(DiagonalLast(t.of, DimsOf(t.modes, m)), Append(WithoutMode(t.modes, m), m))
Undoubled(t) == FoldLeft(Collapsed, t, t.modes)

Down(n) == [d \in 1..n |-> n + 1 - d]
\* Dimensions of extent 1 go, whatever the other operand has there.
Unstretched(t) ==
  IF t.of = None THEN t
  ELSE FoldLeft(LAMBDA u, d : IF u.of.shape[d] # 1 THEN u
                              ELSE Operand(squeeze(u.of, << d - 1 >>), RemoveAt(u.modes, d)),
                t, Down(Ndim(t.of)))

\* Modes that neither the other operand nor the result has.
SummedOut(t, others, out) ==
  FoldLeft(LAMBDA u, d : IF t.modes[d] \in ToSet(others \o out) THEN u
                         ELSE Operand(UnaryRed("SUM", 0, u.of, None, d, FALSE), RemoveAt(u.modes, d)),
           t, Down(Len(t.modes)))

\* mode2extent
Extents(t) == [m \in ToSet(t.modes) |-> t.of.shape[DimOf(t.modes, m)]]
Agree(f, g) == \A m \in DOMAIN f \cap DOMAIN g : f[m] = g[m]

\* The sum of what is at the index tuples of a shape.
Total(shape, Elt(_)) == SumOf([n \in 1..Product(shape) |-> Elt(IndexAt(shape, n - 1))])
Valued(t, value) == t.of.at[[d \in DOMAIN t.modes |-> value[t.modes[d]]]]
Assigned(modes, i, summed, k) ==
  [m \in ToSet(modes \o summed) |->
     IF m \in ToSet(modes) THEN i[DimOf(modes, m)] ELSE k[DimOf(summed, m)]]
\* The thunk's contract.
contract(modes, s, t, extent) ==
  LET summed == SelectSeq(s.modes, LAMBDA m : m \notin ToSet(modes))
  IN Build([d \in DOMAIN modes |-> extent[modes[d]]], LAMBDA i :
       Total([d \in DOMAIN summed |-> extent[summed[d]]], LAMBDA k :
         Valued(s, Assigned(modes, i, summed, k)) * Valued(t, Assigned(modes, i, summed, k))))

Shuffled(t, modes) == transpose(t.of, [d \in DOMAIN modes |-> DimOf(t.modes, modes[d]) - 1])
multiply(a, b) ==
  IF ~OK(a) \/ ~OK(b) THEN Failure
  ELSE IF ~Broadcasts({ a.shape, b.shape }) THEN Failure
  ELSE LET whole(x) == BroadcastTo(x, BroadcastShape({ a.shape, b.shape }))
       IN Build(BroadcastShape({ a.shape, b.shape }), LAMBDA i : whole(a).at[i] * whole(b).at[i])
\* One operand is left, or one of the two is a single value.
Combined(modes, s, t, extent) ==
  IF t.of = None THEN Shuffled(s, modes)
  ELSE IF s.modes = << >> THEN Shuffled(Operand(multiply(s.of, t.of), t.modes), modes)
  ELSE IF t.modes = << >> THEN Shuffled(Operand(multiply(s.of, t.of), s.modes), modes)
  ELSE contract(modes, s, t, extent)

\* The dimensions that were dropped come back, and stretch to those of out.
Delivered(c, bloated, shape) == BroadcastTo(reshape(c, bloated), shape)

Sized(s, t, out_modes, extent, shape) ==
  LET c_modes == SelectSeq(out_modes, LAMBDA m : m \in DOMAIN extent)
      bloated == [d \in DOMAIN out_modes |-> IF out_modes[d] \in DOMAIN extent THEN shape[d] ELSE 1]
  IN IF \E d \in DOMAIN out_modes :
          out_modes[d] \in DOMAIN extent /\ (shape[d] <= 1 \/ shape[d] # extent[out_modes[d]])
     THEN Failure
     ELSE Delivered(Combined(c_modes, s, t, extent), bloated, shape)
Matched(s, t, out_modes, out) ==
  LET extent == Extents(s) @@ Extents(t)
  IN IF ~Agree(Extents(s), Extents(t)) THEN Failure
     ELSE Sized(s, t, out_modes, extent,
                IF out # None THEN out
                ELSE [d \in DOMAIN out_modes |->
                        IF out_modes[d] \in DOMAIN extent THEN extent[out_modes[d]] ELSE 1])
Narrowed(s, t, out_modes, out) ==
  Matched(SummedOut(s, t.modes, out_modes), SummedOut(t, s.modes, out_modes), out_modes, out)

ModesFit(t) == IF t.of = None THEN t.modes = << >> ELSE Len(t.modes) = Ndim(t.of)
_contract(s, t, out_modes, out) ==
  IF s.of = Failure \/ t.of = Failure THEN Failure
  ELSE IF ~ModesFit(s) \/ ~ModesFit(t) THEN Failure
  ELSE IF ~IsInjective(out_modes) \/ ~(ToSet(out_modes) \subseteq ToSet(s.modes \o t.modes)) THEN Failure
  ELSE IF (IF out = None THEN FALSE ELSE Len(out) # Len(out_modes)) THEN Failure
  ELSE Narrowed(Unstretched(Undoubled(s)), Unstretched(Undoubled(t)), out_modes, out)

-----------------------------------------------------------------------------
(* The functions.                                                          *)

Contraction(modes, a, b, out) ==
  IF modes = Failure THEN Failure ELSE _contract(Operand(a, modes.a), Operand(b, modes.b), modes.out, out)
\* multiply with out=: its shape is the one that both operands and out broadcast to.
multiply_out(a, b, out) == IF out = None THEN multiply(a, b) ELSE BroadcastTo(multiply(a, b), out)

inner(a, b, out) ==
  IF Ndim(a) = 0 \/ Ndim(b) = 0 THEN multiply_out(a, b, out)
  ELSE Contraction(inner_modes(Ndim(a), Ndim(b)), a, b, out)
dot(a, b, out) ==
  IF Ndim(a) = 0 \/ Ndim(b) = 0 THEN multiply_out(a, b, out)
  ELSE Contraction(dot_modes(Ndim(a), Ndim(b)), a, b, out)
matmul(a, b, out) ==
  IF Ndim(a) = 0 \/ Ndim(b) = 0 THEN Failure
  ELSE Contraction(matmul_modes(Ndim(a), Ndim(b)), a, b, out)
vdot(a, b) == inner(ravel(a), ravel(b), None)
outer(a, b) == multiply(Promote(ravel(a), 2, 1), Promote(ravel(b), 1, 1))
tensordot(a, b, axes, out) == Contraction(tensordot_modes(Ndim(a), Ndim(b), axes), a, b, out)

\* opt_einsum: a mode has one extent besides 1, in all the operands.
ModesAgree(terms) ==
  \A p, q \in DOMAIN terms : \A d \in DOMAIN terms[p].modes, e \in DOMAIN terms[q].modes :
    terms[p].modes[d] = terms[q].modes[e] =>
      \/ terms[p].of.shape[d] = terms[q].of.shape[e]
      \/ terms[p].of.shape[d] = 1
      \/ terms[q].of.shape[e] = 1
\* A step keeps the modes that the result or an operand still needs, in the order of their names.
ModeNames == << "i", "j", "k" >>
Needed(s, t, others, out) ==
  SelectSeq(ModeNames, LAMBDA m : m \in ToSet(s.modes \o t.modes) /\ m \in ToSet(out \o others))

\* The pair at p > q is contracted, and its result appended.
RECURSIVE einsum(_, _, _, _)
Rest(terms, p, q) == RemoveAt(RemoveAt(terms, p), q)
OtherModes(terms) == FlattenSeq([n \in DOMAIN terms |-> terms[n].modes])
Step(terms, p, q, keep) == Operand(_contract(terms[p], terms[q], keep, None), keep)
einsum(terms, order, out_modes, out) ==
  IF \E n \in DOMAIN terms : terms[n].of = Failure THEN Failure
  ELSE IF Len(terms) = 1 THEN _contract(terms[1], Absent, out_modes, out)
  ELSE IF Len(terms) = 2 THEN _contract(terms[2], terms[1], out_modes, out)
  ELSE LET p == Head(order)[1]
           q == Head(order)[2]
           rest == Rest(terms, p, q)
       IN einsum(Append(rest, Step(terms, p, q, Needed(terms[p], terms[q], OtherModes(rest), out_modes))),
                 Tail(order), out_modes, out)

-----------------------------------------------------------------------------
(* The calls.                                                              *)

InnerCall == Idle /\ \E a, b \in Factors, out \in OutShapes :
  Call([fn |-> "inner", a |-> a, b |-> b, out |-> out], inner(a, b, out))
Dot == Idle /\ \E a, b \in Factors, out \in OutShapes :
  Call([fn |-> "dot", a |-> a, b |-> b, out |-> out], dot(a, b, out))
Matmul == Idle /\ \E a, b \in Factors, out \in OutShapes :
  Call([fn |-> "matmul", a |-> a, b |-> b, out |-> out], matmul(a, b, out))
Vdot == Idle /\ \E a, b \in Factors : Call([fn |-> "vdot", a |-> a, b |-> b], vdot(a, b))
Outer == Idle /\ \E a, b \in Factors : Call([fn |-> "outer", a |-> a, b |-> b], outer(a, b))
Tensordot == Idle /\ \E a, b \in Factors, axes \in ContractAxes, out \in OutShapes :
  Call([fn |-> "tensordot", a |-> a, b |-> b, axes |-> axes, out |-> out], tensordot(a, b, axes, out))
Fitting(formula) == { ops \in [DOMAIN formula.operands -> Factors] :
                        \A n \in DOMAIN ops : Ndim(ops[n]) = Len(formula.operands[n]) }
EinsumCall(formula, terms, order, out) ==
  Call([fn |-> "einsum", terms |-> terms, out_modes |-> formula.result, out |-> out],
       IF ModesAgree(terms) THEN einsum(terms, order, formula.result, out) ELSE Failure)
Terms(formula, ops) == [n \in DOMAIN ops |-> Operand(ops[n], formula.operands[n])]
Einsum == Idle /\ \E formula \in Formulas, first \in { << 2, 1 >>, << 3, 1 >>, << 3, 2 >> }, out \in OutShapes :
  \E ops \in Fitting(formula) :
    /\ Len(ops) < 3 => first = << 2, 1 >>
    /\ EinsumCall(formula, Terms(formula, ops), << first >>, out)

ProductNext == InnerCall \/ Dot \/ Matmul \/ Vdot \/ Outer \/ Tensordot \/ Einsum

-----------------------------------------------------------------------------
(* What NumPy computes.                                                    *)

Drop(s, d) == RemoveAt(s, d)
\* The dimension of b that dot and matmul sum over.
RowDim(b) == IF Ndim(b) = 1 THEN 1 ELSE Ndim(b) - 1
InnerProduct(a, b) ==
  LET m == Ndim(a) - 1
  IN Build(Front(a.shape) \o Front(b.shape), LAMBDA i :
       SumOf([k \in 1..Last(a.shape) |->
                a.at[SubSeq(i, 1, m) \o << k - 1 >>] * b.at[SubSeq(i, m + 1, Len(i)) \o << k - 1 >>]]))
DotProduct(a, b) ==
  LET m == Ndim(a) - 1
  IN Build(Front(a.shape) \o Drop(b.shape, RowDim(b)), LAMBDA i :
       SumOf([k \in 1..Last(a.shape) |->
                a.at[SubSeq(i, 1, m) \o << k - 1 >>]
                * b.at[InsertAt(SubSeq(i, m + 1, Len(i)), RowDim(b), k - 1)]]))
\* Stacks of matrices; a single line is a row on the left and a column on the right.
StackOf(a) == SubSeq(a.shape, 1, Ndim(a) - 2)
MatrixProducts(a, b, pile) ==
  LET s == BroadcastTo(a, pile \o Ending(a.shape, 2))
      t == BroadcastTo(b, pile \o Ending(b.shape, 2))
      front(i) == SubSeq(i, 1, Len(pile))
  IN Build(pile \o << a.shape[Ndim(a) - 1], Last(b.shape) >>, LAMBDA i :
       SumOf([k \in 1..Last(a.shape) |->
                s.at[front(i) \o << i[Len(i) - 1], k - 1 >>] * t.at[front(i) \o << k - 1, Last(i) >>]]))
AsRow(a) == IF Ndim(a) = 1 THEN Reshaped(a, << 1, Size(a) >>) ELSE a
AsColumn(b) == IF Ndim(b) = 1 THEN Reshaped(b, << Size(b), 1 >>) ELSE b
Trimmed(c, a, b) ==
  LET kept == SelectSeq([d \in DOMAIN c.shape |-> d],
                        LAMBDA d : ~(d = Ndim(c) /\ Ndim(b) = 1) /\ ~(d = Ndim(c) - 1 /\ Ndim(a) = 1))
  IN Reshaped(c, [j \in DOMAIN kept |-> c.shape[kept[j]]])
MatrixProduct(a, b) ==
  Trimmed(MatrixProducts(AsRow(a), AsColumn(b), BroadcastShape({ StackOf(AsRow(a)), StackOf(AsColumn(b)) })), a, b)
\* The axes of both arrays become one, the last of each.
Flattened(a, axes) ==
  LET rest == SelectSeq([d \in DOMAIN a.shape |-> d], LAMBDA d : d - 1 \notin ToSet(axes))
      order == rest \o [j \in DOMAIN axes |-> axes[j] + 1]
      moved == TransposeDims(a, order)
  IN Reshaped(moved, SubSeq(moved.shape, 1, Len(rest))
                     \o << Product(SubSeq(moved.shape, Len(rest) + 1, Ndim(a))) >>)
Positive(axes, n) == [j \in DOMAIN axes |-> axes[j] % n]
TensorProduct(a, b, x, y) == InnerProduct(Flattened(a, Positive(x, Ndim(a))), Flattened(b, Positive(y, Ndim(b))))

\* The extents that are summed over, as pairs.
Paired(c) ==
  CASE c.fn = "inner" -> << << Last(c.a.shape), Last(c.b.shape) >> >>
    [] c.fn \in {"dot", "matmul"} -> << << Last(c.a.shape), c.b.shape[RowDim(c.b)] >> >>
    [] c.fn = "vdot" -> << << Size(c.a), Size(c.b) >> >>
    [] OTHER -> LET axes == convert_axes(c.axes, Ndim(c.a), Ndim(c.b))
                IN [j \in DOMAIN axes[1] |-> << c.a.shape[(axes[1][j] % Ndim(c.a)) + 1],
                                               c.b.shape[(axes[2][j] % Ndim(c.b)) + 1] >>]
AxesAreAxes(c) ==
  LET axes == convert_axes(c.axes, Ndim(c.a), Ndim(c.b))
  IN /\ Len(axes[1]) = Len(axes[2])
     /\ AxesFit(axes[1], Ndim(c.a))
     /\ AxesFit(axes[2], Ndim(c.b))
Stacked(c) == c.fn = "matmul" => Broadcasts({ StackOf(AsRow(c.a)), StackOf(AsColumn(c.b)) })
Equal(c) == \A j \in DOMAIN Paired(c) : Paired(c)[j][1] = Paired(c)[j][2]
Stretchable(c) == \A j \in DOMAIN Paired(c) : Paired(c)[j][1] = Paired(c)[j][2] \/ 1 \in ToSet(Paired(c)[j])
Multiplied(c) ==
  CASE c.fn = "inner" -> InnerProduct(c.a, c.b)
    [] c.fn = "dot" -> DotProduct(c.a, c.b)
    [] c.fn = "matmul" -> MatrixProduct(c.a, c.b)
    [] c.fn = "vdot" -> InnerProduct(Reshaped(c.a, << Size(c.a) >>), Reshaped(c.b, << Size(c.b) >>))
    [] OTHER -> TensorProduct(c.a, c.b, convert_axes(c.axes, Ndim(c.a), Ndim(c.b))[1],
                              convert_axes(c.axes, Ndim(c.a), Ndim(c.b))[2])

\* NumPy's result r, where it has elements; an out of another shape gets it repeated, or nothing.
Agrees(r, out) ==
  \/ Size(r) = 0
  \/ out = None /\ result = r
  \/ out = r.shape /\ result = r
  \/ out # None /\ out # r.shape /\ result \in { Failure, BroadcastTo(r, out) }

Scalars(c) == Ndim(c.a) = 0 \/ Ndim(c.b) = 0
OutOf(c) == IF c.fn = "vdot" THEN None ELSE c.out
SingleProduct(c) == LET x == IF Ndim(c.a) = 0 THEN c.a ELSE c.b
                        y == IF Ndim(c.a) = 0 THEN c.b ELSE c.a
                    IN Elementwise(y, LAMBDA v : v * x.at[<< >>])

\* The module linalg_mvp: products of operands whose dimensions fit are those that NumPy computes, of
\* every mix of numbers of dimensions, of stacks and of axes; the others are refused, except where
\* one of the two extents is 1 and the operand is repeated (tests/integration/test_matmul.py:122).
ProductsAreNumpy ==
  call.fn \in {"inner", "dot", "matmul", "vdot", "tensordot"} =>
    IF call.fn = "tensordot" /\ ~AxesAreAxes(call) THEN result = Failure
    ELSE IF call.fn # "tensordot" /\ Scalars(call)
    THEN IF call.fn = "matmul" THEN result = Failure
         ELSE IF call.fn = "vdot" THEN TRUE ELSE Agrees(SingleProduct(call), call.out)
    ELSE IF ~Stacked(call) \/ ~Stretchable(call) THEN result = Failure
    ELSE Equal(call) => Agrees(Multiplied(call), OutOf(call))

\* outer pairs every element of one array with every element of the other, in row-major order.
OuterIsNumpy ==
  call.fn = "outer" =>
    /\ result.shape = << Size(call.a), Size(call.b) >>
    /\ \A i \in DOMAIN result.at : result.at[i] = Elements(call.a)[i[1] + 1] * Elements(call.b)[i[2] + 1]

\* The extent of mode m over all operands.
FullExtent(terms, m) ==
  LET ext == UNION { { terms[n].of.shape[d] : d \in { e \in DOMAIN terms[n].modes : terms[n].modes[e] = m } }
                     : n \in DOMAIN terms }
  IN IF ext = {1} THEN 1 ELSE CHOOSE e \in ext : e # 1
\* An operand of extent 1 is repeated.
Repeated(t, value) ==
  t.of.at[[d \in DOMAIN t.modes |-> IF t.of.shape[d] = 1 THEN 0 ELSE value[t.modes[d]]]]
DirectSum(terms, out_modes) ==
  LET all_modes == OtherModes(terms)
      summed == SelectSeq(ModeNames, LAMBDA m : m \in ToSet(all_modes) /\ m \notin ToSet(out_modes))
  IN Build([d \in DOMAIN out_modes |-> FullExtent(terms, out_modes[d])], LAMBDA i :
       Total([d \in DOMAIN summed |-> FullExtent(terms, summed[d])], LAMBDA k :
         Product([n \in DOMAIN terms |-> Repeated(terms[n], Assigned(out_modes, i, summed, k))])))
Rectangular(t) ==
  \A d, e \in DOMAIN t.modes : t.modes[d] = t.modes[e] => t.of.shape[d] = t.of.shape[e]

\* einsum: whichever pair opt_einsum contracts first, the result is the sum over all modes that the
\* result lacks of the products of all operands: no step drops a mode that a later one needs, or
\* sums one twice. Operands whose extents differ otherwise than by a 1 are refused.
EinsumIsSum ==
  call.fn = "einsum" =>
    IF ~ModesAgree(call.terms) THEN result = Failure
    ELSE (\A n \in DOMAIN call.terms : Rectangular(call.terms[n])) =>
           \/ \E n \in DOMAIN call.terms : Size(call.terms[n].of) = 0 /\ result = Failure
           \/ Agrees(DirectSum(call.terms, call.out_modes), call.out)
=============================================================================
