--------------------------- MODULE DeferredTasks ---------------------------
(***************************************************************************)
(* The operations of deferred arrays that launch tasks (ElementTasks,      *)
(* ContractTasks, SpecialTasks), run as Legate may run them: any partition *)
(* that meets a launch's constraints, its pieces in any order (TaskLaunch, *)
(* TaskKernels).  A behaviour is one call.  When its last launch has run,  *)
(* the result is compared with what NumPy returns for the same call.       *)
(***************************************************************************)
EXTENDS ContractTasks, SpecialTasks

CONSTANTS
  Contents,    \* the memory at the start
  Matrices,    \* operands of two dimensions, some of them views of others
  Vectors,     \* operands of one dimension
  Cubes,       \* operands of three dimensions
  Operands,    \* operands of contractions
  Mask,        \* zeros and ones, under the shape of the first matrix
  Result(_),   \* a fresh array for results, of any shape
  Width        \* the elements that packbits puts in a byte (8 in the code)

VARIABLES
  mem,     \* the memory
  call,    \* the operation called, its result and what NumPy returns
  todo,    \* the launches left
  part,    \* the partition of the launch at hand
  left,    \* its pieces that have not run
  made     \* what the pieces produced for outputs of unknown size

vars == << mem, call, todo, part, left, made >>

NoCall == [op |-> "none"]
Idle == call = NoCall

Init ==
  /\ mem = Contents
  /\ call = NoCall
  /\ todo = << >>
  /\ part = << >>
  /\ left = {}
  /\ made = << >>

\* The values of an array at the call.
Now(a) == Build(a.shape, LAMBDA i : mem[a.at[i]])

\* A call: its result res, the launches, and the value NumPy has at each index of the result
\* (or, for a result of unknown size, the sequence).
Call(op, res, tasks, want) ==
  /\ call' = [op |-> op, res |-> res, want |-> want, unsaved |-> FALSE]
  /\ todo' = tasks
  /\ UNCHANGED << mem, part, left, made >>

\* A call whose output may share cells with its operands: unsaved when one is overwritten while it is read.
CallInto(op, res, tasks, want, unsaved) ==
  /\ call' = [op |-> op, res |-> res, want |-> want, unsaved |-> unsaved]
  /\ todo' = tasks
  /\ UNCHANGED << mem, part, left, made >>
\* Some operand has the cells of the output, all or any of them, in other places.
Twisted(operands, res) == \E a \in operands : EqualStorage(a, res) /\ a # res
Shifted(operands, res) == \E a \in operands : Overlaps(a, res) /\ a # res

\* Legate picks a partition and the launch starts.
Start ==
  /\ todo # << >> /\ left = {} /\ Head(todo).kernel # "UNIQUE_REDUCE"
  /\ LET l == Head(todo)
         parts == IF Of(l, "manual") # {} THEN { c.part : c \in Of(l, "manual") }
                  ELSE IF Of(l, "keep") # {} THEN { part } ELSE Partitions(l)
     IN \E f \in parts :
          LET n == DOMAIN f[CHOOSE x \in Bound(l) : TRUE]
          IN /\ part' = f
             /\ left' = n
             /\ made' = IF Of(l, "keep") # {} THEN made ELSE [c \in n |-> << >>]
  /\ UNCHANGED << mem, call, todo >>

\* One piece of the launch runs.
RunPiece(c) ==
  /\ c \in left
  /\ LET l == Head(todo)
         V(x) == Seen(l, part, mem, x, c)
     IN /\ mem' = IF l.kernel = "SCAN_GLOBAL"
                  THEN After(l, part, mem, c, [lhs |-> Prefixed(part, c, made, V)], << >>)
                  ELSE After(l, part, mem, c, Wrote(l, part, c, V), Reduced(l, part, c, V))
        /\ made' = IF l.kernel \in {"NONZERO", "ARGWHERE", "UNIQUE", "SCAN_LOCAL"}
                   THEN [made EXCEPT ![c] = Made(l, part, c, V)] ELSE made
  /\ left' = left \ {c}
  /\ todo' = IF left = {c} THEN Tail(todo) ELSE todo
  /\ UNCHANGED << call, part >>

\* UNIQUE_REDUCE: two neighbours in the tree are merged, duplicates going away.
UniqueReduce ==
  /\ todo # << >> /\ Head(todo).kernel = "UNIQUE_REDUCE" /\ left = {}
  /\ IF Len(made) = 1 THEN todo' = Tail(todo) /\ UNCHANGED made
     ELSE /\ \E n \in 1..(Len(made) - 1) :
               made' = SubSeq(made, 1, n - 1) \o << Ascending(ToSet(made[n]) \union ToSet(made[n + 1])) >>
                       \o SubSeq(made, n + 2, Len(made))
          /\ UNCHANGED todo
  /\ UNCHANGED << mem, call, part, left >>

-----------------------------------------------------------------------------
(* The calls.  Operands are arrays of the application; results are fresh,  *)
(* or the array itself or a view of it where the library allows for that.  *)

Fits(a, shape) == Broadcastable(a.shape, shape)
\* The value of a, broadcast to shape, at i.
At(a, shape, i) == Now(BroadcastTo(a, shape)).at[i]
Want(shape, F(_)) == [i \in Box(shape) |-> F(i)]
\* The arrays that an output of a shape may be put in: a fresh one, and the application's.
Outputs(shape) == {Result(shape)} \union { a \in Matrices \union Vectors \union {Mask} : a.shape = shape }
First == CHOOSE a \in Matrices : a.shape = << 2, 3 >> /\ a.at[<< 0, 0 >>] = 0

UnaryOp ==
  /\ Idle
  /\ \E rhs, out \in Matrices :
       /\ Fits(rhs, out.shape)
       /\ CallInto("unary", out, unary_op(out, "NEGATIVE", rhs, Failure),
                   Want(out.shape, LAMBDA i : -At(rhs, out.shape, i)), Twisted({rhs}, out))
\* modf, frexp: two outputs.
UnaryOpTwice ==
  /\ Idle
  /\ \E rhs \in Matrices :
       LET out == Result(rhs.shape)
           second == Temp(1, rhs.shape)
       IN \/ Call("unary", out, unary_op(out, "MODF", rhs, second), Want(rhs.shape, LAMBDA i : Now(rhs).at[i] % 3))
          \/ Call("unary", second, unary_op(out, "MODF", rhs, second), Want(rhs.shape, LAMBDA i : Now(rhs).at[i] \div 3))
BinaryOp ==
  /\ Idle
  /\ \E op \in {"SUBTRACT", "ISCLOSE"}, r1, r2, out \in Matrices \union {Result(<< 2, 3 >>)} :
       /\ Fits(r1, out.shape) /\ Fits(r2, out.shape)
       /\ CallInto("binary", out,
                   IF op = "ISCLOSE" THEN isclose(out, r1, r2) ELSE binary_op(out, op, r1, r2),
                   Want(out.shape, LAMBDA i : BinaryFunction(op, At(r1, out.shape, i), At(r2, out.shape, i))),
                   Twisted({r1, r2}, out))
Where ==
  /\ Idle
  /\ \E a, b \in Matrices :
       LET out == Result(<< 2, 3 >>)
       IN /\ Fits(a, out.shape) /\ Fits(b, out.shape)
          /\ Call("where", out, where(out, Mask, a, b),
                  Want(out.shape, LAMBDA i : IF Now(Mask).at[i] # 0 THEN At(a, out.shape, i) ELSE At(b, out.shape, i)))
Convert ==
  /\ Idle
  /\ \E a \in Matrices, to \in {"bool", "int"}, nan_op \in {"NOOP", "PROD", "SUM"} :
       LET out == Result(a.shape)
       IN Call("convert", out, convert(out, a, to, nan_op), Want(a.shape, LAMBDA i : Converted(to, nan_op, Now(a).at[i])))
\* choose(out=) takes any array of the shape, and saves no operand that overlaps it.
Choose ==
  /\ Idle
  /\ \E a, b \in Matrices, out \in Outputs(Mask.shape) :
       /\ Fits(a, out.shape) /\ Fits(b, out.shape)
       /\ CallInto("choose", out, choose(out, Mask, a, b),
                   Want(out.shape, LAMBDA i : At(IF Now(Mask).at[i] = 0 THEN a ELSE b, out.shape, i)),
                   Shifted({Mask, a, b}, out))
Select ==
  /\ Idle
  /\ \E a, b \in Matrices :
       LET out == Result(Mask.shape)
       IN /\ Fits(a, out.shape) /\ Fits(b, out.shape)
          /\ Call("select", out, select(out, << Mask, a >>, << a, b >>, 7),
                  Want(out.shape, LAMBDA i : IF Now(Mask).at[i] # 0 THEN At(a, out.shape, i)
                                             ELSE IF At(a, out.shape, i) # 0 THEN At(b, out.shape, i) ELSE 7))
Putmask ==
  /\ Idle
  /\ \E v, out \in Matrices :
       LET cond == SliceDim(Mask, 2, 0, out.shape[2])
       IN /\ out.shape[1] = 2 /\ Fits(v, out.shape)
          /\ CallInto("putmask", out, putmask(out, cond, v),
                      Want(out.shape, LAMBDA i : IF Now(cond).at[i] # 0 THEN At(v, out.shape, i) ELSE Now(out).at[i]),
                      Twisted({v}, out))
Trilu ==
  /\ Idle
  /\ \E a \in Matrices, k \in -1..1, lower \in BOOLEAN :
       LET out == Result(a.shape)
           kept(i) == IF lower THEN i[2] <= i[1] + k ELSE i[2] >= i[1] + k
       IN Call("trilu", out, trilu(out, a, k, lower), Want(a.shape, LAMBDA i : IF kept(i) THEN Now(a).at[i] ELSE 0))

\* The indices of a that a reduction over axes folds into index i of its result.
Fibre(a, axes, keepdims, i) ==
  LET kept == Ascending({ d \in DOMAIN a.shape : d - 1 \notin axes })
  IN { j \in Box(a.shape) : \A n \in DOMAIN kept : j[kept[n]] = i[IF keepdims THEN kept[n] ELSE n] }
\* numpy's reductions, from the values in S, in the order of their indices.
Reduce(op, a, S, init) ==
  LET v == Now(a)
      best == CHOOSE j \in S : \A k \in S :
                \/ (IF op = "ARGMAX" THEN v.at[j] > v.at[k] ELSE v.at[j] < v.at[k])
                \/ v.at[j] = v.at[k] /\ Place(a.shape, j) <= Place(a.shape, k)
  IN CASE op \in {"SUM", "COUNT_NONZERO", "NANSUM", "SUM_SQUARES", "VARIANCE"} ->
            init + SumOver(S, LAMBDA j : Contribution([op |-> op, mean |-> 1], 0, v.at[j]))
       [] op \in {"PROD", "NANPROD"} -> FoldSet(LAMBDA j, x : Contribution([op |-> op], 0, v.at[j]) * x, init, S)
       [] op = "ALL" -> Bool(\A j \in S : v.at[j] # 0)
       [] op = "ANY" -> Bool(\E j \in S : v.at[j] # 0)
       [] op = "CONTAINS" -> Bool(\E j \in S : v.at[j] = 2)
       [] op = "MAX" -> FoldSet(LAMBDA j, x : MaxOf(v.at[j], x), init, S)
       [] op = "MIN" -> FoldSet(LAMBDA j, x : MinOf(v.at[j], x), init, S)
       [] op \in ArgReds -> best
ReducedShape(shape, axes, keepdims) ==
  IF keepdims THEN [d \in DOMAIN shape |-> IF d - 1 \in axes THEN 1 ELSE shape[d]]
  ELSE LET kept == Ascending({ d \in DOMAIN shape : d - 1 \notin axes }) IN [n \in DOMAIN kept |-> shape[kept[n]]]
\* The elements of a at 0 along axes, as a view.
FirstOf(a, axes, keepdims) ==
  FoldLeft(LAMBDA s, d : IF keepdims THEN SliceDim(s, d + 1, 0, 1) ELSE Project(s, d + 1, 0), a, SortedAxes(axes))

\* FAULTY: counts are folded like sums.
FaultyNonDecomposable == {"ALL", "ANY", "ARGMAX", "ARGMIN", "CONTAINS"}
\* perform_unary_reduction refuses several (not all) axes to these.
NonDecomposable == {"ALL", "ANY", "ARGMAX", "ARGMIN", "CONTAINS", "COUNT_NONZERO"}
UnaryReduction ==
  /\ Idle
  /\ \E a \in {First} \union Cubes, keepdims \in BOOLEAN,
        op \in {"SUM", "PROD", "MAX", "MIN", "ALL", "ANY", "COUNT_NONZERO", "CONTAINS", "NANSUM", "NANPROD",
                "SUM_SQUARES", "VARIANCE", "ARGMAX", "ARGMIN"} :
     \E axes \in (SUBSET (0..(Ndim(a) - 1))) \ {{}}, initial \in {Garbage, 5}, into \in BOOLEAN :
       LET shape == ReducedShape(a.shape, axes, keepdims)
           \* out=: the first of the operand along the axes, for one
           res == IF into THEN FirstOf(a, axes, keepdims) ELSE Result(shape)
           whole == Cardinality(axes) = Ndim(a)
           mask == IF a.shape = Mask.shape /\ initial = Garbage /\ op \notin ArgReds THEN Mask ELSE Failure
           start == IF initial = Garbage THEN IdentityOf(op) ELSE initial
           args == [mean |-> 1, value |-> 2]
           axis == CHOOSE x \in axes : TRUE
       IN /\ ~(Cardinality(axes) > 1 /\ ~whole /\ op \in NonDecomposable)
          /\ op \in ArgReds => initial = Garbage
          /\ into => op \in {"SUM", "ARGMAX"} /\ initial = Garbage
          /\ initial # Garbage => op \in {"SUM", "MAX"} /\ Ndim(a) = 2
          \* perform_scan and var take squares of the deviations over one axis or all of them
          /\ op = "VARIANCE" => whole \/ Cardinality(axes) = 1
          \* the output is filled before the operand is read, that of an arg-reduction written after
          /\ CallInto(IF op = "SUM_SQUARES" /\ Size(res) > 1 /\ Cardinality(axes) > 1 THEN "squares" ELSE "reduction",
                      res, unary_reduction(res, op, a, mask, axes, keepdims, args, initial),
                      Want(shape, LAMBDA i :
                        LET S == { j \in Fibre(a, axes, keepdims, i) : OK(mask) => Now(Mask).at[j] # 0 }
                            r == Reduce(op, a, S, start)
                        IN IF op \in ArgReds THEN IF whole THEN Place(a.shape, r) ELSE r[axis + 1] ELSE r),
                      into /\ op \notin ArgReds)
BinaryReduction ==
  /\ Idle
  /\ \E a, b \in Matrices, op \in {"EQUAL", "NOT_EQUAL", "ISCLOSE"} :
       LET out == Result(<< >>)
           shape == BroadcastShape({a.shape, b.shape})
           holds(i) == BinaryFunction(op, At(a, shape, i), At(b, shape, i)) # 0
       IN /\ Broadcasts({a.shape, b.shape})
          /\ Call("reduction", out, binary_reduction(out, op, a, b),
                  Want(<< >>, LAMBDA z : IF op = "NOT_EQUAL" THEN Bool(\E i \in Box(shape) : holds(i))
                                         ELSE Bool(\A i \in Box(shape) : holds(i))))

\* The sum over the modes that the result does not have; an operand that the output overlaps is saved.
Contract ==
  /\ Idle
  /\ \E a, b \in Operands, half, blas \in BOOLEAN :
     \E ma \in { s \in [DOMAIN a.shape -> 1..3] : IsInjective(s) }, mb \in { s \in [DOMAIN b.shape -> 1..3] : IsInjective(s) },
        lm \in { << >>, << 1 >>, << 2 >>, << 1, 2 >>, << 2, 1 >>, << 3, 1 >> } :
       LET extent(x) == IF x \in ToSet(ma) THEN a.shape[CHOOSE d \in DOMAIN ma : ma[d] = x]
                        ELSE b.shape[CHOOSE d \in DOMAIN mb : mb[d] = x]
           shape == [d \in DOMAIN lm |-> extent(lm[d])]
           modes == ToSet(ma) \union ToSet(mb)
           full == Ascending(modes)
           Pick(s, e) == [d \in DOMAIN s |-> e[CHOOSE n \in DOMAIN full : full[n] = s[d]]]
       IN /\ ToSet(lm) \subseteq modes
          /\ \A d \in DOMAIN ma, e \in DOMAIN mb : ma[d] = mb[e] => a.shape[d] = b.shape[e]
          \* no mode stands alone
          /\ \A x \in modes : Cardinality({ s \in {<< "l", lm >>, << "a", ma >>, << "b", mb >>} : x \in ToSet(s[2]) }) >= 2
          /\ half => blas
          /\ blas \/ << Len(lm), Len(ma), Len(mb) >> = << 0, 1, 1 >>
          /\ \E res \in {Result(shape)} \union { o \in Operands : o.shape = shape } :
               Call("contract", res, contract(res, lm, a, ma, b, mb, half, blas),
                  Want(shape, LAMBDA i :
                    SumOver({ e \in Box([n \in DOMAIN full |-> extent(full[n])]) : Pick(lm, e) = i },
                            LAMBDA e : Now(a).at[Pick(ma, e)] * Now(b).at[Pick(mb, e)])))

-----------------------------------------------------------------------------
(* Counts, searches and scans.                                             *)

Count(S) == Cardinality(S)
Bincount ==
  /\ Idle
  /\ \E a, w \in Vectors :
       LET res == Result(<< 1 + Max({ Now(a).at[i] : i \in Box(a.shape) }) >>)
       IN /\ Size(a) > 1 /\ \A i \in Box(a.shape) : Now(a).at[i] >= 0
          /\ \/ Call("count", res, bincount(res, a, Failure),
                     Want(res.shape, LAMBDA k : Count({ i \in Box(a.shape) : Now(a).at[i] = k[1] })))
             \/ /\ w.shape = a.shape
                /\ Call("count", res, bincount(res, a, w),
                        Want(res.shape, LAMBDA k :
                          SumOver({ i \in Box(a.shape) : Now(a).at[i] = k[1] }, LAMBDA i : Now(w).at[i])))
Sorted(a) == \A i, j \in Box(a.shape) : i[1] <= j[1] => Now(a).at[i] <= Now(a).at[j]
Histogram ==
  /\ Idle
  /\ \E a, bins \in Vectors :
       LET n == Size(bins) - 1
           res == Result(<< n >>)
           b == Now(bins).at
           in(x, k) == b[k] <= x /\ (x < b[<< k[1] + 1 >>] \/ (k[1] = n - 1 /\ x = b[<< n >>]))
       IN /\ n > 0 /\ Sorted(bins) /\ \A i, j \in Box(bins.shape) : i # j => b[i] # b[j]
          /\ Call("count", res, histogram(res, a, bins, a),
                  Want(<< n >>, LAMBDA k : SumOver({ i \in Box(a.shape) : in(Now(a).at[i], k) }, LAMBDA i : Now(a).at[i])))
Searchsorted ==
  /\ Idle
  /\ \E a \in Vectors, v \in Vectors \union Matrices, left_ \in BOOLEAN :
       LET res == Result(v.shape)
       IN /\ Sorted(a)
          /\ Call("search", res, searchsorted(res, a, v, left_),
                  Want(v.shape, LAMBDA i :
                    Count({ j \in Box(a.shape) : IF left_ THEN Now(a).at[j] < Now(v).at[i] ELSE Now(a).at[j] <= Now(v).at[i] })))
Found ==
  /\ Idle
  /\ \E a \in Matrices \union Vectors \union Cubes :
       LET none == Result(<< >>)
           hits == RowMajor(a.shape, { i \in Box(a.shape) : Now(a).at[i] # 0 })
       IN \/ Call("nonzero", none, nonzero(a), hits)
          \/ Call("nonzero", none, argwhere(a), hits)
          \/ Call("unique", none, unique(a), Ascending({ Now(a).at[i] : i \in Box(a.shape) }))
\* Along the last axis into the output itself, along others through a temporary.
Scan ==
  /\ Idle
  /\ \E a \in Matrices \union Vectors \union Cubes : \E axis \in 0..(Ndim(a) - 1), res \in Outputs(a.shape) :
       LET before(i) == { j \in Box(a.shape) : j[axis + 1] <= i[axis + 1] /\ \A d \in DOMAIN i : d = axis + 1 \/ j[d] = i[d] }
       IN CallInto("scan", res, scan(res, a, axis), Want(a.shape, LAMBDA i : SumOver(before(i), LAMBDA j : Now(a).at[j])),
                   axis = Ndim(a) - 1 /\ Shifted({a}, res))

-----------------------------------------------------------------------------
(* Neighbours, copies and turns.                                           *)

\* numpy.convolve(a, f, mode = "same"), in every dimension.
Convolve ==
  /\ Idle
  /\ \E a, f \in Matrices \union Vectors :
       LET res == Result(a.shape)
           \* the element of a that filter element g meets at i of the full convolution's middle
           met(i, g) == [d \in DOMAIN i |-> i[d] + (f.shape[d] - 1) \div 2 - g[d]]
       IN /\ Ndim(a) = Ndim(f) /\ Size(f) <= Size(a)
          /\ Call("convolve", res, convolve(res, a, f),
                  Want(a.shape, LAMBDA i : SumOver({ g \in Box(f.shape) : met(i, g) \in Box(a.shape) },
                                                   LAMBDA g : Now(a).at[met(i, g)] * Now(f).at[g])))
Packed(shape, axis) == [d \in DOMAIN shape |-> IF d = axis + 1 THEN (shape[d] + Width - 1) \div Width ELSE shape[d]]
Packbits ==
  /\ Idle
  /\ \E a \in Matrices \union Vectors, bitorder \in {"LITTLE", "BIG"} : \E axis \in 0..(Ndim(a) - 1) :
       LET out == Result(Packed(a.shape, axis))
           weight(k) == IF bitorder = "LITTLE" THEN 2^k ELSE 2^(Width - 1 - k)
           run(i) == { j \in Box(a.shape) : j[axis + 1] \div Width = i[axis + 1]
                                            /\ \A d \in DOMAIN i : d = axis + 1 \/ j[d] = i[d] }
       IN Call("packed", out, packbits(out, a, axis, bitorder, Width),
               Want(out.shape, LAMBDA i : SumOver(run(i), LAMBDA j : weight(j[axis + 1] % Width) * Bool(Now(a).at[j] # 0))))
Unpackbits ==
  /\ Idle
  /\ \E a \in Matrices \union Vectors, bitorder \in {"LITTLE", "BIG"} : \E axis \in 0..(Ndim(a) - 1) :
       LET out == Result([a.shape EXCEPT ![axis + 1] = @ * Width])
           weight(k) == IF bitorder = "LITTLE" THEN 2^k ELSE 2^(Width - 1 - k)
       IN /\ \A i \in Box(a.shape) : Now(a).at[i] \in 0..(2^Width - 1)
          /\ Call("packed", out, unpackbits(out, a, axis, bitorder, Width),
                  Want(out.shape, LAMBDA i : (Now(a).at[[i EXCEPT ![axis + 1] = @ \div Width]]
                                                \div weight(i[axis + 1] % Width)) % 2))
RepeatScalar ==
  /\ Idle
  /\ \E a \in Matrices \union Vectors : \E axis \in 0..(Ndim(a) - 1) :
       LET out == Result([a.shape EXCEPT ![axis + 1] = @ * 2])
       IN Call("packed", out, repeat(a, out, 2, axis),
               Want(out.shape, LAMBDA i : Now(a).at[[i EXCEPT ![axis + 1] = @ \div 2]]))
Turn ==
  /\ Idle
  /\ \E a \in Matrices \union Cubes : \E axes \in SUBSET (0..(Ndim(a) - 1)) :
       LET out == Result(a.shape)
       IN Call("turned", out, flip(out, a, axes),
               Want(a.shape, LAMBDA i : Now(a).at[[d \in DOMAIN i |-> IF d - 1 \in axes THEN a.shape[d] - 1 - i[d] ELSE i[d]]]))
Tile ==
  /\ Idle
  /\ \E a \in Matrices \union Vectors :
       LET shape == IF Ndim(a) = 1 THEN << 2, a.shape[1] >> ELSE [a.shape EXCEPT ![1] = @ * 2]
           out == Result(shape)
       IN Call("turned", out, tile(out, a),
               Want(shape, LAMBDA i : Now(a).at[[d \in DOMAIN a.shape |-> i[d + Len(i) - Ndim(a)] % a.shape[d]]]))
In1d ==
  /\ Idle
  /\ \E a, b \in Vectors, invert \in BOOLEAN :
       LET out == Result(a.shape)
       IN Call("turned", out, in1d(out, a, b, invert),
               Want(a.shape, LAMBDA i : Bool((Now(a).at[i] \in { Now(b).at[j] : j \in Box(b.shape) }) # invert)))
TakeTask ==
  /\ Idle
  /\ \E a \in Cubes, ind \in Vectors, clip \in BOOLEAN :
       LET m == ind.shape[1]
           temp == Result(<< a.shape[1], a.shape[2], m, a.shape[3] >>)
           n(j) == LET x == Now(ind).at[<< j >>]
                   IN IF clip THEN MaxOf(0, MinOf(x, a.shape[2] - 1)) ELSE IF x < 0 THEN x + a.shape[2] ELSE x
       IN /\ \A j \in 0..(m - 1) : ~clip => Now(ind).at[<< j >>] \in (-a.shape[2])..(a.shape[2] - 1)
          /\ Call("turned", Project(temp, 2, 0), _take_using_take_task(temp, a, ind, clip),
                  Want(<< a.shape[1], m, a.shape[3] >>, LAMBDA i : Now(a).at[<< i[1], n(i[2]), i[3] >>]))
\* A stand-in for the transform that reads what a transform reads: the lines along the axes.
Fft ==
  /\ Idle
  /\ \E a \in Matrices \union Cubes : \E axes \in (SUBSET (0..(Ndim(a) - 1))) \ {{}} :
       LET out == Result(a.shape)
           lines(i) == { j \in Box(a.shape) : \A d \in DOMAIN i : d - 1 \in axes \/ j[d] = i[d] }
       IN Call("turned", out, fft(out, a, axes),
               Want(a.shape, LAMBDA i : SumOver(lines(i), LAMBDA j : Now(a).at[j]) + 2 * Now(a).at[i]))

-----------------------------------------------------------------------------
(* Places that an index decides.                                           *)

\* ndarray._diag_helper turns a negative offset into a positive one of the transpose.
Diagonal ==
  /\ Idle
  /\ \/ \E a \in Matrices, offset \in 0..2, trace \in BOOLEAN :
          LET n == MinOf(a.shape[1], a.shape[2] - offset)
              res == Result(IF trace THEN << 1 >> ELSE << n >>)
          IN /\ n > 0
             /\ Call("places", res, _diag_helper(res, a, offset, 2, TRUE, trace),
                     Want(res.shape, LAMBDA i :
                       IF trace THEN SumOver(0..(n - 1), LAMBDA k : Now(a).at[<< k, k + offset >>])
                       ELSE Now(a).at[<< i[1], i[1] + offset >>]))
     \/ \E a \in Cubes, trace \in BOOLEAN :
          LET n == MinOf(a.shape[2], a.shape[3])
              res == Result(IF trace THEN << a.shape[1] >> ELSE << a.shape[1], n >>)
          IN Call("places", res, _diag_helper(res, a, 0, 2, TRUE, trace),
                  Want(res.shape, LAMBDA i :
                    IF trace THEN SumOver(0..(n - 1), LAMBDA k : Now(a).at[<< i[1], k, k >>])
                    ELSE Now(a).at[<< i[1], i[2], i[2] >>]))
     \/ \E v \in Vectors, k \in -1..1 :
          LET n == Size(v) + (IF k < 0 THEN -k ELSE k)
              res == Result(<< n, n >>)
              lead(i) == IF k > 0 THEN i[1] ELSE i[2]
          IN /\ Size(v) <= 3
             /\ Call("places", res, _diag_helper(res, v, k, 0, FALSE, FALSE),
                     Want(<< n, n >>, LAMBDA i : IF i[2] - i[1] = k THEN Now(v).at[<< lead(i) >>] ELSE 0))
Eye ==
  /\ Idle
  /\ \E shape \in { a.shape : a \in Matrices }, k \in -2..3 :
       LET res == Result(shape)
       IN Call("places", res, eye(res, k), Want(shape, LAMBDA i : Bool(i[2] - i[1] = k)))
Filled ==
  /\ Idle
  /\ \E shape \in { a.shape : a \in Matrices \union Vectors }, n \in {2, 3} :
       LET res == Result(shape)
           line == Result(<< n + 2 >>)
       IN \/ Call("places", line, arange(line, 5, n), Want(<< n + 2 >>, LAMBDA i : 5 + n * i[1]))
          \/ Call("places", res, random(res, n), Want(shape, LAMBDA i : 100 * n + Place(shape, i)))
          \/ Call("places", line, create_window(line, n + 2), Want(<< n + 2 >>, LAMBDA i : MinOf(i[1], n + 1 - i[1])))
          \/ Call("places", res, Fill(res, n), Want(shape, LAMBDA i : n))
Put ==
  /\ Idle
  /\ \E a \in Matrices, ind, v \in Vectors :
       LET place(j) == LET n == Now(ind).at[<< j >>] IN IF n < 0 THEN n + Size(a) ELSE n
           js == 0..(ind.shape[1] - 1)
           at(i) == { j \in js : place(j) = Place(a.shape, i) }
       IN /\ ind.shape = v.shape
          /\ \A j \in js : place(j) \in 0..(Size(a) - 1) /\ \A k \in js : place(j) = place(k) => j = k
          /\ Call("places", a, put(a, ind, v),
                  Want(a.shape, LAMBDA i : IF at(i) = {} THEN Now(a).at[i] ELSE Now(v).at[<< CHOOSE j \in at(i) : TRUE >>]))
Wrap ==
  /\ Idle
  /\ \E a \in Matrices \union Vectors, n \in {2, 7} :
       LET res == Result(<< n >>)
       IN Call("places", res, _wrap(res, a), Want(<< n >>, LAMBDA i : Elements(Now(a))[(i[1] % Size(a)) + 1]))

Next ==
  \/ UnaryOp \/ UnaryOpTwice \/ BinaryOp \/ Where \/ Convert \/ Choose \/ Select \/ Putmask \/ Trilu
  \/ UnaryReduction \/ BinaryReduction \/ Contract
  \/ Bincount \/ Histogram \/ Searchsorted \/ Found \/ Scan
  \/ Convolve \/ Packbits \/ Unpackbits \/ RepeatScalar \/ Turn \/ Tile \/ In1d \/ TakeTask \/ Fft
  \/ Diagonal \/ Eye \/ Filled \/ Put \/ Wrap
  \/ Start \/ (\E c \in left : RunPiece(c)) \/ UniqueReduce

Spec == Init /\ [][Next]_vars

-----------------------------------------------------------------------------
Done(ops) == call.op \in ops /\ todo = << >> /\ left = {}
Right == \A i \in DOMAIN call.want : mem[call.res.at[i]] = call.want[i]

\* Element-wise operations give NumPy's values in any order of the pieces, also when the output
\* overlaps an operand, which is saved first; except unsaved calls: an array's own transpose is not
\* saved (EqualStorage), and choose saves nothing.
ElementwiseIsNumpy ==
  Done({"unary", "binary", "where", "convert", "choose", "select", "putmask", "trilu"}) /\ ~call.unsaved => Right

\* A reduction over any axes, with a mask or an initial value, folds every element once into its
\* place, whatever the pieces; argmax and argmin find the first of the best, also when they are put
\* into a view of the operand.  Other reductions into such a view are unsaved calls.  Squares summed over
\* several but not all axes are not (SquaresAreNumpy): the second axis squares the sums again.
ReductionsAreNumpy == Done({"reduction"}) /\ ~call.unsaved => Right
SquaresAreNumpy == Done({"squares"}) => Right

\* A contraction is the sum over the modes that the result lacks, as a BLAS task, in batches, or
\* through a single-precision temporary, into a fresh array or one that overlaps an operand.
ContractionIsSum == Done({"contract"}) => Right

\* Counts add up over the pieces, and comparisons of whole arrays agree over them.
CountsAddUp == Done({"count", "search"}) => Right

\* What is found comes in the order of the array, not of the pieces' shapes; unique values come once.
FoundInOrder == Done({"nonzero", "unique"}) => FlattenSeq(made) = call.want

\* A scan holds the sums of all elements before, across pieces, also over its own operand; except
\* unsaved calls, along the last axis of an array that the output overlaps in other places.
ScanIsPrefix == Done({"scan"}) /\ ~call.unsaved => Right

\* The halo of a piece holds all that its convolution reads.
HaloSuffices == Done({"convolve"}) => Right

\* Pieces of packed and unpacked (or repeated) arrays correspond.
ScaledPieces == Done({"packed"}) => Right

\* Tasks that read anywhere in an operand see all of it.
WholeOperands == Done({"turned"}) => Right

\* What an index decides, and what is left alone, does not depend on the pieces.
PlacesByIndex == Done({"places"}) => Right

\* No two pieces of a launch write one cell, or one writes what another reads; except unsaved calls,
\* whose operands share cells with the output and are not copied.
PiecesIndependent ==
  (left # {} /\ ~call.unsaved) =>
    LET l == Head(todo)
        cells(x, c) == { l.args[x].arr.at[i] : i \in part[x][c] }
        writes == { x \in Bound(l) : l.args[x].priv \in {"out", "inout"} }
        reds == { x \in Bound(l) : l.args[x].priv = "red" }
    IN \A c, d \in DOMAIN part[CHOOSE x \in Bound(l) : TRUE] :
         c # d => /\ \A x \in writes, y \in Bound(l) : cells(x, c) \intersect cells(y, d) = {}
                  /\ \A x \in reds, y \in Bound(l) \ reds : cells(x, c) \intersect cells(y, d) = {}

\* Element-wise operations, reductions and contractions compute NumPy's result over every partition that
\* their constraints allow and in every order of the pieces: of operands that overlap the output too,
\* where the code saves them (unsaved calls, and squares over several axes, are left out).
TasksAreNumpy ==
  /\ ElementwiseIsNumpy
  /\ ReductionsAreNumpy
  /\ ContractionIsSum

\* The operations whose kernels need to know of the other pieces - what they counted, found or summed,
\* their edges, or a whole operand - get it from the constraints and the scalars they are launched with.
KernelsAreNumpy ==
  /\ CountsAddUp
  /\ FoundInOrder
  /\ ScanIsPrefix
  /\ HaloSuffices
  /\ ScaledPieces
  /\ WholeOperands
  /\ PlacesByIndex
=============================================================================
