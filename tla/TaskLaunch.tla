----------------------------- MODULE TaskLaunch -----------------------------
(***************************************************************************)
(* Launches of tasks over partitioned stores: what the library asks of     *)
(* Legate when it creates an AutoTask, and what Legate may do with it.     *)
(*                                                                         *)
(* A store is an array (NdArray) whose elements are cells of the memory,   *)
(* so that two stores overlap when they share a cell.  A launch names its  *)
(* arguments, their privileges, and the constraints on their partitions;   *)
(* Legate picks any partition that meets them and runs the pieces in any   *)
(* order.  A piece sees the elements of its own part of each argument.     *)
(***************************************************************************)
EXTENDS NdArray

CONSTANT
  Procs      \* the most pieces of a launch

\* What is read outside of a piece, and what a piece leaves of an output it does not write.
Garbage == -999

\* The cells of a store.
Cells(s) == { s.at[i] : i \in Box(s.shape) }
\* LogicalStore.overlaps and LogicalStore.equal_storage.
Overlaps(s, t) == Cells(s) \intersect Cells(t) # {}
EqualStorage(s, t) == Cells(s) = Cells(t)

In(s) == [priv |-> "in", arr |-> s]
Out(s) == [priv |-> "out", arr |-> s]
InOut(s) == [priv |-> "inout", arr |-> s]
Red(s, redop) == [priv |-> "red", arr |-> s, redop |-> redop]
Unbound == [priv |-> "unbound"]

\* The constraints: align, broadcast (of dimensions that count from 0), scale and bloat.
Align(x, y) == [kind |-> "align", of |-> {x, y}]
Broadcast(x, dims) == [kind |-> "broadcast", of |-> x, dims |-> dims]
ScaleBy(factors, small, big) ==
  [kind |-> "derived", of |-> big, from |-> small,
   part |-> [how |-> "scale", factors |-> factors]]
BloatBy(from, halo, lo, hi) ==
  [kind |-> "derived", of |-> halo, from |-> from, part |-> [how |-> "bloat", lo |-> lo, hi |-> hi]]
AllDims(s) == 0..(Ndim(s) - 1)

\* A ManualTask fixes the pieces; the second task of a scan counts on those of the first.
Manual(part) == [kind |-> "manual", part |-> part]
KeepPartition == [kind |-> "keep"]

\* p holds the scalar arguments.
Task(kernel, args, constraints, p) ==
  [kernel |-> kernel, args |-> args, constraints |-> constraints, p |-> p]

-----------------------------------------------------------------------------
(* The partitions that Legate may choose.                                  *)

Of(l, kind) == { c \in l.constraints : c.kind = kind }
Bound(l) == { x \in DOMAIN l.args : l.args[x].priv # "unbound" }
Derived(l) == { c.of : c \in Of(l, "derived") }
ShapeOf(l, x) == l.args[x].arr.shape

\* The arguments that are aligned with x, directly or through others.
AlignedWith(l, x) ==
  FoldLeft(LAMBDA S, n : S \union UNION { c.of : c \in { k \in Of(l, "align") : k.of \intersect S # {} } },
           {x}, [n \in 1..Cardinality(DOMAIN l.args) |-> n])

\* The dimensions of x that stay whole (counted from 1).
WholeDims(l, x) ==
  { d + 1 : d \in UNION { c.dims : c \in { b \in Of(l, "broadcast") : b.of \in AlignedWith(l, x) } } }

\* The pieces of a shape under a tile, in row-major order of their colors.
Colors(shape, tile) == [d \in DOMAIN shape |-> (shape[d] + tile[d] - 1) \div tile[d]]
Tiles(shape, tile) ==
  LET colors == Colors(shape, tile)
  IN [n \in 1..Product(colors) |->
        { i \in Box(shape) : [d \in DOMAIN shape |-> i[d] \div tile[d]] = IndexAt(colors, n - 1) }]

\* The ways to cut x in n pieces.  A store with nothing to cut is replicated, if another one is cut.
Cuttable(l, x) == \E d \in DOMAIN ShapeOf(l, x) \ WholeDims(l, x) : ShapeOf(l, x)[d] > 1
Tilings(l, x, n) ==
  LET shape == ShapeOf(l, x)
      free == DOMAIN shape \ WholeDims(l, x)
      tiles == { t \in Box([d \in DOMAIN shape |-> shape[d] + 2]) :
                   \A d \in DOMAIN shape :
                     /\ t[d] > 0
                     /\ d \notin free \/ shape[d] = 0 => t[d] = (IF shape[d] = 0 THEN 1 ELSE shape[d])
                     /\ t[d] <= (IF shape[d] = 0 THEN 1 ELSE shape[d]) }
      whole == [k \in 1..n |-> Box(shape)]
  IN IF n = 1 THEN { whole }
     ELSE IF ~Cuttable(l, x)
          THEN IF \E y \in AlignedWith(l, x) : l.args[y].priv \in {"out", "inout"} THEN {} ELSE { whole }
     ELSE { Tiles(shape, t) : t \in { u \in tiles : Product(Colors(shape, u)) = n } }

\* The part of a derived argument that goes with the part box of the argument it derives from.
DerivedPart(part, shape, box) ==
  IF part.how = "scale"
  THEN { i \in Box(shape) : [d \in DOMAIN shape |-> i[d] \div part.factors[d]] \in box }
  ELSE { i \in Box(shape) : \E j \in box :
           \A d \in DOMAIN shape : i[d] \in (j[d] - part.lo[d])..(j[d] + part.hi[d]) }

\* The partitions of a launch: for each argument its pieces, as many for every argument.
Partitions(l) ==
  LET roots == { x \in Bound(l) \ Derived(l) :
                   x = CHOOSE y \in AlignedWith(l, x) : TRUE }
      root(x) == CHOOSE y \in roots : x \in AlignedWith(l, y)
      cuts(n) == { f \in [roots -> UNION { Tilings(l, x, n) : x \in roots }] :
                     \A x \in roots : f[x] \in Tilings(l, x, n) }
      whole(f, x) ==
        IF x \notin Derived(l) THEN f[root(x)]
        ELSE LET c == CHOOSE k \in Of(l, "derived") : k.of = x
             IN [k \in DOMAIN f[root(c.from)] |->
                   DerivedPart(c.part, ShapeOf(l, x), f[root(c.from)][k])]
      most == IF \E x \in roots : Cuttable(l, x) THEN Procs ELSE 1
  IN UNION { { [x \in Bound(l) |-> whole(f, x)] : f \in cuts(n) } : n \in 1..most }

-----------------------------------------------------------------------------
(* The effect of one piece.                                                *)

MaxOf(x, y) == IF x > y THEN x ELSE y
MinOf(x, y) == IF x < y THEN x ELSE y
Bool(b) == IF b THEN 1 ELSE 0
\* ReductionOpKind; "OR" is ADD on booleans, "ARGMAX" and "ARGMIN" are MAX and MIN on pairs of a
\* value and its index (100 * value + index), of which the smaller index wins among equals.
Combine(redop, x, y) ==
  CASE redop = "ADD" -> x + y
    [] redop = "MUL" -> x * y
    [] redop = "MAX" -> MaxOf(x, y)
    [] redop = "MIN" -> MinOf(x, y)
    [] redop = "OR" -> Bool(x # 0 \/ y # 0)
    [] redop = "ARGMAX" -> IF x \div 100 > y \div 100 \/ (x \div 100 = y \div 100 /\ x < y) THEN x ELSE y
    [] redop = "ARGMIN" -> MinOf(x, y)

\* What piece c of l sees of argument x.
Seen(l, part, mem, x, c) == [i \in part[x][c] |-> mem[l.args[x].arr.at[i]]]

\* The memory after a piece: outputs that it does not write are lost, reductions are folded in.
\* wrote: for each output, the values written; reduced: pairs of an index and a contribution.
After(l, part, mem, c, wrote, reduced) ==
  LET outs == { x \in Bound(l) : l.args[x].priv \in {"out", "inout"} }
      reds == { x \in Bound(l) : l.args[x].priv = "red" }
      writes == UNION { { << l.args[x].arr.at[i], wrote[x][i] >> : i \in DOMAIN wrote[x] } : x \in outs }
      lost == UNION { { l.args[x].arr.at[i] : i \in part[x][c] \ DOMAIN wrote[x] }
                      : x \in { y \in outs : l.args[y].priv = "out" } }
      written == [k \in DOMAIN mem |->
                    IF \E w \in writes : w[1] = k THEN (CHOOSE w \in writes : w[1] = k)[2]
                    ELSE IF k \in lost THEN Garbage ELSE mem[k]]
      target == CHOOSE x \in reds : TRUE
      Fold(m, r) == LET k == l.args[target].arr.at[r[1]]
                    IN IF r[1] \in part[target][c]
                       THEN [m EXCEPT ![k] = Combine(l.args[target].redop, @, r[2])]
                       ELSE m
  IN IF reds = {} THEN written ELSE FoldLeft(Fold, written, reduced)
=============================================================================
