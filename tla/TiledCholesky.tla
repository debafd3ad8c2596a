--------------------------- MODULE TiledCholesky ---------------------------
(***************************************************************************)
(* The tiled Cholesky factorisation of cuPyNumeric (linalg/_cholesky.py).  *)
(* Python submits launches of point tasks in the order of its loops and    *)
(* does not wait for them; the runtime may run a point as soon as no point *)
(* of an earlier launch that it conflicts with is still to run.            *)
(*                                                                         *)
(* A place in the program is <<i, k, step>>, and places are passed in      *)
(* lexicographic order.                                                    *)
(***************************************************************************)
EXTENDS Integers

CONSTANTS
  NumProcs,  \* runtime.num_procs, the possible values
  Extents,   \* extents of the matrix
  MinTile,   \* MIN_CHOLESKY_TILE_SIZE
  MinMatrix  \* MIN_CHOLESKY_MATRIX_SIZE

ASSUME ProcsAssumption == NumProcs \subseteq Nat \ {0}
ASSUME ExtentsAssumption == Extents \subseteq Nat \ {0}

VARIABLES
  n,        \* color_shape[0]
  at,       \* the next place in the program
  pending,  \* points submitted that have not run
  tile      \* contents of the tiles of p_output

vars == <<n, at, pending, tile>>

Block == INSTANCE BlockFactor

RoundingDivide(a, b) == (a + b - 1) \div b

\* choose_color_shape: the loop doubles num_tiles at most twice.
ChooseColors(procs, extent) ==
  IF procs = 1 \/ extent <= MinMatrix THEN 1
  ELSE LET enough(m) == RoundingDivide(extent, m) <= MinTile
       IN IF enough(procs) THEN procs
          ELSE IF enough(2 * procs) THEN 2 * procs
          ELSE 4 * procs

TileExtent(procs, extent) == RoundingDivide(extent, ChooseColors(procs, extent))

\* Faulty variant: the number of tiles is not adjusted to their extent.
ColorsUnadjusted(procs, extent) == ChooseColors(procs, extent)

\* color_shape[0]
Colors(procs, extent) == RoundingDivide(extent, TileExtent(procs, extent))

Tiles == Block!Tiles

\* The places of the program.
Copy == 0
Potrf == 1
Trsm == 2
Syrk == 3
Gemm == 4
Tril == 5
Done == 6
Before(a, b) ==
  \/ a[1] < b[1]
  \/ a[1] = b[1] /\ (a[2] < b[2] \/ (a[2] = b[2] /\ a[3] < b[3]))

\* A point of the launch at a place: it updates its tile and reads the tiles rhs.
Point(place, rc, rhs) == [at |-> place, tile |-> rc, rhs |-> rhs]

Init ==
  /\ \E procs \in NumProcs, extent \in Extents : n = Colors(procs, extent)
  /\ at = <<0, 0, Copy>>
  /\ pending = {}
  /\ tile = [rc \in Tiles |-> Block!Blank]

---------------------------------------------------------------------------
(* The main thread *)

Submit(points, place) ==
  /\ pending' = pending \union points
  /\ at' = place
  /\ UNCHANGED <<n, tile>>

TransposeCopy ==
  /\ at[3] = Copy
  /\ Submit({Point(at, rc, {}) : rc \in Tiles}, <<0, 0, Potrf>>)

\* potrf(i), the first statement of the loop over i
FactorDiagonal ==
  /\ at[3] = Potrf
  /\ LET i == at[1]
     IN Submit({Point(at, <<i, i>>, {})}, <<i, i, Trsm>>)

\* Faulty variant: the range starts a row too early.
RowsFromBefore(lo, hi) == (lo - 1)..(hi - 1)

\* Faulty variant: the last row is left out.
RowsButLast(lo, hi) == lo..(hi - 2)

\* The rows lo .. hi - 1 of a launch; an empty range launches nothing.
Rows(lo, hi) == lo..(hi - 1)

\* Faulty variant: the diagonal tile is not declared as an input of the task.
SolvePanelNoInput ==
  /\ at[3] = Trsm
  /\ LET i == at[1]
     IN Submit({Point(at, <<r, i>>, {}) : r \in Rows(i + 1, n)},
               IF i + 1 < n THEN <<i, i + 1, Syrk>> ELSE <<n, n, Tril>>)

\* trsm(i, i + 1, n), then the loop over k
SolvePanel ==
  /\ at[3] = Trsm
  /\ LET i == at[1]
     IN Submit({Point(at, <<r, i>>, {<<i, i>>}) : r \in Rows(i + 1, n)},
               IF i + 1 < n THEN <<i, i + 1, Syrk>> ELSE <<n, n, Tril>>)

\* syrk(k, i)
UpdateDiagonal ==
  /\ at[3] = Syrk
  /\ LET i == at[1]
         k == at[2]
     IN Submit({Point(at, <<k, k>>, {<<k, i>>})}, <<i, k, Gemm>>)

\* Faulty variant: the loop over k is a row too long.
AfterGemmTooLong(i, k) ==
  IF k + 1 <= n THEN <<i, k + 1, Syrk>> ELSE <<i + 1, i + 1, Potrf>>

\* The place after gemm(k, i, k + 1, n).
AfterGemm(i, k) ==
  IF k + 1 < n THEN <<i, k + 1, Syrk>> ELSE <<i + 1, i + 1, Potrf>>

\* gemm(k, i, k + 1, n)
UpdatePanel ==
  /\ at[3] = Gemm
  /\ LET i == at[1]
         k == at[2]
     IN Submit({Point(at, <<r, k>>, {<<r, i>>, <<k, i>>}) : r \in Rows(k + 1, n)},
               AfterGemm(i, k))

\* tril(n)
LowerTriangle ==
  /\ at[3] = Tril
  /\ Submit({Point(at, rc, {}) : rc \in Tiles}, <<n, n, Done>>)

Python ==
  \/ TransposeCopy \/ FactorDiagonal \/ SolvePanel
  \/ UpdateDiagonal \/ UpdatePanel \/ LowerTriangle

---------------------------------------------------------------------------
(* The runtime and the tasks *)

\* Points that may not run side by side: one writes what the other uses.
Conflict(t, u) == t.tile \in u.rhs \union {u.tile} \/ u.tile \in t.rhs

Ready(t) == \A u \in pending : Before(u.at, t.at) => ~Conflict(t, u)

\* The tile of point t after the task has run, the old contents given.
Effect(t, old) ==
  LET step == t.at[3]
  IN [stage |-> IF step = Copy THEN "input"
                ELSE IF step \in {Potrf, Trsm} THEN "factor" ELSE old.stage,
      sub |-> IF step = Copy THEN {}
              ELSE IF step \in {Syrk, Gemm} THEN old.sub \union {t.at[1]} ELSE old.sub,
      low |-> IF step = Copy THEN FALSE ELSE IF step = Tril THEN TRUE ELSE old.low]

Run(t) ==
  /\ Ready(t)
  /\ tile' = [tile EXCEPT ![t.tile] = Effect(t, @)]
  /\ pending' = pending \ {t}
  /\ UNCHANGED <<n, at>>

Task == \E t \in pending : Run(t)

\* cholesky has returned and everything has run.
Terminated == at[3] = Done /\ pending = {} /\ UNCHANGED vars

Next == Python \/ Task \/ Terminated

Spec == Init /\ [][Next]_vars /\ WF_vars(Python) /\ WF_vars(Task)

---------------------------------------------------------------------------
(* Properties *)

Stages == {"blank", "input", "factor"}
TypeOK ==
  /\ n \in Nat \ {0}
  /\ at \in (0..n) \X (0..n) \X (Copy..Done)
  /\ \A t \in pending :
       /\ t.at \in (0..n) \X (0..n) \X (Copy..Tril)
       /\ t.tile \in Tiles /\ t.rhs \subseteq Tiles
  /\ tile \in [Tiles -> [stage : Stages, sub : SUBSET (0..(n - 1)), low : BOOLEAN]]

\* The points of one launch, which the runtime does not order, leave each
\* other's tiles alone.
LaunchesIndependent ==
  \A t, u \in pending : t.at = u.at /\ t # u => ~Conflict(t, u)

\* The n tiles cover the matrix, and none of them is empty, whichever extent
\* and number of processors gave n.
TilesCover ==
  \A procs \in NumProcs, extent \in Extents :
    n = Colors(procs, extent) =>
      LET t == TileExtent(procs, extent)
      IN (n - 1) * t < extent /\ extent <= n * t

\* In whatever order the points run, each of them does what a step of the
\* factorisation may do: its operands are final, nothing is done twice.
ImplementsBlock == Block!Spec

\* In the end the lower triangle is factored, with every product subtracted.
Factored ==
  \A r, c \in 0..(n - 1) :
    /\ c <= r => tile[<<r, c>>] = [stage |-> "factor", sub |-> 0..(c - 1), low |-> TRUE]
    /\ r < c => tile[<<r, c>>].low
Terminates == <>[]Factored
=============================================================================
