------------------------ MODULE TiledCholeskyProofs ------------------------
(***************************************************************************)
(* Proofs about the tiled Cholesky factorisation, for any extent of the    *)
(* matrix, number of processors and tile size, and any order of execution  *)
(* that the conflicts of the tasks leave to the runtime.                   *)
(***************************************************************************)
EXTENDS TiledCholesky, TLAPS

RowsOfTiles == 0..(n - 1)

\* The points of the whole program: what happens to tile <<r, c>>.
CopyOf(r, c) == Point(<<0, 0, Copy>>, <<r, c>>, {})
FactorOf(r, c) ==
  IF r = c THEN Point(<<c, c, Potrf>>, <<c, c>>, {})
  ELSE Point(<<c, c, Trsm>>, <<r, c>>, {<<c, c>>})
UpdateOf(r, c, j) ==
  IF r = c THEN Point(<<j, c, Syrk>>, <<c, c>>, {<<c, j>>})
  ELSE Point(<<j, c, Gemm>>, <<r, c>>, {<<r, j>>, <<c, j>>})
TrilOf(r, c) == Point(<<n, n, Tril>>, <<r, c>>, {})

IsCopy(t) == \E r, c \in RowsOfTiles : t = CopyOf(r, c)
IsFactor(t) == \E r, c \in RowsOfTiles : c <= r /\ t = FactorOf(r, c)
IsUpdate(t) == \E r, c, j \in RowsOfTiles : j < c /\ c <= r /\ t = UpdateOf(r, c, j)
IsTril(t) == \E r, c \in RowsOfTiles : t = TrilOf(r, c)
IsPoint(t) == IsCopy(t) \/ IsFactor(t) \/ IsUpdate(t) \/ IsTril(t)

Issued(t) == Before(t.at, at)
Ran(t) == Issued(t) /\ t \notin pending

\* Where the main thread may be.
PlaceOK ==
  \/ at = <<0, 0, Copy>>
  \/ \E i \in RowsOfTiles : at \in {<<i, i, Potrf>>, <<i, i, Trsm>>}
  \/ \E i, k \in RowsOfTiles : i < k /\ at \in {<<i, k, Syrk>>, <<i, k, Gemm>>}
  \/ at \in {<<n, n, Tril>>, <<n, n, Done>>}

PendingOK == \A t \in pending : IsPoint(t) /\ Issued(t)

\* Of two points in conflict the first submitted is the first to run.
Ordered ==
  \A t \in pending : \A u :
    IsPoint(u) /\ Before(t.at, u.at) /\ Conflict(t, u) => ~Ran(u)

\* A tile holds the effects of the points that have run on it.
Contents(r, c) ==
  [stage |-> IF ~Ran(CopyOf(r, c)) THEN "blank"
             ELSE IF c <= r /\ Ran(FactorOf(r, c)) THEN "factor" ELSE "input",
   sub |-> {j \in RowsOfTiles : j < c /\ c <= r /\ Ran(UpdateOf(r, c, j))},
   low |-> IF Ran(TrilOf(r, c)) THEN TRUE ELSE FALSE]

IInv ==
  /\ n \in Nat \ {0}
  /\ PlaceOK /\ PendingOK /\ Ordered
  /\ tile = [rc \in Tiles |-> Contents(rc[1], rc[2])]

---------------------------------------------------------------------------
(* Tiling *)

LEMMA DivideUp ==
  ASSUME NEW a \in Nat \ {0}, NEW b \in Nat \ {0}
  PROVE  /\ RoundingDivide(a, b) \in Nat \ {0}
         /\ a <= RoundingDivide(a, b) * b
         /\ (RoundingDivide(a, b) - 1) * b < a
<1> DEFINE q == (a + b - 1) \div b
<1>1. q \in Int /\ b * q <= a + b - 1 /\ a + b - 1 < b * q + b
  OBVIOUS
<1>2. q >= 1
  <2>1. CASE q <= 0
    <3>1. b * q <= 0
      BY <1>1, <2>1
    <3> QED
      BY <1>1, <3>1
  <2> QED
    BY <1>1, <2>1
<1>3. b * q = q * b /\ (q - 1) * b = q * b - b
  BY <1>1
<1> HIDE DEF q
<1>4. q \in Nat \ {0} /\ a <= q * b /\ (q - 1) * b < a
  BY <1>1, <1>2, <1>3
<1> QED
  BY <1>4 DEF q, RoundingDivide

LEMMA ColorsPositive ==
  ASSUME NEW procs \in NumProcs, NEW extent \in Extents
  PROVE  TileExtent(procs, extent) \in Nat \ {0} /\ Colors(procs, extent) \in Nat \ {0}
<1>1. procs \in Nat \ {0} /\ extent \in Nat \ {0}
  BY ProcsAssumption, ExtentsAssumption
<1>2. ChooseColors(procs, extent) \in {1, procs, 2 * procs, 4 * procs}
  BY DEF ChooseColors
<1>3. ChooseColors(procs, extent) \in Nat \ {0}
  BY <1>1, <1>2
<1> QED
  BY <1>1, <1>3, DivideUp DEF TileExtent, Colors

\* Whatever the extent and the number of processors, the tiles cover the
\* matrix and the last one is not empty.
THEOREM Tiling == Spec => []TilesCover
<1>1. TilesCover
  <2> SUFFICES ASSUME NEW procs \in NumProcs, NEW extent \in Extents,
                      n = Colors(procs, extent)
               PROVE  /\ (n - 1) * TileExtent(procs, extent) < extent
                      /\ extent <= n * TileExtent(procs, extent)
    BY DEF TilesCover
  <2> QED
    BY ColorsPositive, DivideUp, ExtentsAssumption DEF Colors
<1> QED
  BY <1>1, PTL

---------------------------------------------------------------------------
(* Points and places *)

\* The fields of a point, kind by kind.
LEMMA Fields ==
  ASSUME n \in Nat \ {0}, NEW t, IsPoint(t)
  PROVE  \/ \E r, c \in RowsOfTiles :
              t.at = <<0, 0, Copy>> /\ t.tile = <<r, c>> /\ t.rhs = {} /\ t = CopyOf(r, c)
         \/ \E c \in RowsOfTiles :
              /\ t.at = <<c, c, Potrf>> /\ t.tile = <<c, c>> /\ t.rhs = {}
              /\ t = FactorOf(c, c)
         \/ \E r, c \in RowsOfTiles :
              /\ c < r /\ t.at = <<c, c, Trsm>> /\ t.tile = <<r, c>> /\ t.rhs = {<<c, c>>}
              /\ t = FactorOf(r, c)
         \/ \E c, j \in RowsOfTiles :
              /\ j < c /\ t.at = <<j, c, Syrk>> /\ t.tile = <<c, c>> /\ t.rhs = {<<c, j>>}
              /\ t = UpdateOf(c, c, j)
         \/ \E r, c, j \in RowsOfTiles :
              /\ j < c /\ c < r /\ t.at = <<j, c, Gemm>> /\ t.tile = <<r, c>>
              /\ t.rhs = {<<r, j>>, <<c, j>>}
              /\ t = UpdateOf(r, c, j)
         \/ \E r, c \in RowsOfTiles :
              t.at = <<n, n, Tril>> /\ t.tile = <<r, c>> /\ t.rhs = {} /\ t = TrilOf(r, c)
<1>1. CASE IsCopy(t)
  <2>1. PICK r, c \in RowsOfTiles : t = CopyOf(r, c)
    BY <1>1 DEF IsCopy
  <2>2. t.at = <<0, 0, Copy>> /\ t.tile = <<r, c>> /\ t.rhs = {}
    BY <2>1 DEF CopyOf, Point
  <2> QED
    BY <2>1, <2>2
<1>2. CASE IsFactor(t)
  <2>1. PICK r, c \in RowsOfTiles : c <= r /\ t = FactorOf(r, c)
    BY <1>2 DEF IsFactor
  <2>2. CASE r = c
    <3>1. t.at = <<c, c, Potrf>> /\ t.tile = <<c, c>> /\ t.rhs = {}
      BY <2>1, <2>2 DEF FactorOf, Point
    <3> QED
      BY <2>1, <2>2, <3>1
  <2>3. CASE r # c
    <3>1. t.at = <<c, c, Trsm>> /\ t.tile = <<r, c>> /\ t.rhs = {<<c, c>>}
      BY <2>1, <2>3 DEF FactorOf, Point
    <3>2. c < r
      BY <2>1, <2>3 DEF RowsOfTiles
    <3> QED
      BY <2>1, <3>1, <3>2
  <2> QED
    BY <2>2, <2>3
<1>3. CASE IsUpdate(t)
  <2>1. PICK r, c, j \in RowsOfTiles : j < c /\ c <= r /\ t = UpdateOf(r, c, j)
    BY <1>3 DEF IsUpdate
  <2>2. CASE r = c
    <3>1. t.at = <<j, c, Syrk>> /\ t.tile = <<c, c>> /\ t.rhs = {<<c, j>>}
      BY <2>1, <2>2 DEF UpdateOf, Point
    <3> QED
      BY <2>1, <2>2, <3>1
  <2>3. CASE r # c
    <3>1. t.at = <<j, c, Gemm>> /\ t.tile = <<r, c>> /\ t.rhs = {<<r, j>>, <<c, j>>}
      BY <2>1, <2>3 DEF UpdateOf, Point
    <3>2. c < r
      BY <2>1, <2>3 DEF RowsOfTiles
    <3> QED
      BY <2>1, <3>1, <3>2
  <2> QED
    BY <2>2, <2>3
<1>4. CASE IsTril(t)
  <2>1. PICK r, c \in RowsOfTiles : t = TrilOf(r, c)
    BY <1>4 DEF IsTril
  <2>2. t.at = <<n, n, Tril>> /\ t.tile = <<r, c>> /\ t.rhs = {}
    BY <2>1 DEF TrilOf, Point
  <2> QED
    BY <2>1, <2>2
<1> QED
  BY <1>1, <1>2, <1>3, <1>4 DEF IsPoint

\* Converse: the points of each kind.
LEMMA Kinds ==
  ASSUME n \in Nat \ {0}, NEW r \in RowsOfTiles, NEW c \in RowsOfTiles
  PROVE  /\ IsPoint(CopyOf(r, c)) /\ CopyOf(r, c).at = <<0, 0, Copy>>
         /\ CopyOf(r, c).tile = <<r, c>>
         /\ IsPoint(TrilOf(r, c)) /\ TrilOf(r, c).at = <<n, n, Tril>>
         /\ TrilOf(r, c).tile = <<r, c>>
         /\ c <= r => /\ IsPoint(FactorOf(r, c)) /\ FactorOf(r, c).tile = <<r, c>>
                      /\ r = c => FactorOf(r, c).at = <<c, c, Potrf>>
                      /\ r # c => FactorOf(r, c).at = <<c, c, Trsm>>
         /\ \A j \in RowsOfTiles : j < c /\ c <= r =>
              /\ IsPoint(UpdateOf(r, c, j)) /\ UpdateOf(r, c, j).tile = <<r, c>>
              /\ r = c => UpdateOf(r, c, j).at = <<j, c, Syrk>>
              /\ r # c => UpdateOf(r, c, j).at = <<j, c, Gemm>>
<1>1. c <= r => IsPoint(FactorOf(r, c))
  BY DEF IsPoint, IsFactor
<1>2. \A j \in RowsOfTiles : j < c /\ c <= r => IsPoint(UpdateOf(r, c, j))
  BY DEF IsPoint, IsUpdate
<1>3. IsPoint(CopyOf(r, c)) /\ IsPoint(TrilOf(r, c))
  BY DEF IsPoint, IsCopy, IsTril
<1>4. /\ CopyOf(r, c).at = <<0, 0, Copy>> /\ CopyOf(r, c).tile = <<r, c>>
      /\ TrilOf(r, c).at = <<n, n, Tril>> /\ TrilOf(r, c).tile = <<r, c>>
  BY DEF CopyOf, TrilOf, Point
<1>5. /\ FactorOf(r, c).tile = <<r, c>>
      /\ r = c => FactorOf(r, c).at = <<c, c, Potrf>>
      /\ r # c => FactorOf(r, c).at = <<c, c, Trsm>>
  <2>1. CASE r = c
    BY <2>1 DEF FactorOf, Point
  <2>2. CASE r # c
    BY <2>2 DEF FactorOf, Point
  <2> QED
    BY <2>1, <2>2
<1>6. ASSUME NEW j \in RowsOfTiles
      PROVE  /\ UpdateOf(r, c, j).tile = <<r, c>>
             /\ r = c => UpdateOf(r, c, j).at = <<j, c, Syrk>>
             /\ r # c => UpdateOf(r, c, j).at = <<j, c, Gemm>>
  <2>1. CASE r = c
    BY <2>1 DEF UpdateOf, Point
  <2>2. CASE r # c
    BY <2>2 DEF UpdateOf, Point
  <2> QED
    BY <2>1, <2>2
<1> QED
  BY <1>1, <1>2, <1>3, <1>4, <1>5, <1>6

\* Places are triples of numbers.
LEMMA Places ==
  ASSUME n \in Nat \ {0}, NEW t, IsPoint(t)
  PROVE  t.at \in Nat \X Nat \X Nat
BY Fields DEF RowsOfTiles, Copy, Potrf, Trsm, Syrk, Gemm, Tril

LEMMA BeforeOrder ==
  ASSUME NEW a \in Nat \X Nat \X Nat, NEW b \in Nat \X Nat \X Nat, NEW c \in Nat \X Nat \X Nat
  PROVE  /\ ~Before(a, a)
         /\ Before(a, b) /\ Before(b, c) => Before(a, c)
         /\ Before(a, b) \/ Before(b, a) \/ a = b
BY DEF Before

LEMMA ConflictSymmetric ==
  ASSUME NEW t, NEW u, Conflict(t, u)
  PROVE  Conflict(u, t)
BY DEF Conflict

\* Points in one launch have different tiles and none reads another's.
LEMMA Independent ==
  ASSUME n \in Nat \ {0}, NEW t, IsPoint(t), NEW u, IsPoint(u), t.at = u.at, t # u
  PROVE  ~Conflict(t, u)
BY Fields DEF Conflict, RowsOfTiles, Copy, Potrf, Trsm, Syrk, Gemm, Tril

---------------------------------------------------------------------------
(* Submission *)

\* A launch of all points at the current place leaves the contents as they
\* are: its points are submitted and pending.
LEMMA SubmitPreserves ==
  ASSUME IInv, NEW points, NEW place, Submit(points, place), PlaceOK',
         \A t \in points : IsPoint(t) /\ t.at = at,
         \A t : IsPoint(t) => (Before(t.at, place) <=> Before(t.at, at) \/ t \in points)
  PROVE  IInv'
<1>1. /\ pending' = pending \union points /\ at' = place
      /\ n' = n /\ tile' = tile /\ n \in Nat \ {0}
  BY DEF Submit, IInv
<1>2. /\ \A t : IsPoint(t)' <=> IsPoint(t)
      /\ \A r, c : CopyOf(r, c)' = CopyOf(r, c) /\ TrilOf(r, c)' = TrilOf(r, c)
      /\ RowsOfTiles' = RowsOfTiles /\ Tiles' = Tiles
  BY <1>1 DEF IsPoint, IsCopy, IsFactor, IsUpdate, IsTril, RowsOfTiles, TrilOf, CopyOf,
     Tiles, Block!Tiles
<1>3. \A t : IsPoint(t) => (Issued(t)' <=> Issued(t) \/ t \in points)
  BY <1>1 DEF Issued
<1>4. \A t : t \in points => ~Issued(t)
  <2> SUFFICES ASSUME NEW t \in points
               PROVE  ~Issued(t)
    OBVIOUS
  <2>1. IsPoint(t) /\ t.at = at
    OBVIOUS
  <2> QED
    BY <1>1, <2>1, Places, BeforeOrder DEF Issued
<1>5. \A t : IsPoint(t) => (Ran(t)' <=> Ran(t))
  BY <1>1, <1>3, <1>4 DEF Ran
<1>6. PendingOK'
  BY <1>1, <1>2, <1>3 DEF IInv, PendingOK
<1>7. Ordered'
  <2> SUFFICES ASSUME NEW t \in pending', NEW u, IsPoint(u), Before(t.at, u.at), Conflict(t, u)
               PROVE  ~Ran(u)
    BY <1>2, <1>5 DEF Ordered
  <2>1. CASE t \in pending
    BY <2>1 DEF IInv, Ordered
  <2>2. CASE t \in points
    <3>1. IsPoint(t) /\ t.at = at /\ ~Issued(t)
      BY <1>4, <2>2
    <3>2. ~Issued(u)
      BY <1>1, <3>1, Places, BeforeOrder DEF Issued
    <3> QED
      BY <3>2 DEF Ran
  <2> QED
    BY <1>1, <2>1, <2>2
<1>8. tile' = [rc \in Tiles |-> Contents(rc[1], rc[2])']
  <2>1. ASSUME NEW r \in RowsOfTiles, NEW c \in RowsOfTiles
        PROVE  Contents(r, c)' = Contents(r, c)
    <3>1. /\ Ran(CopyOf(r, c))' <=> Ran(CopyOf(r, c))
          /\ Ran(TrilOf(r, c))' <=> Ran(TrilOf(r, c))
          /\ c <= r => (Ran(FactorOf(r, c))' <=> Ran(FactorOf(r, c)))
          /\ \A j \in RowsOfTiles : j < c /\ c <= r =>
               (Ran(UpdateOf(r, c, j))' <=> Ran(UpdateOf(r, c, j)))
      BY <1>1, <1>2, <1>5, Kinds
    <3>2. {j \in RowsOfTiles : j < c /\ c <= r /\ Ran(UpdateOf(r, c, j))}' =
            {j \in RowsOfTiles : j < c /\ c <= r /\ Ran(UpdateOf(r, c, j))}
      BY <1>2, <3>1
    <3> QED
      BY <3>1, <3>2 DEF Contents
  <2>2. \A rc \in Tiles : rc[1] \in RowsOfTiles /\ rc[2] \in RowsOfTiles
    BY DEF Tiles, Block!Tiles, RowsOfTiles
  <2> QED
    BY <1>1, <2>1, <2>2 DEF IInv
<1> QED
  BY <1>1, <1>2, <1>6, <1>7, <1>8 DEF IInv

\* Each statement of the loops launches the points of its place, and no
\* place with points lies between it and the next statement.
LEMMA PythonPreserves ==
  ASSUME IInv, Python
  PROVE  IInv'
<1>0. n \in Nat \ {0} /\ PlaceOK
  BY DEF IInv
<1> USE DEF Copy, Potrf, Trsm, Syrk, Gemm, Tril, Done
<1>1. CASE TransposeCopy
  <2> DEFINE points == {Point(at, rc, {}) : rc \in Tiles}
  <2>1. Submit(points, <<0, 0, Potrf>>) /\ at = <<0, 0, Copy>>
    BY <1>0, <1>1 DEF TransposeCopy, PlaceOK
  <2>2. PlaceOK' /\ n' = n
    BY <1>0, <2>1 DEF Submit, PlaceOK, RowsOfTiles
  <2>3. \A t : t \in points <=> \E r, c \in RowsOfTiles : t = CopyOf(r, c)
    <3>1. \A rc : rc \in Tiles <=> \E r, c \in RowsOfTiles : rc = <<r, c>>
      BY DEF Tiles, Block!Tiles, RowsOfTiles
    <3>2. \A t : t \in points <=> \E rc \in Tiles : t = Point(at, rc, {})
      OBVIOUS
    <3>3. \A r, c : CopyOf(r, c) = Point(at, <<r, c>>, {})
      BY <2>1 DEF CopyOf
    <3> HIDE DEF points
    <3>4. ASSUME NEW t \in points
          PROVE  \E r, c \in RowsOfTiles : t = CopyOf(r, c)
      <4>1. PICK rc \in Tiles : t = Point(at, rc, {})
        BY <3>2
      <4>2. PICK r, c \in RowsOfTiles : rc = <<r, c>>
        BY <3>1
      <4>3. t = CopyOf(r, c)
        BY <3>3, <4>1, <4>2
      <4> QED
        BY <4>3
    <3>5. ASSUME NEW r \in RowsOfTiles, NEW c \in RowsOfTiles
          PROVE  CopyOf(r, c) \in points
      <4>1. <<r, c>> \in Tiles
        BY <3>1
      <4> QED
        BY <3>2, <3>3, <4>1
    <3> QED
      BY <3>4, <3>5
  <2>4. \A t \in points : IsPoint(t) /\ t.at = at
    BY <1>0, <2>1, <2>3, Kinds
  <2>5. ASSUME NEW t, IsPoint(t)
        PROVE  Before(t.at, <<0, 0, Potrf>>) <=> Before(t.at, at) \/ t \in points
    BY <1>0, <2>1, <2>3, <2>4, <2>5, Fields DEF Before, RowsOfTiles
  <2> HIDE DEF points
  <2> QED
    BY <2>1, <2>2, <2>4, <2>5, SubmitPreserves
<1>2. CASE FactorDiagonal
  <2>1. PICK i \in RowsOfTiles : at = <<i, i, Potrf>>
    BY <1>0, <1>2 DEF FactorDiagonal, PlaceOK
  <2> DEFINE points == {Point(at, <<i, i>>, {})}
  <2>2. Submit(points, <<i, i, Trsm>>)
    BY <1>2, <2>1 DEF FactorDiagonal
  <2>3. PlaceOK' /\ n' = n
    BY <1>0, <2>2 DEF Submit, PlaceOK, RowsOfTiles
  <2>4. points = {FactorOf(i, i)}
    BY <2>1 DEF FactorOf
  <2>5. \A t \in points : IsPoint(t) /\ t.at = at
    <3>1. i <= i
      BY <1>0 DEF RowsOfTiles
    <3> QED
      BY <1>0, <2>1, <2>4, <3>1, Kinds
  <2>6. ASSUME NEW t, IsPoint(t)
        PROVE  Before(t.at, <<i, i, Trsm>>) <=> Before(t.at, at) \/ t \in points
    BY <1>0, <2>1, <2>4, <2>5, <2>6, Fields DEF Before, RowsOfTiles
  <2> HIDE DEF points
  <2> QED
    BY <2>2, <2>3, <2>5, <2>6, SubmitPreserves
<1>3. CASE SolvePanel
  <2>1. PICK i \in RowsOfTiles : at = <<i, i, Trsm>>
    BY <1>0, <1>3 DEF SolvePanel, PlaceOK
  <2> DEFINE points == {Point(at, <<r, i>>, {<<i, i>>}) : r \in Rows(i + 1, n)}
             place == IF i + 1 < n THEN <<i, i + 1, Syrk>> ELSE <<n, n, Tril>>
  <2>2. Submit(points, place)
    BY <1>3, <2>1 DEF SolvePanel
  <2>3. PlaceOK' /\ n' = n
    <3>1. at' = place /\ n' = n
      BY <2>2 DEF Submit
    <3> QED
      BY <1>0, <3>1 DEF PlaceOK, RowsOfTiles
  <2>4. points = {FactorOf(r, i) : r \in Rows(i + 1, n)}
    BY <2>1 DEF FactorOf, Rows, RowsOfTiles
  <2>5. \A t \in points : IsPoint(t) /\ t.at = at
    <3>1. \A r \in Rows(i + 1, n) : r \in RowsOfTiles /\ i <= r /\ r # i
      BY <1>0 DEF RowsOfTiles, Rows
    <3>2. \A r \in Rows(i + 1, n) : IsPoint(FactorOf(r, i)) /\ FactorOf(r, i).at = at
      BY <1>0, <2>1, <3>1, Kinds
    <3> QED
      BY <2>4, <3>2
  <2>6. ASSUME NEW t, IsPoint(t)
        PROVE  Before(t.at, place) <=> Before(t.at, at) \/ t \in points
    <3>1. Before(t.at, place) <=> Before(t.at, at) \/ t.at = at
      BY <1>0, <2>1, <2>6, Fields DEF Before, RowsOfTiles
    <3>2. ASSUME t.at = at
          PROVE  \E r \in RowsOfTiles : i < r /\ t = FactorOf(r, i)
      BY <1>0, <2>1, <2>6, <3>2, Fields
    <3>3. \A r \in RowsOfTiles : i < r => r \in Rows(i + 1, n)
      BY <1>0 DEF RowsOfTiles, Rows
    <3> QED
      BY <2>4, <2>5, <3>1, <3>2, <3>3
  <2> HIDE DEF points, place
  <2> QED
    BY <2>2, <2>3, <2>5, <2>6, SubmitPreserves
<1>4. CASE UpdateDiagonal
  <2>1. PICK i, k \in RowsOfTiles : i < k /\ at = <<i, k, Syrk>>
    BY <1>0, <1>4 DEF UpdateDiagonal, PlaceOK
  <2> DEFINE points == {Point(at, <<k, k>>, {<<k, i>>})}
  <2>2. Submit(points, <<i, k, Gemm>>)
    BY <1>4, <2>1 DEF UpdateDiagonal
  <2>3. PlaceOK' /\ n' = n
    BY <1>0, <2>1, <2>2 DEF Submit, PlaceOK, RowsOfTiles
  <2>4. points = {UpdateOf(k, k, i)}
    BY <2>1 DEF UpdateOf
  <2>5. \A t \in points : IsPoint(t) /\ t.at = at
    <3>1. k <= k
      BY <1>0 DEF RowsOfTiles
    <3>2. IsPoint(UpdateOf(k, k, i)) /\ UpdateOf(k, k, i).at = at
      BY <1>0, <2>1, <3>1, Kinds
    <3> QED
      BY <2>4, <3>2
  <2>6. ASSUME NEW t, IsPoint(t)
        PROVE  Before(t.at, <<i, k, Gemm>>) <=> Before(t.at, at) \/ t \in points
    BY <1>0, <2>1, <2>4, <2>5, <2>6, Fields DEF Before, RowsOfTiles
  <2> HIDE DEF points
  <2> QED
    BY <2>2, <2>3, <2>5, <2>6, SubmitPreserves
<1>5. CASE UpdatePanel
  <2>1. PICK i, k \in RowsOfTiles : i < k /\ at = <<i, k, Gemm>>
    BY <1>0, <1>5 DEF UpdatePanel, PlaceOK
  <2> DEFINE points == {Point(at, <<r, k>>, {<<r, i>>, <<k, i>>}) : r \in Rows(k + 1, n)}
  <2>2. Submit(points, AfterGemm(i, k))
    BY <1>5, <2>1 DEF UpdatePanel
  <2>3. PlaceOK' /\ n' = n
    <3>1. at' = AfterGemm(i, k) /\ n' = n
      BY <2>2 DEF Submit
    <3> QED
      BY <1>0, <2>1, <3>1 DEF PlaceOK, RowsOfTiles, AfterGemm
  <2>4. points = {UpdateOf(r, k, i) : r \in Rows(k + 1, n)}
    <3>1. \A r \in Rows(k + 1, n) : r # k
      BY <1>0 DEF RowsOfTiles, Rows
    <3> QED
      BY <2>1, <3>1 DEF UpdateOf
  <2>5. \A t \in points : IsPoint(t) /\ t.at = at
    <3>1. \A r \in Rows(k + 1, n) : r \in RowsOfTiles /\ k <= r /\ r # k
      BY <1>0 DEF RowsOfTiles, Rows
    <3>2. \A r \in Rows(k + 1, n) : IsPoint(UpdateOf(r, k, i)) /\ UpdateOf(r, k, i).at = at
      BY <1>0, <2>1, <3>1, Kinds
    <3> QED
      BY <2>4, <3>2
  <2>6. ASSUME NEW t, IsPoint(t)
        PROVE  Before(t.at, AfterGemm(i, k)) <=> Before(t.at, at) \/ t \in points
    <3>1. Before(t.at, AfterGemm(i, k)) <=> Before(t.at, at) \/ t.at = at
      BY <1>0, <2>1, <2>6, Fields DEF Before, RowsOfTiles, AfterGemm
    <3>2. ASSUME t.at = at
          PROVE  \E r \in RowsOfTiles : k < r /\ t = UpdateOf(r, k, i)
      BY <1>0, <2>1, <2>6, <3>2, Fields
    <3>3. \A r \in RowsOfTiles : k < r => r \in Rows(k + 1, n)
      BY <1>0 DEF RowsOfTiles, Rows
    <3> QED
      BY <2>4, <2>5, <3>1, <3>2, <3>3
  <2> HIDE DEF points
  <2> QED
    BY <2>2, <2>3, <2>5, <2>6, SubmitPreserves
<1>6. CASE LowerTriangle
  <2> DEFINE points == {Point(at, rc, {}) : rc \in Tiles}
  <2>1. Submit(points, <<n, n, Done>>) /\ at = <<n, n, Tril>>
    BY <1>0, <1>6 DEF LowerTriangle, PlaceOK
  <2>2. PlaceOK' /\ n' = n
    BY <1>0, <2>1 DEF Submit, PlaceOK, RowsOfTiles
  <2>3. \A t : t \in points <=> \E r, c \in RowsOfTiles : t = TrilOf(r, c)
    <3>1. \A rc : rc \in Tiles <=> \E r, c \in RowsOfTiles : rc = <<r, c>>
      BY DEF Tiles, Block!Tiles, RowsOfTiles
    <3>2. \A t : t \in points <=> \E rc \in Tiles : t = Point(at, rc, {})
      OBVIOUS
    <3>3. \A r, c : TrilOf(r, c) = Point(at, <<r, c>>, {})
      BY <2>1 DEF TrilOf
    <3> HIDE DEF points
    <3>4. ASSUME NEW t \in points
          PROVE  \E r, c \in RowsOfTiles : t = TrilOf(r, c)
      <4>1. PICK rc \in Tiles : t = Point(at, rc, {})
        BY <3>2
      <4>2. PICK r, c \in RowsOfTiles : rc = <<r, c>>
        BY <3>1
      <4>3. t = TrilOf(r, c)
        BY <3>3, <4>1, <4>2
      <4> QED
        BY <4>3
    <3>5. ASSUME NEW r \in RowsOfTiles, NEW c \in RowsOfTiles
          PROVE  TrilOf(r, c) \in points
      <4>1. <<r, c>> \in Tiles
        BY <3>1
      <4> QED
        BY <3>2, <3>3, <4>1
    <3> QED
      BY <3>4, <3>5
  <2>4. \A t \in points : IsPoint(t) /\ t.at = at
    BY <1>0, <2>1, <2>3, Kinds
  <2>5. ASSUME NEW t, IsPoint(t)
        PROVE  Before(t.at, <<n, n, Done>>) <=> Before(t.at, at) \/ t \in points
    BY <1>0, <2>1, <2>3, <2>4, <2>5, Fields DEF Before, RowsOfTiles
  <2> HIDE DEF points
  <2> QED
    BY <2>1, <2>2, <2>4, <2>5, SubmitPreserves
<1> QED
  BY <1>1, <1>2, <1>3, <1>4, <1>5, <1>6 DEF Python

---------------------------------------------------------------------------
(* Execution *)

\* When point t runs, of the points in conflict with it all earlier ones
\* have run and no later one has.
LEMMA RunFacts ==
  ASSUME IInv, NEW t \in pending, Run(t)
  PROVE  /\ IsPoint(t) /\ ~Ran(t) /\ n \in Nat \ {0} /\ n' = n
         /\ \A u : IsPoint(u) /\ Before(u.at, t.at) /\ Conflict(u, t) => Ran(u)
         /\ \A u : IsPoint(u) /\ Before(t.at, u.at) /\ Conflict(t, u) => ~Ran(u)
         /\ \A u : IsPoint(u) => (Ran(u)' <=> Ran(u) \/ u = t)
<1>1. /\ IsPoint(t) /\ Issued(t) /\ n \in Nat \ {0} /\ n' = n
      /\ at' = at /\ pending' = pending \ {t}
  BY DEF IInv, PendingOK, Run
<1>2. ASSUME NEW u, IsPoint(u), Before(u.at, t.at), Conflict(u, t)
      PROVE  Ran(u)
  <2>1. at \in Nat \X Nat \X Nat
    BY <1>1 DEF IInv, PlaceOK, RowsOfTiles, Copy, Potrf, Trsm, Syrk, Gemm, Tril, Done
  <2>2. Issued(u)
    BY <1>1, <1>2, <2>1, Places, BeforeOrder DEF Issued
  <2>3. u \notin pending
    BY <1>2, ConflictSymmetric DEF Run, Ready
  <2> QED
    BY <2>2, <2>3 DEF Ran
<1>3. \A u : IsPoint(u) /\ Before(t.at, u.at) /\ Conflict(t, u) => ~Ran(u)
  BY DEF IInv, Ordered
<1>4. \A u : IsPoint(u) => (Ran(u)' <=> Ran(u) \/ u = t)
  BY <1>1 DEF Ran, Issued
<1> QED
  BY <1>1, <1>2, <1>3, <1>4 DEF Ran

\* What the invariant says of tile <<r, c>> after point t has run.
LEMMA ContentsAfter ==
  ASSUME IInv, NEW t \in pending, Run(t), NEW r \in RowsOfTiles, NEW c \in RowsOfTiles
  PROVE  Contents(r, c)' =
           [stage |-> IF ~(Ran(CopyOf(r, c)) \/ CopyOf(r, c) = t) THEN "blank"
                      ELSE IF c <= r /\ (Ran(FactorOf(r, c)) \/ FactorOf(r, c) = t)
                           THEN "factor" ELSE "input",
            sub |-> {j \in RowsOfTiles :
                       j < c /\ c <= r /\ (Ran(UpdateOf(r, c, j)) \/ UpdateOf(r, c, j) = t)},
            low |-> IF Ran(TrilOf(r, c)) \/ TrilOf(r, c) = t THEN TRUE ELSE FALSE]
<1>1. /\ n \in Nat \ {0} /\ n' = n
      /\ \A u : IsPoint(u) => (Ran(u)' <=> Ran(u) \/ u = t)
  BY RunFacts
<1>2. RowsOfTiles' = RowsOfTiles /\ TrilOf(r, c)' = TrilOf(r, c)
  BY <1>1 DEF RowsOfTiles, TrilOf
<1>3. /\ Ran(CopyOf(r, c))' <=> Ran(CopyOf(r, c)) \/ CopyOf(r, c) = t
      /\ Ran(TrilOf(r, c))' <=> Ran(TrilOf(r, c)) \/ TrilOf(r, c) = t
      /\ c <= r => (Ran(FactorOf(r, c))' <=> Ran(FactorOf(r, c)) \/ FactorOf(r, c) = t)
      /\ \A j \in RowsOfTiles : j < c /\ c <= r =>
           (Ran(UpdateOf(r, c, j))' <=> Ran(UpdateOf(r, c, j)) \/ UpdateOf(r, c, j) = t)
  BY <1>1, <1>2, Kinds
<1>4. {j \in RowsOfTiles : j < c /\ c <= r /\ Ran(UpdateOf(r, c, j))}' =
        {j \in RowsOfTiles :
           j < c /\ c <= r /\ (Ran(UpdateOf(r, c, j)) \/ UpdateOf(r, c, j) = t)}
  BY <1>2, <1>3
<1> QED
  BY <1>3, <1>4 DEF Contents

\* Tiles that the point does not write keep their contents.
LEMMA OtherTiles ==
  ASSUME IInv, NEW t \in pending, Run(t), NEW r \in RowsOfTiles, NEW c \in RowsOfTiles,
         t.tile # <<r, c>>
  PROVE  Contents(r, c)' = Contents(r, c)
<1>1. n \in Nat \ {0}
  BY DEF IInv
<1>2. /\ CopyOf(r, c) # t /\ TrilOf(r, c) # t
      /\ c <= r => FactorOf(r, c) # t
      /\ \A j \in RowsOfTiles : j < c /\ c <= r => UpdateOf(r, c, j) # t
  BY <1>1, Kinds
<1>3. {j \in RowsOfTiles :
           j < c /\ c <= r /\ (Ran(UpdateOf(r, c, j)) \/ UpdateOf(r, c, j) = t)} =
        {j \in RowsOfTiles : j < c /\ c <= r /\ Ran(UpdateOf(r, c, j))}
  BY <1>2
<1> QED
  BY <1>2, <1>3, ContentsAfter DEF Contents

\* Points that use the tile <<r, c>> come in the order of their places.
LEMMA TileOrder ==
  ASSUME n \in Nat \ {0}, NEW r \in RowsOfTiles, NEW c \in RowsOfTiles
  PROVE  /\ Before(CopyOf(r, c).at, TrilOf(r, c).at)
         /\ c <= r => /\ Before(CopyOf(r, c).at, FactorOf(r, c).at)
                      /\ Before(FactorOf(r, c).at, TrilOf(r, c).at)
                      /\ r # c => Before(FactorOf(c, c).at, FactorOf(r, c).at)
         /\ \A j \in RowsOfTiles : j < c /\ c <= r =>
              /\ Before(CopyOf(r, c).at, UpdateOf(r, c, j).at)
              /\ Before(UpdateOf(r, c, j).at, FactorOf(r, c).at)
              /\ Before(UpdateOf(r, c, j).at, TrilOf(r, c).at)
              /\ Before(FactorOf(r, j).at, UpdateOf(r, c, j).at)
              /\ Before(FactorOf(c, j).at, UpdateOf(r, c, j).at)
<1> USE DEF Copy, Potrf, Trsm, Syrk, Gemm, Tril
<1>1. /\ r \in 0..(n - 1) /\ c \in 0..(n - 1) /\ n \in Nat
      /\ CopyOf(r, c).at = <<0, 0, Copy>> /\ TrilOf(r, c).at = <<n, n, Tril>>
  BY Kinds DEF RowsOfTiles
<1>2. Before(CopyOf(r, c).at, TrilOf(r, c).at)
  BY <1>1 DEF Before
<1>3. ASSUME c <= r
      PROVE  /\ Before(CopyOf(r, c).at, FactorOf(r, c).at)
             /\ Before(FactorOf(r, c).at, TrilOf(r, c).at)
             /\ r # c => Before(FactorOf(c, c).at, FactorOf(r, c).at)
  <2>1. FactorOf(r, c).at = IF r = c THEN <<c, c, Potrf>> ELSE <<c, c, Trsm>>
    BY <1>3, Kinds
  <2>2. FactorOf(c, c).at = <<c, c, Potrf>>
    BY <1>1, Kinds
  <2> QED
    BY <1>1, <2>1, <2>2 DEF Before
<1>4. ASSUME NEW j \in RowsOfTiles, j < c, c <= r
      PROVE  /\ Before(CopyOf(r, c).at, UpdateOf(r, c, j).at)
             /\ Before(UpdateOf(r, c, j).at, FactorOf(r, c).at)
             /\ Before(UpdateOf(r, c, j).at, TrilOf(r, c).at)
             /\ Before(FactorOf(r, j).at, UpdateOf(r, c, j).at)
             /\ Before(FactorOf(c, j).at, UpdateOf(r, c, j).at)
  <2>1. j \in 0..(n - 1) /\ j < r
    BY <1>1, <1>4 DEF RowsOfTiles
  <2>2. FactorOf(r, c).at \in {<<c, c, Potrf>>, <<c, c, Trsm>>}
    BY <1>4, Kinds
  <2>3. UpdateOf(r, c, j).at \in {<<j, c, Syrk>>, <<j, c, Gemm>>}
    BY <1>4, Kinds
  <2>4. FactorOf(r, j).at = <<j, j, Trsm>> /\ FactorOf(c, j).at = <<j, j, Trsm>>
    <3>1. r # j /\ c # j
      BY <1>1, <1>4, <2>1
    <3> QED
      BY <3>1 DEF FactorOf, Point
  <2> QED
    BY <1>1, <1>4, <2>1, <2>2, <2>3, <2>4 DEF Before
<1> QED
  BY <1>2, <1>3, <1>4

\* A copy finds the tile blank.
LEMMA RunCopy ==
  ASSUME IInv, NEW t \in pending, Run(t), NEW r \in RowsOfTiles, NEW c \in RowsOfTiles,
         t = CopyOf(r, c)
  PROVE  /\ Contents(r, c) = Block!Blank
         /\ Contents(r, c)' = Effect(t, Contents(r, c))
<1>1. /\ n \in Nat \ {0} /\ ~Ran(t)
      /\ \A u : IsPoint(u) /\ Before(t.at, u.at) /\ Conflict(t, u) => ~Ran(u)
      /\ \A u : IsPoint(u) /\ Before(t.at, u.at) => u # t
  BY RunFacts, Places, BeforeOrder
<1>2. t.tile = <<r, c>> /\ t.at[3] = Copy
  BY <1>1, Kinds
<1>3. \A u : u.tile = <<r, c>> => Conflict(t, u)
  BY <1>2 DEF Conflict
<1>4. /\ ~Ran(CopyOf(r, c)) /\ ~Ran(TrilOf(r, c)) /\ TrilOf(r, c) # t
      /\ c <= r => ~Ran(FactorOf(r, c)) /\ FactorOf(r, c) # t
      /\ \A j \in RowsOfTiles : j < c /\ c <= r =>
           ~Ran(UpdateOf(r, c, j)) /\ UpdateOf(r, c, j) # t
  BY <1>1, <1>3, Kinds, TileOrder
<1>5. /\ {j \in RowsOfTiles : j < c /\ c <= r /\ Ran(UpdateOf(r, c, j))} = {}
      /\ {j \in RowsOfTiles :
           j < c /\ c <= r /\ (Ran(UpdateOf(r, c, j)) \/ UpdateOf(r, c, j) = t)} = {}
  BY <1>4
<1>6. Contents(r, c) = Block!Blank
  BY <1>4, <1>5 DEF Contents, Block!Blank
<1>7. Contents(r, c)' = [stage |-> "input", sub |-> {}, low |-> FALSE]
  BY <1>4, <1>5, ContentsAfter
<1>8. Effect(t, Contents(r, c)) = [stage |-> "input", sub |-> {}, low |-> FALSE]
  BY <1>2 DEF Effect, Copy, Potrf, Trsm, Syrk, Gemm, Tril
<1> QED
  BY <1>6, <1>7, <1>8

\* An operand is final: its copy and its factorisation have run.
LEMMA OperandFinal ==
  ASSUME IInv, NEW t \in pending, Run(t), NEW r \in RowsOfTiles, NEW c \in RowsOfTiles,
         c <= r, <<r, c>> \in t.rhs, Before(FactorOf(r, c).at, t.at)
  PROVE  Contents(r, c).stage = "factor"
<1>1. /\ n \in Nat \ {0} /\ IsPoint(t)
      /\ \A u : IsPoint(u) /\ Before(u.at, t.at) /\ Conflict(u, t) => Ran(u)
  BY RunFacts
<1>2. /\ IsPoint(CopyOf(r, c)) /\ CopyOf(r, c).tile = <<r, c>>
      /\ IsPoint(FactorOf(r, c)) /\ FactorOf(r, c).tile = <<r, c>>
  BY <1>1, Kinds
<1>3. Before(CopyOf(r, c).at, t.at)
  BY <1>1, <1>2, TileOrder, Places, BeforeOrder
<1>4. Ran(CopyOf(r, c)) /\ Ran(FactorOf(r, c))
  BY <1>1, <1>2, <1>3 DEF Conflict
<1> QED
  BY <1>4 DEF Contents

\* A tile is factored when all products have been subtracted from it, and a
\* tile below the diagonal after the tile on the diagonal.
LEMMA RunFactor ==
  ASSUME IInv, NEW t \in pending, Run(t), NEW r \in RowsOfTiles, NEW c \in RowsOfTiles,
         c <= r, t = FactorOf(r, c)
  PROVE  /\ Contents(r, c) = [stage |-> "input", sub |-> 0..(c - 1), low |-> FALSE]
         /\ r # c => Contents(c, c).stage = "factor"
         /\ Contents(r, c)' = Effect(t, Contents(r, c))
<1>1. /\ n \in Nat \ {0} /\ ~Ran(t) /\ IsPoint(t)
      /\ \A u : IsPoint(u) /\ Before(u.at, t.at) /\ Conflict(u, t) => Ran(u)
      /\ \A u : IsPoint(u) /\ Before(t.at, u.at) /\ Conflict(t, u) => ~Ran(u)
      /\ \A u : IsPoint(u) /\ (Before(t.at, u.at) \/ Before(u.at, t.at)) => u # t
  BY RunFacts, Places, BeforeOrder
<1>2. /\ t.tile = <<r, c>> /\ t.at[3] \in {Potrf, Trsm}
      /\ c \in 0..(n - 1)
  BY <1>1, Kinds DEF RowsOfTiles
<1>3. \A u : u.tile = <<r, c>> => Conflict(t, u) /\ Conflict(u, t)
  BY <1>2 DEF Conflict
<1>4. /\ Ran(CopyOf(r, c)) /\ CopyOf(r, c) # t
      /\ ~Ran(TrilOf(r, c)) /\ TrilOf(r, c) # t
      /\ \A j \in RowsOfTiles : j < c => Ran(UpdateOf(r, c, j)) /\ UpdateOf(r, c, j) # t
  BY <1>1, <1>3, Kinds, TileOrder
<1>5. /\ {j \in RowsOfTiles : j < c /\ c <= r /\ Ran(UpdateOf(r, c, j))} = 0..(c - 1)
      /\ {j \in RowsOfTiles :
           j < c /\ c <= r /\ (Ran(UpdateOf(r, c, j)) \/ UpdateOf(r, c, j) = t)} = 0..(c - 1)
  <2>1. \A j : j \in RowsOfTiles /\ j < c <=> j \in 0..(c - 1)
    BY <1>1, <1>2 DEF RowsOfTiles
  <2> QED
    BY <1>4, <2>1
<1>6. Contents(r, c) = [stage |-> "input", sub |-> 0..(c - 1), low |-> FALSE]
  BY <1>1, <1>4, <1>5 DEF Contents
<1>7. Contents(r, c)' = [stage |-> "factor", sub |-> 0..(c - 1), low |-> FALSE]
  BY <1>4, <1>5, ContentsAfter
<1>8. Effect(t, Contents(r, c)) = [stage |-> "factor", sub |-> 0..(c - 1), low |-> FALSE]
  <2>1. Effect(t, [stage |-> "input", sub |-> 0..(c - 1), low |-> FALSE]) =
          [stage |-> "factor", sub |-> 0..(c - 1), low |-> FALSE]
    <3>1. t.at[3] # Copy /\ t.at[3] # Tril /\ t.at[3] \notin {Syrk, Gemm}
      BY <1>2 DEF Copy, Potrf, Trsm, Syrk, Gemm, Tril
    <3> QED
      BY <1>2, <3>1, Zenon DEF Effect
  <2> QED
    BY <1>6, <2>1, Zenon
<1>9. ASSUME r # c
      PROVE  Contents(c, c).stage = "factor"
  <2>1. <<c, c>> \in t.rhs
    BY <1>9 DEF FactorOf, Point
  <2>2. c <= c
    BY <1>2
  <2> QED
    BY <1>1, <1>9, <2>1, <2>2, TileOrder, OperandFinal
<1> QED
  BY <1>6, <1>7, <1>8, <1>9

\* A product is subtracted once, from final factors, before the tile is
\* factored.
LEMMA RunUpdate ==
  ASSUME IInv, NEW t \in pending, Run(t), NEW r \in RowsOfTiles, NEW c \in RowsOfTiles,
         NEW j \in RowsOfTiles, j < c, c <= r, t = UpdateOf(r, c, j)
  PROVE  /\ Contents(r, c).stage = "input" /\ j \notin Contents(r, c).sub
         /\ Contents(r, j).stage = "factor" /\ Contents(c, j).stage = "factor"
         /\ Contents(r, c)' = Effect(t, Contents(r, c))
         /\ t.at[1] = j
<1>1. /\ n \in Nat \ {0} /\ ~Ran(t) /\ IsPoint(t)
      /\ \A u : IsPoint(u) /\ Before(u.at, t.at) /\ Conflict(u, t) => Ran(u)
      /\ \A u : IsPoint(u) /\ Before(t.at, u.at) /\ Conflict(t, u) => ~Ran(u)
      /\ \A u : IsPoint(u) /\ (Before(t.at, u.at) \/ Before(u.at, t.at)) => u # t
  BY RunFacts, Places, BeforeOrder
<1>2. t.tile = <<r, c>> /\ t.at[3] \in {Syrk, Gemm} /\ t.at[1] = j
  BY <1>1, Kinds
<1>3. \A u : u.tile = <<r, c>> => Conflict(t, u) /\ Conflict(u, t)
  BY <1>2 DEF Conflict
<1>4. /\ Ran(CopyOf(r, c)) /\ CopyOf(r, c) # t
      /\ ~Ran(TrilOf(r, c)) /\ TrilOf(r, c) # t
      /\ ~Ran(FactorOf(r, c)) /\ FactorOf(r, c) # t
  BY <1>1, <1>3, Kinds, TileOrder
<1>5. \A m \in RowsOfTiles : m < c /\ UpdateOf(r, c, m) = t => m = j
  BY <1>1, <1>2, Kinds
<1>6. {m \in RowsOfTiles :
         m < c /\ c <= r /\ (Ran(UpdateOf(r, c, m)) \/ UpdateOf(r, c, m) = t)}
      = {m \in RowsOfTiles : m < c /\ c <= r /\ Ran(UpdateOf(r, c, m))} \union {j}
  BY <1>5
<1>7. Contents(r, c) =
        [stage |-> "input",
         sub |-> {m \in RowsOfTiles : m < c /\ c <= r /\ Ran(UpdateOf(r, c, m))},
         low |-> FALSE]
  BY <1>4 DEF Contents
<1>8. Contents(r, c)' = Effect(t, Contents(r, c))
  <2> DEFINE S == {m \in RowsOfTiles : m < c /\ c <= r /\ Ran(UpdateOf(r, c, m))}
  <2>1. Contents(r, c)' = [stage |-> "input", sub |-> S \union {j}, low |-> FALSE]
    BY <1>4, <1>6, ContentsAfter
  <2>2. Contents(r, c) = [stage |-> "input", sub |-> S, low |-> FALSE]
    BY <1>7
  <2> HIDE DEF S
  <2>3. Effect(t, [stage |-> "input", sub |-> S, low |-> FALSE]) =
          [stage |-> "input", sub |-> S \union {j}, low |-> FALSE]
    <3>1. t.at[3] # Copy /\ t.at[3] # Tril /\ t.at[3] \notin {Potrf, Trsm}
      BY <1>2 DEF Copy, Potrf, Trsm, Syrk, Gemm, Tril
    <3> QED
      BY <1>2, <3>1, Zenon DEF Effect
  <2> QED
    BY <2>1, <2>2, <2>3, Zenon
<1>9. j \notin Contents(r, c).sub
  BY <1>1, <1>7
<1>10. <<r, j>> \in t.rhs /\ <<c, j>> \in t.rhs
  <2>1. CASE r = c
    BY <2>1 DEF UpdateOf, Point
  <2>2. CASE r # c
    BY <2>2 DEF UpdateOf, Point
  <2> QED
    BY <2>1, <2>2
<1>11. j <= c /\ j <= r
  BY <1>1 DEF RowsOfTiles
<1>12. Contents(r, j).stage = "factor" /\ Contents(c, j).stage = "factor"
  BY <1>1, <1>10, <1>11, TileOrder, OperandFinal
<1> QED
  BY <1>2, <1>7, <1>8, <1>9, <1>12

\* What is above the diagonal is cleared last.
LEMMA RunTril ==
  ASSUME IInv, NEW t \in pending, Run(t), NEW r \in RowsOfTiles, NEW c \in RowsOfTiles,
         t = TrilOf(r, c)
  PROVE  /\ Contents(r, c).stage = IF c <= r THEN "factor" ELSE "input"
         /\ Contents(r, c)' = Effect(t, Contents(r, c))
<1>1. /\ n \in Nat \ {0} /\ IsPoint(t)
      /\ \A u : IsPoint(u) /\ Before(u.at, t.at) /\ Conflict(u, t) => Ran(u)
      /\ \A u : IsPoint(u) /\ Before(u.at, t.at) => u # t
  BY RunFacts, Places, BeforeOrder
<1>2. t.tile = <<r, c>> /\ t.at[3] = Tril
  BY <1>1, Kinds
<1>3. \A u : u.tile = <<r, c>> => Conflict(u, t)
  BY <1>2 DEF Conflict
<1>4. /\ Ran(CopyOf(r, c)) /\ CopyOf(r, c) # t
      /\ c <= r => Ran(FactorOf(r, c)) /\ FactorOf(r, c) # t
      /\ \A j \in RowsOfTiles : j < c /\ c <= r => UpdateOf(r, c, j) # t
  BY <1>1, <1>3, Kinds, TileOrder
<1>5. {j \in RowsOfTiles :
           j < c /\ c <= r /\ (Ran(UpdateOf(r, c, j)) \/ UpdateOf(r, c, j) = t)}
      = {j \in RowsOfTiles : j < c /\ c <= r /\ Ran(UpdateOf(r, c, j))}
  BY <1>4
<1>6. Contents(r, c)' = Effect(t, Contents(r, c))
  <2> DEFINE S == {j \in RowsOfTiles : j < c /\ c <= r /\ Ran(UpdateOf(r, c, j))}
             st == IF c <= r THEN "factor" ELSE "input"
  <2>1. Contents(r, c)' = [stage |-> st, sub |-> S, low |-> TRUE]
    BY <1>4, <1>5, ContentsAfter
  <2>2. PICK b \in BOOLEAN : Contents(r, c) = [stage |-> st, sub |-> S, low |-> b]
    BY <1>4 DEF Contents
  <2> HIDE DEF S, st
  <2>3. Effect(t, [stage |-> st, sub |-> S, low |-> b]) =
          [stage |-> st, sub |-> S, low |-> TRUE]
    <3>1. t.at[3] # Copy /\ t.at[3] \notin {Potrf, Trsm} /\ t.at[3] \notin {Syrk, Gemm}
      BY <1>2 DEF Copy, Potrf, Trsm, Syrk, Gemm, Tril
    <3> QED
      BY <1>2, <3>1, Zenon DEF Effect
  <2> QED
    BY <2>1, <2>2, <2>3, Zenon
<1> QED
  BY <1>4, <1>6 DEF Contents

---------------------------------------------------------------------------
(* Execution *)

\* Whatever kind of point t is, its tile holds the effects of what has run.
LEMMA RunEffect ==
  ASSUME IInv, NEW t \in pending, Run(t), NEW r \in RowsOfTiles, NEW c \in RowsOfTiles,
         t.tile = <<r, c>>
  PROVE  Contents(r, c)' = Effect(t, Contents(r, c))
<1>1. n \in Nat \ {0} /\ IsPoint(t)
  BY RunFacts
<1>2. CASE IsCopy(t)
  <2>1. PICK x, y \in RowsOfTiles : t = CopyOf(x, y)
    BY <1>2 DEF IsCopy
  <2>2. x = r /\ y = c
    BY <1>1, <2>1, Kinds
  <2> QED
    BY <2>1, <2>2, RunCopy
<1>3. CASE IsFactor(t)
  <2>1. PICK x, y \in RowsOfTiles : y <= x /\ t = FactorOf(x, y)
    BY <1>3 DEF IsFactor
  <2>2. x = r /\ y = c
    BY <1>1, <2>1, Kinds
  <2> QED
    BY <2>1, <2>2, RunFactor
<1>4. CASE IsUpdate(t)
  <2>1. PICK x, y, j \in RowsOfTiles : j < y /\ y <= x /\ t = UpdateOf(x, y, j)
    BY <1>4 DEF IsUpdate
  <2>2. x = r /\ y = c
    BY <1>1, <2>1, Kinds
  <2> QED
    BY <2>1, <2>2, RunUpdate
<1>5. CASE IsTril(t)
  <2>1. PICK x, y \in RowsOfTiles : t = TrilOf(x, y)
    BY <1>5 DEF IsTril
  <2>2. x = r /\ y = c
    BY <1>1, <2>1, Kinds
  <2> QED
    BY <2>1, <2>2, RunTril
<1> QED
  BY <1>1, <1>2, <1>3, <1>4, <1>5 DEF IsPoint

LEMMA RunPreserves ==
  ASSUME IInv, NEW t \in pending, Run(t)
  PROVE  IInv'
<1>1. /\ IsPoint(t) /\ n \in Nat \ {0} /\ n' = n /\ at' = at
      /\ pending' = pending \ {t}
      /\ \A u : IsPoint(u) /\ Before(u.at, t.at) /\ Conflict(u, t) => Ran(u)
      /\ \A u : IsPoint(u) => (Ran(u)' <=> Ran(u) \/ u = t)
      /\ tile' = [tile EXCEPT ![t.tile] = Effect(t, @)]
  BY RunFacts DEF Run
<1>2. /\ \A u : IsPoint(u)' <=> IsPoint(u)
      /\ \A u : Issued(u)' <=> Issued(u)
      /\ RowsOfTiles' = RowsOfTiles /\ Tiles' = Tiles
      /\ PlaceOK' <=> PlaceOK
  BY <1>1 DEF IsPoint, IsCopy, IsFactor, IsUpdate, IsTril, RowsOfTiles, TrilOf, Issued,
     Tiles, Block!Tiles, PlaceOK
<1>3. PendingOK'
  BY <1>1, <1>2 DEF IInv, PendingOK
<1>4. Ordered'
  <2> SUFFICES ASSUME NEW u \in pending', NEW v, IsPoint(v), Before(u.at, v.at), Conflict(u, v)
               PROVE  ~Ran(v) /\ v # t
    BY <1>1, <1>2 DEF Ordered
  <2>1. u \in pending /\ IsPoint(u)
    BY <1>1 DEF IInv, PendingOK
  <2>2. ~Ran(v)
    BY <2>1 DEF IInv, Ordered
  <2>3. ~Ran(u)
    BY <2>1 DEF Ran
  <2> QED
    BY <1>1, <2>1, <2>2, <2>3
<1>5. tile' = [rc \in Tiles |-> Contents(rc[1], rc[2])']
  <2>1. tile = [rc \in Tiles |-> Contents(rc[1], rc[2])]
    BY DEF IInv
  <2>2. ASSUME NEW rc \in Tiles
        PROVE  tile'[rc] = Contents(rc[1], rc[2])'
    <3>1. rc[1] \in RowsOfTiles /\ rc[2] \in RowsOfTiles /\ rc = <<rc[1], rc[2]>>
      BY DEF Tiles, Block!Tiles, RowsOfTiles
    <3>2. CASE t.tile = rc
      <4>1. tile'[rc] = Effect(t, tile[rc])
        BY <1>1, <2>1, <3>2
      <4>2. tile[rc] = Contents(rc[1], rc[2])
        BY <2>1
      <4>3. Contents(rc[1], rc[2])' = Effect(t, Contents(rc[1], rc[2]))
        BY <3>1, <3>2, RunEffect
      <4> QED
        BY <4>1, <4>2, <4>3, Zenon
    <3>3. CASE t.tile # rc
      <4>1. tile'[rc] = tile[rc]
        BY <1>1, <2>1, <3>3
      <4>2. Contents(rc[1], rc[2])' = Contents(rc[1], rc[2])
        BY <3>1, <3>3, OtherTiles
      <4> QED
        BY <2>1, <4>1, <4>2, Zenon
    <3> QED
      BY <3>2, <3>3
  <2>3. tile' = [rc \in Tiles |-> tile'[rc]]
    BY <1>1, <2>1
  <2> QED
    BY <2>2, <2>3, Zenon
<1> QED
  BY <1>1, <1>2, <1>3, <1>4, <1>5 DEF IInv

LEMMA Invariant == Spec => []IInv
<1>1. ASSUME Init
      PROVE  IInv
  <2>1. n \in Nat \ {0} /\ at = <<0, 0, Copy>> /\ pending = {}
        /\ tile = [rc \in Tiles |-> Block!Blank]
    BY <1>1, ColorsPositive DEF Init
  <2>2. \A t : IsPoint(t) => ~Ran(t)
    BY <2>1, Fields DEF Ran, Issued, Before, RowsOfTiles, Copy, Potrf, Trsm, Syrk, Gemm, Tril
  <2>3. ASSUME NEW r \in RowsOfTiles, NEW c \in RowsOfTiles
        PROVE  Contents(r, c) = Block!Blank
    <3>1. ~Ran(CopyOf(r, c)) /\ ~Ran(TrilOf(r, c))
      BY <2>1, <2>2, Kinds
    <3>2. {j \in RowsOfTiles : j < c /\ c <= r /\ Ran(UpdateOf(r, c, j))} = {}
      BY <2>1, <2>2, Kinds
    <3> QED
      BY <3>1, <3>2 DEF Contents, Block!Blank
  <2>4. \A rc \in Tiles : rc[1] \in RowsOfTiles /\ rc[2] \in RowsOfTiles
    BY DEF Tiles, Block!Tiles, RowsOfTiles
  <2>5. tile = [rc \in Tiles |-> Contents(rc[1], rc[2])]
    BY <2>1, <2>3, <2>4, Zenon
  <2> QED
    BY <2>1, <2>5 DEF IInv, PlaceOK, PendingOK, Ordered
<1>2. ASSUME IInv, [Next]_vars
      PROVE  IInv'
  <2>1. CASE Python
    BY <1>2, <2>1, PythonPreserves
  <2>2. CASE Task
    BY <1>2, <2>2, RunPreserves DEF Task
  <2>3. CASE UNCHANGED vars
    <3>1. n' = n /\ at' = at /\ pending' = pending /\ tile' = tile
      BY <2>3 DEF vars
    <3>2. /\ RowsOfTiles' = RowsOfTiles /\ Tiles' = Tiles /\ PlaceOK' = PlaceOK
          /\ \A t : IsPoint(t)' = IsPoint(t) /\ Issued(t)' = Issued(t) /\ Ran(t)' = Ran(t)
          /\ \A r, c : TrilOf(r, c)' = TrilOf(r, c)
      BY <3>1 DEF PlaceOK, IsPoint, IsCopy, IsFactor, IsUpdate, IsTril, TrilOf,
         RowsOfTiles, Issued, Ran, Tiles, Block!Tiles
    <3>3. \A r, c : Contents(r, c)' = Contents(r, c)
      BY <3>2, Zenon DEF Contents
    <3>4. PendingOK' /\ Ordered'
      BY <1>2, <3>1, <3>2 DEF IInv, PendingOK, Ordered
    <3>5. tile' = [rc \in Tiles |-> Contents(rc[1], rc[2])']
      BY <1>2, <3>1, <3>3, Zenon DEF IInv
    <3> QED
      BY <1>2, <3>1, <3>2, <3>4, <3>5 DEF IInv
  <2> QED
    BY <1>2, <2>1, <2>2, <2>3 DEF Next, Terminated
<1> QED
  BY <1>1, <1>2, PTL DEF Spec

---------------------------------------------------------------------------
(* Theorems *)

\* The variables of the factorisation keep their types.
THEOREM TypeCorrect == Spec => []TypeOK
<1>1. ASSUME IInv
      PROVE  TypeOK
  <2>1. n \in Nat \ {0}
    BY <1>1 DEF IInv
  <2> USE DEF Copy, Potrf, Trsm, Syrk, Gemm, Tril, Done
  <2>2. at \in (0..n) \X (0..n) \X (Copy..Done)
    BY <1>1, <2>1 DEF IInv, PlaceOK, RowsOfTiles
  <2>3. ASSUME NEW t \in pending
        PROVE  /\ t.at \in (0..n) \X (0..n) \X (Copy..Tril)
               /\ t.tile \in Tiles /\ t.rhs \subseteq Tiles
    <3>1. IsPoint(t)
      BY <1>1 DEF IInv, PendingOK
    <3>2. \A r, c \in RowsOfTiles : <<r, c>> \in Tiles
      BY DEF RowsOfTiles, Tiles, Block!Tiles
    <3>3. t.tile \in Tiles /\ t.rhs \subseteq Tiles
      BY <2>1, <3>1, <3>2, Fields
    <3>4. t.at \in (0..n) \X (0..n) \X (Copy..Tril)
      <4>1. \A i \in RowsOfTiles : i \in 0..n
        BY <2>1 DEF RowsOfTiles
      <4>2. 0 \in 0..n /\ n \in 0..n
        BY <2>1
      <4>3. \A a, b \in 0..n : \A s \in Copy..Tril :
              <<a, b, s>> \in (0..n) \X (0..n) \X (Copy..Tril)
        OBVIOUS
      <4>4. {Copy, Potrf, Trsm, Syrk, Gemm, Tril} \subseteq Copy..Tril
        OBVIOUS
      <4> HIDE DEF Copy, Potrf, Trsm, Syrk, Gemm, Tril
      <4>5. \E a, b \in 0..n : \E s \in {Copy, Potrf, Trsm, Syrk, Gemm, Tril} :
              t.at = <<a, b, s>>
        BY <2>1, <3>1, <4>1, <4>2, Fields
      <4> QED
        BY <4>3, <4>4, <4>5
    <3> QED
      BY <3>3, <3>4
  <2>4. tile \in [Tiles -> [stage : Stages, sub : SUBSET (0..(n - 1)), low : BOOLEAN]]
    <3>1. \A r, c : Contents(r, c) \in
            [stage : Stages, sub : SUBSET (0..(n - 1)), low : BOOLEAN]
      BY DEF Contents, Stages, RowsOfTiles
    <3>2. tile = [rc \in Tiles |-> Contents(rc[1], rc[2])]
      BY <1>1 DEF IInv
    <3> QED
      BY <3>1, <3>2
  <2> QED
    BY <2>1, <2>2, <2>3, <2>4 DEF TypeOK
<1> QED
  BY <1>1, Invariant, PTL

\* The points of one launch never touch each other's tiles, so that the
\* runtime may run them side by side.
THEOREM LaunchesApart == Spec => []LaunchesIndependent
<1>1. ASSUME IInv
      PROVE  LaunchesIndependent
  BY <1>1, Independent DEF IInv, PendingOK, LaunchesIndependent
<1> QED
  BY <1>1, Invariant, PTL

\* What the tasks make of a tile.
LEMMA EffectOf ==
  ASSUME NEW t, NEW old
  PROVE  /\ t.at[3] = Copy =>
              Effect(t, old) = [stage |-> "input", sub |-> {}, low |-> FALSE]
         /\ t.at[3] \in {Potrf, Trsm} =>
              Effect(t, old) = [stage |-> "factor", sub |-> old.sub, low |-> old.low]
         /\ t.at[3] \in {Syrk, Gemm} =>
              Effect(t, old) =
                [stage |-> old.stage, sub |-> old.sub \union {t.at[1]}, low |-> old.low]
         /\ t.at[3] = Tril =>
              Effect(t, old) = [stage |-> old.stage, sub |-> old.sub, low |-> TRUE]
<1>0. /\ Copy \notin {Potrf, Trsm} /\ Copy \notin {Syrk, Gemm} /\ Copy # Tril
      /\ t.at[3] \in {Potrf, Trsm} =>
           t.at[3] # Copy /\ t.at[3] # Tril /\ t.at[3] \notin {Syrk, Gemm}
      /\ t.at[3] \in {Syrk, Gemm} =>
           t.at[3] # Copy /\ t.at[3] # Tril /\ t.at[3] \notin {Potrf, Trsm}
      /\ t.at[3] = Tril =>
           t.at[3] # Copy /\ t.at[3] \notin {Potrf, Trsm} /\ t.at[3] \notin {Syrk, Gemm}
  BY DEF Copy, Potrf, Trsm, Syrk, Gemm, Tril
<1>1. CASE t.at[3] = Copy
  BY <1>0, <1>1, Zenon DEF Effect
<1>2. CASE t.at[3] \in {Potrf, Trsm}
  BY <1>0, <1>2, Zenon DEF Effect
<1>3. CASE t.at[3] \in {Syrk, Gemm}
  BY <1>0, <1>3, Zenon DEF Effect
<1>4. CASE t.at[3] = Tril
  BY <1>0, <1>4, Zenon DEF Effect
<1> QED
  BY <1>1, <1>2, <1>3, <1>4, Zenon

\* A point that runs does what one step of a blocked factorisation does.
LEMMA RunImplements ==
  ASSUME IInv, NEW t \in pending, Run(t)
  PROVE  Block!Next
<1>1. /\ IsPoint(t) /\ n \in Nat \ {0} /\ n' = n
      /\ tile' = [tile EXCEPT ![t.tile] = Effect(t, @)]
      /\ tile = [rc \in Tiles |-> Contents(rc[1], rc[2])]
  BY RunFacts DEF Run, IInv
<1>2. ASSUME NEW r \in RowsOfTiles, NEW c \in RowsOfTiles
      PROVE  tile[<<r, c>>] = Contents(r, c)
  <2>1. <<r, c>> \in Tiles
    BY DEF Tiles, Block!Tiles, RowsOfTiles
  <2> QED
    BY <1>1, <2>1
<1>3. ASSUME NEW r \in RowsOfTiles, NEW c \in RowsOfTiles, t.tile = <<r, c>>
      PROVE  tile' = [tile EXCEPT ![<<r, c>>] = Effect(t, tile[<<r, c>>])]
  BY <1>1, <1>3
<1>4. CASE IsCopy(t)
  <2>1. PICK r, c \in RowsOfTiles : t = CopyOf(r, c)
    BY <1>4 DEF IsCopy
  <2>2. t.tile = <<r, c>> /\ t.at[3] = Copy
    BY <1>1, <2>1, Kinds
  <2>3. tile[<<r, c>>] = Block!Blank
    BY <1>2, <2>1, RunCopy, Zenon
  <2>4. Block!Load(r, c)
    <3>1. Effect(t, tile[<<r, c>>]) = [stage |-> "input", sub |-> {}, low |-> FALSE]
      BY <2>2, EffectOf, Zenon
    <3>2. tile' = [tile EXCEPT ![<<r, c>>] = [stage |-> "input", sub |-> {}, low |-> FALSE]]
      BY <1>3, <2>2, <3>1, Zenon
    <3> QED
      BY <1>1, <2>3, <3>2, Zenon DEF Block!Load, Block!Put
  <2> QED
    BY <2>4 DEF Block!Next, RowsOfTiles
<1>5. CASE IsFactor(t)
  <2>1. PICK r, c \in RowsOfTiles : c <= r /\ t = FactorOf(r, c)
    BY <1>5 DEF IsFactor
  <2>2. t.tile = <<r, c>> /\ t.at[3] \in {Potrf, Trsm}
    BY <1>1, <2>1, Kinds
  <2>3. /\ tile[<<r, c>>].stage = "input" /\ tile[<<r, c>>].sub = 0..(c - 1)
        /\ r # c => Block!IsFactor(c, c)
    BY <1>2, <2>1, RunFactor DEF Block!IsFactor
  <2>4. Block!Factor(r, c)
    <3> DEFINE old == tile[<<r, c>>]
    <3>1. Effect(t, old) = [stage |-> "factor", sub |-> old.sub, low |-> old.low]
      BY <2>2, EffectOf, Zenon
    <3>2. tile' = [tile EXCEPT ![<<r, c>>] =
                    [stage |-> "factor", sub |-> old.sub, low |-> old.low]]
      <4>1. tile' = [tile EXCEPT ![<<r, c>>] = Effect(t, old)]
        BY <1>3, <2>2
      <4> HIDE DEF old
      <4> QED
        BY <3>1, <4>1, Zenon
    <3> QED
      BY <1>1, <2>1, <2>3, <3>2, Zenon DEF Block!Factor, Block!Put
  <2> QED
    BY <2>4 DEF Block!Next, RowsOfTiles
<1>6. CASE IsUpdate(t)
  <2>1. PICK r, c, j \in RowsOfTiles : j < c /\ c <= r /\ t = UpdateOf(r, c, j)
    BY <1>6 DEF IsUpdate
  <2>2. t.tile = <<r, c>> /\ t.at[3] \in {Syrk, Gemm} /\ t.at[1] = j
    BY <1>1, <2>1, Kinds
  <2>3. /\ tile[<<r, c>>].stage = "input" /\ j \notin tile[<<r, c>>].sub
        /\ Block!IsFactor(r, j) /\ Block!IsFactor(c, j)
    BY <1>2, <2>1, RunUpdate DEF Block!IsFactor
  <2>4. Block!Subtract(r, c, j)
    <3> DEFINE old == tile[<<r, c>>]
    <3>1. Effect(t, old) = [stage |-> "input", sub |-> old.sub \union {j}, low |-> old.low]
      <4> HIDE DEF old
      <4>1. Effect(t, old) =
              [stage |-> old.stage, sub |-> old.sub \union {t.at[1]}, low |-> old.low]
        BY <2>2, EffectOf, Zenon
      <4>2. old.stage = "input"
        BY <2>3 DEF old
      <4>3. Effect(t, old) =
              [stage |-> "input", sub |-> old.sub \union {t.at[1]}, low |-> old.low]
        BY <4>1, <4>2, Zenon
      <4> QED
        BY <2>2, <4>3, Zenon
    <3>2. tile' = [tile EXCEPT ![<<r, c>>] =
                    [stage |-> "input", sub |-> old.sub \union {j}, low |-> old.low]]
      <4>1. tile' = [tile EXCEPT ![<<r, c>>] = Effect(t, old)]
        BY <1>3, <2>2
      <4> HIDE DEF old
      <4> QED
        BY <3>1, <4>1, Zenon
    <3> QED
      BY <1>1, <2>1, <2>3, <3>2, Zenon DEF Block!Subtract, Block!Put
  <2> QED
    BY <2>4 DEF Block!Next, RowsOfTiles
<1>7. CASE IsTril(t)
  <2>1. PICK r, c \in RowsOfTiles : t = TrilOf(r, c)
    BY <1>7 DEF IsTril
  <2>2. t.tile = <<r, c>> /\ t.at[3] = Tril
    BY <1>1, <2>1, Kinds
  <2>3. IF c <= r THEN Block!IsFactor(r, c) ELSE tile[<<r, c>>].stage = "input"
    BY <1>2, <2>1, RunTril DEF Block!IsFactor
  <2>4. Block!Zero(r, c)
    <3> DEFINE old == tile[<<r, c>>]
    <3>1. Effect(t, old) = [stage |-> old.stage, sub |-> old.sub, low |-> TRUE]
      BY <2>2, EffectOf, Zenon
    <3>2. tile' = [tile EXCEPT ![<<r, c>>] =
                    [stage |-> old.stage, sub |-> old.sub, low |-> TRUE]]
      <4>1. tile' = [tile EXCEPT ![<<r, c>>] = Effect(t, old)]
        BY <1>3, <2>2
      <4> HIDE DEF old
      <4> QED
        BY <3>1, <4>1, Zenon
    <3> QED
      BY <1>1, <2>3, <3>2, Zenon DEF Block!Zero, Block!Put
  <2> QED
    BY <2>4 DEF Block!Next, RowsOfTiles
<1> QED
  BY <1>1, <1>4, <1>5, <1>6, <1>7 DEF IsPoint

\* However the runtime orders the points, the tiles go through a blocked
\* Cholesky factorisation.
THEOREM FactorsInBlocks == Spec => ImplementsBlock
<1>1. ASSUME Init
      PROVE  Block!Init
  BY <1>1, ColorsPositive DEF Init, Block!Init, Tiles
<1>2. ASSUME IInv, [Next]_vars
      PROVE  [Block!Next]_<<n, tile>>
  <2>1. CASE Python
    BY <2>1 DEF Python, TransposeCopy, FactorDiagonal, SolvePanel, UpdateDiagonal,
       UpdatePanel, LowerTriangle, Submit
  <2>2. CASE Task
    BY <1>2, <2>2, RunImplements DEF Task
  <2>3. CASE UNCHANGED vars
    BY <2>3 DEF vars
  <2> QED
    BY <1>2, <2>1, <2>2, <2>3 DEF Next, Terminated
<1> QED
  BY <1>1, <1>2, Invariant, PTL DEF Spec, ImplementsBlock, Block!Spec
=============================================================================
