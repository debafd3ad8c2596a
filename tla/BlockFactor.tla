---------------------------- MODULE BlockFactor ----------------------------
(***************************************************************************)
(* What a blocked Cholesky factorisation of a matrix of n by n tiles is:   *)
(* A tile of the lower triangle has the product of panel j subtracted once *)
(* for each j left of it, from factors that are final, and then becomes a  *)
(* factor itself; above the diagonal there is nothing to compute.  Nothing *)
(* here says in which order the tiles are visited.                         *)
(***************************************************************************)
EXTENDS Naturals

VARIABLES
  n,        \* number of rows of tiles
  tile      \* <<row, column>> -> stage, panels subtracted, upper part zeroed

Tiles == (0..(n - 1)) \X (0..(n - 1))
Blank == [stage |-> "blank", sub |-> {}, low |-> FALSE]
IsFactor(r, c) == tile[<<r, c>>].stage = "factor"
Put(r, c, stage, sub, low) ==
  /\ tile' = [tile EXCEPT ![<<r, c>>] = [stage |-> stage, sub |-> sub, low |-> low]]
  /\ UNCHANGED n

Init == n \in Nat /\ tile = [rc \in Tiles |-> Blank]

\* The tile receives the input.
Load(r, c) ==
  /\ tile[<<r, c>>] = Blank
  /\ Put(r, c, "input", {}, FALSE)

\* Subtract L[r,j] L[c,j]^H.
Subtract(r, c, j) ==
  LET t == tile[<<r, c>>]
  IN /\ j < c /\ c <= r
     /\ t.stage = "input" /\ j \notin t.sub
     /\ IsFactor(r, j) /\ IsFactor(c, j)
     /\ Put(r, c, "input", t.sub \union {j}, t.low)

\* L[c,c], or L[r,c] which needs L[c,c].
Factor(r, c) ==
  LET t == tile[<<r, c>>]
  IN /\ c <= r
     /\ t.stage = "input" /\ t.sub = 0..(c - 1)
     /\ r # c => IsFactor(c, c)
     /\ Put(r, c, "factor", t.sub, t.low)

\* What is above the diagonal becomes zero, once the tile is final.
Zero(r, c) ==
  LET t == tile[<<r, c>>]
  IN /\ IF c <= r THEN IsFactor(r, c) ELSE t.stage = "input"
     /\ Put(r, c, t.stage, t.sub, TRUE)

Next ==
  \E r, c \in 0..(n - 1) :
    \/ Load(r, c) \/ Factor(r, c) \/ Zero(r, c)
    \/ \E j \in 0..(n - 1) : Subtract(r, c, j)

Spec == Init /\ [][Next]_<<n, tile>>
=============================================================================
