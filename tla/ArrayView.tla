----------------------------- MODULE ArrayView -----------------------------
(***************************************************************************)
(* Views of one-dimensional memory, shared by the specifications of the    *)
(* array heap.  A location is a base (a buffer or a store) and the tuple   *)
(* of its cells that the array shows, in order; a key of get_item,         *)
(* reshape, squeeze, swapaxes, transpose or broadcast_to is the tuple of   *)
(* positions of the parent that the child shows.                           *)
(***************************************************************************)
EXTENDS Naturals, Sequences, FiniteSets

\* The elements of s at the positions of key.
Sel(s, key) == [i \in DOMAIN key |-> s[key[i]]]

\* What an array at location l contains when memory is m.
ReadAt(m, l) == Sel(m[l.base], l.cells)

\* The values v seen at n positions: numpy repeats a single value.
Spread(v, n) == IF Len(v) = 1 THEN [i \in 1..n |-> v[1]] ELSE v

\* v can be assigned to n positions.
Fits(v, n) == Len(v) \in {1, n}

\* Memory m after the array at location l is assigned the values v.
PutAt(m, l, v) ==
  LET w == Spread(v, Len(l.cells))
  IN [m EXCEPT ![l.base] =
        [c \in DOMAIN @ |->
           IF \E i \in DOMAIN l.cells : l.cells[i] = c
           THEN w[CHOOSE i \in DOMAIN l.cells : l.cells[i] = c]
           ELSE @[c]]]

\* The location of the view that key selects of the array at l.
ViewAt(l, key) == [l EXCEPT !.cells = Sel(@, key)]
=============================================================================
