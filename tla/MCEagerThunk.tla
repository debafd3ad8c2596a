--------------------------- MODULE MCEagerThunk ---------------------------
(* EagerThunk with three or four thunks and two-element arrays. *)
EXTENDS EagerThunk, TLC

\* A slice of one element, and a permutation of both as transpose gives.
MCKeys == {<<2>>, <<2, 1>>}
MCSlice == {<<2>>}
\* The transpose of a matrix of two by two.
MCTranspose == {<<1, 3, 2, 4>>}
Symmetry == Permutations(Thunks)

(***************************************************************************)
(* The tree of views together with one operation that does not respect it. *)
(***************************************************************************)
StaleKeySpec ==
  Init /\ [][TreeNext \/ \E t \in Thunks, s, k \in Live : GetItemAdvanced(t, s, k)]_vars
\* Complex arrays and flips: roots in the memory of another root.
DonateSpec ==
  Init /\ [][TreeNext \/ \E t \in Thunks, r \in Live : Flip(t, r) \/ Part(t, r)]_vars
SortSpec == Init /\ [][TreeNext \/ \E t \in Live : SortInPlace(t)]_vars
FactorSpec == Init /\ [][TreeNext \/ \E q \in Thunks, a \in Live : Factor(q, a)]_vars
ItemSpec == Init /\ [][TreeNext \/ \E t \in Thunks, r \in Live : Item(t, r)]_vars
ReshapeSpec ==
  Init /\ [][(TreeNext \/ \E t \in Thunks, r \in Live : Reshape(t, r)) /\ Room']_vars
TransposedSpec ==
  Init /\ [][TreeNext \/ \E t, r \in Live : \E key \in KeysToSet(t) : SetItem(t, key, r)]_vars
=============================================================================
