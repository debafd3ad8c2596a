---------------------------- MODULE SharedViews ----------------------------
(***************************************************************************)
(* NumPy views that the application hands to asarray, or as out=.          *)
(*                                                                         *)
(* They are attached by attaching the array that owns the memory and       *)
(* taking the view again: find_or_create_array_thunk recomputes the key of *)
(* the view from the difference of two addresses and from the strides.     *)
(* Addresses and strides count elements here, not bytes.  The owner is in  *)
(* row-major order and none of its strides is 0, so the branch for such    *)
(* owners is left out.                                                     *)
(***************************************************************************)
EXTENDS NdArray

\* The strides of an array that owns its memory, and what a view of it shows (NumPy).
OwnerStrides(shape) == [d \in DOMAIN shape |-> Product(SubSeq(shape, d + 1, Len(shape)))]
Shown(view) ==
  Build(view.shape, LAMBDA i : view.ptr + SumOf([d \in DOMAIN i |-> i[d] * view.strides[d]]))

\* The items of a key.
Range3(start, stop, step) == [start |-> start, stop |-> stop, step |-> step]
NewDim == [new |-> TRUE]

\* How many of the dimensions of a view, after the first c, are new ones.
NewDims(view, c) ==
  Cardinality({ e \in (c + 1)..Len(view.strides) : \A f \in (c + 1)..e : view.strides[f] = 0 })

\* The key for which the owner[key] is the view, from the left: st.c dimensions of the view are
\* accounted for.
compute_parent_child_mapping(shape, view) ==
  LET ndim == Len(view.shape)
      strides == OwnerStrides(shape)
      offsets == IndexAt(shape, view.ptr)
      Item(st, d) ==
        LET added == [n \in 1..NewDims(view, st.c) |-> NewDim]
            c == st.c + Len(added)
            start == offsets[d]
            dropped == Range3(start, start + 1, 1)
            step == view.strides[c + 1] \div strides[d]
        IN IF ~OK(st) THEN Failure
           ELSE IF st.c = ndim THEN [st EXCEPT !.key = Append(@, dropped)]
           ELSE IF c = ndim THEN Failure
           ELSE IF view.strides[c + 1] < strides[d]
             THEN [key |-> st.key \o Append(added, dropped), c |-> c]
           ELSE [key |-> st.key \o Append(added, Range3(start, start + step * view.shape[c + 1], step)),
                 c |-> c + 1]
      all == FoldLeft(Item, [key |-> << >>, c |-> 0], [d \in DOMAIN shape |-> d])
  IN IF shape = << >> \/ Product(shape) = 0 THEN Failure
     ELSE IF ~OK(all) THEN Failure
     ELSE IF all.c < ndim THEN Failure
     ELSE all

\* owner[key]: NumPy's for an eager owner; a store is sliced with a step of one only.
ItemOf(owner, key, deferred) ==
  LET ranges == SelectSeq(key, LAMBDA k : k # NewDim)
      stop(d) == IF ranges[d].stop > owner.shape[d] THEN owner.shape[d] ELSE ranges[d].stop
      extent(d) == IF stop(d) <= ranges[d].start THEN 0
                   ELSE (stop(d) - ranges[d].start - 1) \div ranges[d].step + 1
      \* the dimension of the owner that item j of the key is about
      dim(j) == Cardinality({ l \in 1..j : key[l] # NewDim })
      item(d) == CHOOSE j \in DOMAIN key : dim(j) = d /\ key[j] # NewDim
  IN IF deferred /\ \E d \in DOMAIN ranges : ranges[d].step # 1 /\ extent(d) > 0 THEN Failure
     ELSE Build([j \in DOMAIN key |-> IF key[j] = NewDim THEN 1 ELSE extent(dim(j))],
                LAMBDA i : owner.at[[d \in DOMAIN ranges |->
                             ranges[d].start + i[item(d)] * ranges[d].step]])

find_or_create_view(shape, view, deferred) ==
  LET mapping == compute_parent_child_mapping(shape, view)
  IN IF ~OK(mapping) THEN Failure ELSE ItemOf(Arange(shape), mapping.key, deferred)

-----------------------------------------------------------------------------
(* The views that the application makes by indexing and transposing.       *)

\* An integer, and a slice that shows n elements; an empty slice starts at 0 in NumPy.
Dropping(k) == [drop |-> TRUE, lo |-> k, n |-> 1, step |-> 1]
Keeping(lo, n, step) == [drop |-> FALSE, lo |-> lo, n |-> n, step |-> step]
CutsOf(n) ==
  IF n = 0 THEN { Keeping(0, 0, 1) }
  ELSE { Dropping(0), Dropping(n - 1), Keeping(0, n, 1), Keeping(n - 1, 1, 1), Keeping(0, 0, 1),
         Keeping(0, (n - 1) \div 2 + 1, 2), Keeping(n - 1, n, -1) }

\* owner[cuts], with a new axis before the dimension new unless that is 0.
ViewOf(shape, cuts, new) ==
  LET strides == OwnerStrides(shape)
      kept == SelectSeq([d \in DOMAIN shape |-> d], LAMBDA d : ~cuts[d].drop)
      extents == [j \in DOMAIN kept |-> cuts[kept[j]].n]
      steps == [j \in DOMAIN kept |-> cuts[kept[j]].step * strides[kept[j]]]
      ptr == SumOf([d \in DOMAIN shape |-> cuts[d].lo * strides[d]])
  IN IF new = 0 THEN [ptr |-> ptr, shape |-> extents, strides |-> steps]
     ELSE [ptr |-> ptr, shape |-> InsertAt(extents, new, 1), strides |-> InsertAt(steps, new, 0)]

AxesReversed(view) == [view EXCEPT !.shape = Reverse(@), !.strides = Reverse(@)]
=============================================================================
