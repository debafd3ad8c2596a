------------------------------- MODULE Views -------------------------------
(***************************************************************************)
(* Reshaping, squeezing, transposing and broadcasting of deferred arrays.  *)
(*                                                                         *)
(* ndarray checks and normalises the arguments, the deferred thunk turns   *)
(* them into transformations of its store or into copies.  Axes count from *)
(* 0 and may be negative, as the application passes them; dimensions of    *)
(* NdArray count from 1.                                                   *)
(***************************************************************************)
EXTENDS NdArray

\* numpy.lib normalize_axis_index and normalize_axis_tuple: the dimension an axis stands for.
AxisFits(axis, ndim) == axis \in (-ndim)..(ndim - 1)
Dim(axis, ndim) == (axis % ndim) + 1
AxesFit(axes, ndim) ==
  /\ \A j \in DOMAIN axes : AxisFits(axes[j], ndim)
  /\ IsInjective([j \in DOMAIN axes |-> axes[j] % ndim])
Dims(axes, ndim) == [j \in DOMAIN axes |-> Dim(axes[j], ndim)]

-----------------------------------------------------------------------------
(* Reshape.                                                                *)

\* The inner loop of DeferredArray.reshape: the side with the smaller product gives its next
\* extent to the open group; equal products close it, and take a unit extent of the source.
Turn(in, out, g) ==
  LET fromIn == g.lp < g.rp
      stuck == IF fromIn THEN g.i = Len(in) ELSE g.o = Len(out)
      h == IF fromIn
           THEN [g EXCEPT !.i = @ + 1, !.lp = @ * in[g.i + 1], !.src = Append(@, in[g.i + 1])]
           ELSE [g EXCEPT !.o = @ + 1, !.rp = @ * out[g.o + 1], !.tgt = Append(@, out[g.o + 1])]
      unit == h.i < Len(in) /\ SubSeq(in, h.i + 1, h.i + 1) = << 1 >>
  IN IF g.stuck \/ (g.src = << >> /\ g.tgt = << >> /\ (g.i = Len(in) \/ g.o = Len(out))) THEN g
     ELSE IF stuck THEN [g EXCEPT !.stuck = TRUE]
     ELSE IF h.lp # h.rp THEN h
     ELSE [h EXCEPT !.lp = 1, !.rp = 1, !.src = << >>, !.tgt = << >>,
                    !.i = IF unit THEN @ + 1 ELSE @,
                    !.groups = Append(@, << IF unit THEN Append(h.src, 1) ELSE h.src, h.tgt >>)]

\* The extents behind the last group are units.
Leftovers(in, out, g) ==
  [ok |-> ~g.stuck,
   pairs |-> g.groups \o [n \in 1..(Len(in) - g.i) |-> << << 1 >>, << >> >>]
                      \o [n \in 1..(Len(out) - g.o) |-> << << >>, << 1 >> >>]]

\* Pairs of extents of the two shapes with equal products.
Groups(in, out) ==
  LET open == [i |-> 0, o |-> 0, lp |-> 1, rp |-> 1, src |-> << >>, tgt |-> << >>,
               groups |-> << >>, stuck |-> FALSE]
  IN Leftovers(in, out, FoldLeft(LAMBDA st, n : Turn(in, out, st), open, [n \in 1..(Len(in) + Len(out)) |-> n]))

\* FAULTY: the third case of the table is overlooked.
FaultyBoth(g) == FALSE
Both(g) == Len(g[1]) > 1 /\ Len(g[2]) > 1

OfShape(shape, a) == IF ~OK(a) THEN Failure ELSE IF a.shape # shape THEN Failure ELSE a

\* What a new array of the given shape holds when src is copied into tgt, a view of its places.
CopiedInto(shape, tgt, src) ==
  IF ~OK(src) \/ ~OK(tgt) THEN Failure
  ELSE IF src.shape # tgt.shape THEN Failure
  ELSE Build(shape, LAMBDA p : src.at[CHOOSE i \in DOMAIN tgt.at : tgt.at[i] = Place(shape, p)])

\* The source and a new array, transformed until they have one shape, and copied.
Regrouped(a, pairs) ==
  LET shape == FlattenSeq([n \in DOMAIN pairs |->
                 IF Both(pairs[n]) THEN << Product(pairs[n][2]) >> ELSE pairs[n][2]])
      Match(st, g) ==
        IF g[1] = g[2] THEN [st EXCEPT !.d = @ + 1]
        ELSE IF g[1] = << >> THEN [st EXCEPT !.d = @ + 1, !.src = Promote(@, st.d, 1)]
        ELSE IF g[2] = << >> THEN [st EXCEPT !.d = @ + 1, !.tgt = Promote(@, st.d, 1)]
        ELSE IF Len(g[1]) = 1 
          THEN [st EXCEPT !.d = @ + Len(g[2]), !.src = Delinearize(@, st.d, g[2])]
        ELSE [st EXCEPT !.d = @ + Len(g[1]), !.tgt = Delinearize(@, st.d, g[1])]
      Copied(m) == CopiedInto(shape, m.tgt, m.src)
  IN Copied(FoldLeft(Match, [d |-> 1, src |-> a, tgt |-> Arange(shape)], pairs))

\* The second copy: src_dim moves on only past the groups that are split.
Delinearized(a, pairs) ==
  LET Split(st, g) == IF ~Both(g) THEN st
                      ELSE [d |-> st.d + Len(g[2]), src |-> Delinearize(st.src, st.d, g[2])]
  IN FoldLeft(Split, [d |-> 1, src |-> a], pairs).src

\* No group is split: dimensions of extent 1 are added and dropped.
Realigned(a, pairs) ==
  LET Unit(st, g) ==
        IF g[1] = << >> THEN [d |-> st.d + 1, src |-> Promote(st.src, st.d, 1)]
        ELSE IF g[2] = << >> THEN [d |-> st.d, src |-> Project(st.src, st.d, 0)]
        ELSE [st EXCEPT !.d = @ + 1]
  IN FoldLeft(Unit, [d |-> 1, src |-> a], pairs).src

Convert(a, gs, newshape) ==
  LET linear == \E n \in DOMAIN gs.pairs : Len(gs.pairs[n][1]) > 1
      delinear == \E n \in DOMAIN gs.pairs : Len(gs.pairs[n][2]) > 1
  IN IF ~gs.ok THEN Failure
     ELSE IF ~linear /\ ~delinear THEN Realigned(a, gs.pairs)
     ELSE IF ~linear \/ ~delinear THEN Regrouped(a, gs.pairs)
     ELSE OfShape(newshape, Delinearized(Regrouped(a, gs.pairs), gs.pairs))

\* DeferredArray.reshape
Regroup(a, newshape) ==
  IF a.shape = newshape THEN a ELSE Convert(a, Groups(a.shape, newshape), newshape)

\* ndarray.reshape: one negative extent is worked out from the others.
reshape(a, shape) ==
  LET known == SelectSeq(shape, LAMBDA e : e >= 0)
      volume == Product(known)
      unknowns == Len(shape) - Len(known)
      extent == IF unknowns = 0 THEN 1 ELSE Size(a) \div volume
      flat == IF shape = << -1 >> THEN << 0 >> ELSE shape
  IN IF ~OK(a) THEN Failure
     ELSE IF Size(a) = 0 /\ Ndim(a) > 1
     THEN IF \E d \in DOMAIN flat : flat[d] < 0 THEN Failure
          ELSE IF Product(flat) > 0 THEN Failure ELSE Build(flat, LAMBDA i : 0)
     ELSE IF unknowns > 1 \/ (unknowns = 1 /\ volume = 0) THEN Failure
     ELSE IF extent * volume # Size(a) THEN Failure
     ELSE Regroup(a, [d \in DOMAIN shape |-> IF shape[d] < 0 THEN extent ELSE shape[d]])

ravel(a) == reshape(a, << -1 >>)

\* array_dimension._reshape_recur and _atleast_nd
_reshape_recur(ndim, shape) ==
  FoldLeft(LAMBDA s, n : IF Len(s) >= n THEN s ELSE IF n = 2 THEN << 1 >> \o s ELSE Append(s, 1),
           shape, [n \in 1..ndim |-> n])
_atleast_nd(ndim, arys) ==
  [j \in DOMAIN arys |-> reshape(arys[j], _reshape_recur(ndim, arys[j].shape))]

expand_dims(a, axes) ==
  LET n == Ndim(a) + Len(axes)
      new == ToSet(Dims(axes, n))
      \* the dimensions of a that come before dimension d of the result
      before(d) == Cardinality((1..d) \ new)
  IN IF ~AxesFit(axes, n) THEN Failure
     ELSE reshape(a, [d \in 1..n |-> IF d \in new THEN 1 ELSE a.shape[before(d)]])

-----------------------------------------------------------------------------
(* Squeeze and transpose.                                                  *)

\* DeferredArray.squeeze, given the dimensions in the order of the call.
ProjectAll(a, dims) ==
  FoldLeft(LAMBDA st, d : [s |-> Project(st.s, d + st.shift, 0), shift |-> st.shift - 1],
           [s |-> a, shift |-> 0], dims).s

squeeze(a, axes) ==
  IF ~AxesFit(axes, Ndim(a)) THEN Failure
  ELSE LET dims == Dims(axes, Ndim(a))
       IN IF \E j \in DOMAIN dims : a.shape[dims[j]] # 1 THEN Failure ELSE ProjectAll(a, dims)
squeeze_all(a) == ProjectAll(a, SelectSeq([d \in DOMAIN a.shape |-> d], LAMBDA d : a.shape[d] = 1))

Swapped(ndim, d, e) == [x \in 1..ndim |-> IF x = d THEN e ELSE IF x = e THEN d ELSE x]

swapaxes(a, axis1, axis2) ==
  IF ~AxisFits(axis1, Ndim(a)) \/ ~AxisFits(axis2, Ndim(a)) THEN Failure
  ELSE IF Size(a) = 1 \/ axis1 = axis2 THEN a
  ELSE TransposeDims(a, Swapped(Ndim(a), Dim(axis1, Ndim(a)), Dim(axis2, Ndim(a))))

\* axes is the empty sequence when the application passes None.
transpose(a, axes) ==
  LET n == Ndim(a)
      perm == IF axes = << >> THEN [d \in 1..n |-> n + 1 - d] ELSE [j \in DOMAIN axes |-> axes[j] + 1]
  IN IF ~OK(a) THEN Failure
     ELSE IF n = 1 THEN a
     ELSE IF \E j \in DOMAIN axes : axes[j] >= n THEN Failure
     ELSE TransposeDims(a, perm)

InsertionOrder(dst) == SetToSortSeq(DOMAIN dst, LAMBDA j, k : dst[j] < dst[k])

moveaxis(a, source, destination) ==
  LET n == Ndim(a)
      src == Dims(source, n)
      dst == Dims(destination, n)
      rest == SelectSeq([d \in 1..n |-> d], LAMBDA d : d \notin ToSet(src))
      \* Python's list.insert appends when the place is past the end
      Insert(o, j) == InsertAt(o, IF dst[j] > Len(o) THEN Len(o) + 1 ELSE dst[j], src[j])
      order == FoldLeft(Insert, rest, InsertionOrder(dst))
  IN IF ~AxesFit(source, n) \/ ~AxesFit(destination, n) \/ Len(source) # Len(destination) THEN Failure
     ELSE transpose(a, [d \in DOMAIN order |-> order[d] - 1])

-----------------------------------------------------------------------------
(* Broadcasting.                                                           *)

_broadcast_to(a, shape) ==
  IF ~Broadcasts({ a.shape, shape }) THEN Failure
  ELSE IF BroadcastShape({ a.shape, shape }) # shape THEN Failure
  ELSE _broadcast(a, shape)

_broadcast_arrays(arrs) ==
  LET shapes == { arrs[j].shape : j \in DOMAIN arrs }
  IN [j \in DOMAIN arrs |-> IF ~Broadcasts(shapes) THEN Failure
                            ELSE _broadcast_to(arrs[j], BroadcastShape(shapes))]

\* What iterating over numpy.broadcast yields: the elements of the arrays at the same place.
broadcast(arrs) ==
  LET b == _broadcast_arrays(arrs)
  IN [n \in 1..Size(b[1]) |-> [j \in DOMAIN b |-> Elements(b[j])[n]]]

\* ndarray.flip, by the FLIP task.
flip(a, axes) ==
  LET dims == ToSet(Dims(axes, Ndim(a)))
  IN IF ~OK(a) THEN Failure
     ELSE IF ~AxesFit(axes, Ndim(a)) THEN Failure
     ELSE Build(a.shape, LAMBDA i :
            a.at[[d \in DOMAIN i |-> IF d \in dims THEN a.shape[d] - 1 - i[d] ELSE i[d]]])
=============================================================================
