------------------------------ MODULE Joining ------------------------------
(***************************************************************************)
(* Arrays made of several: concatenate and its relatives, block, insert.   *)
(*                                                                         *)
(* The result is an empty array into which each input is assigned at the   *)
(* slices that were collected for it.  Types and out= are left out.        *)
(***************************************************************************)
EXTENDS Views

CONSTANT Unset   \* what memory holds that was never assigned

\* array_joining.check_shape_dtype_without_axis
SameNdim(inputs) == inputs # << >> /\ \A j \in DOMAIN inputs : Ndim(inputs[j]) = Ndim(inputs[1])

\* The inputs agree in every dimension but the one along which they are joined.
check_shape_with_axis(inputs, axis) ==
  LET n == Ndim(inputs[1])
  IN /\ AxisFits(axis, n)
     /\ \A j \in DOMAIN inputs : \A d \in (1..n) \ { Dim(axis, n) } :
          inputs[j].shape[d] = inputs[1].shape[d]

\* An empty array after each piece was assigned at its slices << lo, hi >> of the last dimensions.
Assembled(shape, pieces) ==
  LET n == Len(shape)
      lead(p) == n - Len(p.slices)
      lo(p, d) == IF d <= lead(p) THEN 0 ELSE p.slices[d - lead(p)][1]
      hi(p, d) == IF d <= lead(p) \/ shape[d] < p.slices[d - lead(p)][2] THEN shape[d]
                  ELSE p.slices[d - lead(p)][2]
      region(p) == [d \in 1..n |-> hi(p, d) - lo(p, d)]
      assigned == [j \in DOMAIN pieces |-> BroadcastTo(pieces[j].src, region(pieces[j]))]
      Over(i) == { j \in DOMAIN pieces :
                     \A d \in 1..n : i[d] \in lo(pieces[j], d)..(hi(pieces[j], d) - 1) }
      latest(js) == CHOOSE j \in js : \A k \in js : k <= j
  IN IF \E j \in DOMAIN pieces : ~OK(assigned[j]) THEN Failure
     ELSE Build(shape, LAMBDA i :
            IF Over(i) = {} THEN Unset
            ELSE LET j == latest(Over(i)) IN assigned[j].at[[d \in 1..n |-> i[d] - lo(pieces[j], d)]])

\* FAULTY: the offset moves on by the extent of the first input.
Faulty_collect_outshape_slices(inputs, common, d) ==
  LET own == SelectSeq(inputs, LAMBDA x : Size(x) > 0)
      post == [x \in 1..(Len(common) - d) |-> << 0, common[d + x] >>]
      offset(j) == (j - 1) * own[1].shape[d]
  IN [shape |-> ReplaceAt(common, d, SumOf([j \in DOMAIN inputs |-> inputs[j].shape[d]])),
      pieces |-> [j \in DOMAIN own |->
                    [slices |-> << << offset(j), offset(j) + own[j].shape[d] >> >> \o post,
                     src |-> own[j]]]]

\* The shape of the result, and the slices from dimension d on of each input that is not empty.
_collect_outshape_slices(inputs, common, d) ==
  LET own == SelectSeq(inputs, LAMBDA x : Size(x) > 0)
      post == [x \in 1..(Len(common) - d) |-> << 0, common[d + x] >>]
      offset(j) == SumOf([k \in 1..(j - 1) |-> own[k].shape[d]])
  IN [shape |-> ReplaceAt(common, d, SumOf([j \in DOMAIN inputs |-> inputs[j].shape[d]])),
      pieces |-> [j \in DOMAIN own |->
                    [slices |-> << << offset(j), offset(j) + own[j].shape[d] >> >> \o post,
                     src |-> own[j]]]]

_concatenate(inputs, axis) ==
  LET c == _collect_outshape_slices(inputs, inputs[1].shape, Dim(axis, Ndim(inputs[1])))
  IN Assembled(c.shape, c.pieces)

\* The checks and the joining that concatenate and its relatives share.
Joined(inputs, axis) ==
  IF \E j \in DOMAIN inputs : ~OK(inputs[j]) THEN Failure
  ELSE IF ~SameNdim(inputs) THEN Failure
  ELSE IF ~check_shape_with_axis(inputs, axis) THEN Failure
  ELSE _concatenate(inputs, axis)

concatenate(inputs, axis) == Joined(inputs, axis)
\* axis=None
concatenate_flat(inputs) ==
  LET atleast == _atleast_nd(1, inputs)
  IN Joined([j \in DOMAIN atleast |-> ravel(atleast[j])], 0)
append(arr, values, axis) == concatenate(<< arr, values >>, axis)

stack(arrays, axis) ==
  LET n == Ndim(arrays[1]) + 1
      new == [j \in DOMAIN arrays |-> reshape(arrays[j], InsertAt(arrays[j].shape, Dim(axis, n), 1))]
  IN IF \E j \in DOMAIN arrays : arrays[j].shape # arrays[1].shape THEN Failure
     ELSE IF ~AxisFits(axis, n) THEN Failure
     ELSE IF \E j \in DOMAIN new : ~OK(new[j]) THEN Failure
     ELSE _concatenate(new, axis % n)
vstack(tup) == Joined(_atleast_nd(2, tup), 0)
dstack(tup) == Joined(_atleast_nd(3, tup), 2)
hstack(tup) ==
  LET t == _atleast_nd(1, tup) IN Joined(t, IF Ndim(t[1]) = 1 THEN 0 ELSE 1)
column_stack(tup) ==
  LET t == _atleast_nd(1, tup)
  IN IF ~SameNdim(t) THEN Failure
     ELSE Joined(IF Ndim(t[1]) = 1 THEN [j \in DOMAIN t |-> reshape(t[j], << t[j].shape[1], 1 >>)]
                 ELSE t, 1)

-----------------------------------------------------------------------------
(* block: nested lists, [list |-> the members], whose leaves are arrays.   *)

IsList(x) == "list" \in DOMAIN x

\* The depth of a balanced tree of lists, -1 when the tree is not balanced.
RECURSIVE check_list_depth(_)
check_list_depth(x) ==
  IF ~IsList(x) THEN 0
  ELSE LET depths == { check_list_depth(x.list[j]) : j \in DOMAIN x.list }
       IN IF Cardinality(depths) # 1 \/ -1 \in depths THEN -1
          ELSE 1 + CHOOSE n \in depths : TRUE

Padded(shape, n) == [x \in 1..(n - Len(shape)) |-> 1] \o shape

_leading(subs, d) == SumOf([j \in DOMAIN subs |-> subs[j][d]])

RECURSIVE _block_collect_slices(_, _, _)
_block_collect_slices(x, cur, depth) ==
  IF cur = depth
  THEN LET arrays == x.list
       IN IF \E j \in DOMAIN arrays : Ndim(arrays[j]) # Ndim(arrays[1]) THEN Failure
          ELSE IF Ndim(arrays[1]) = 0 THEN Failure
          ELSE IF ~check_shape_with_axis(arrays, -1) THEN Failure
          ELSE _collect_outshape_slices(arrays, arrays[1].shape, Ndim(arrays[1]))
  ELSE LET subs == [j \in DOMAIN x.list |-> _block_collect_slices(x.list[j], cur + 1, depth)]
           ndims == { Len(subs[j].shape) : j \in DOMAIN subs } \union { 1 + depth - cur }
           n == CHOOSE m \in ndims : \A k \in ndims : k <= m
           shapes == [j \in DOMAIN subs |-> Padded(subs[j].shape, n)]
           d == n - (depth - cur)
           offset(j) == SumOf([k \in 1..(j - 1) |-> shapes[k][d]])
       IN IF \E j \in DOMAIN subs : ~OK(subs[j]) THEN Failure
          ELSE [shape |-> ReplaceAt(shapes[1], d, _leading(shapes, d)),
                pieces |-> FlattenSeq([j \in DOMAIN subs |->
                  [m \in DOMAIN subs[j].pieces |->
                     [slices |-> << << offset(j), offset(j) + shapes[j][d] >> >>
                                 \o subs[j].pieces[m].slices,
                      src |-> subs[j].pieces[m].src]]])]

block(x) ==
  IF check_list_depth(x) < 1 THEN Failure
  ELSE LET c == _block_collect_slices(x, 1, check_list_depth(x))
       IN IF ~OK(c) THEN Failure ELSE Assembled(c.shape, c.pieces)

-----------------------------------------------------------------------------
(* insert, along an axis.  obj is an array of indices; what is left of it  *)
(* in the caller's hands is part of the result.                            *)

\* The elements lo..hi-1 along dimension d.
Along(a, d, lo, hi) == SliceDim(a, d, lo, hi)

\* One index: the values, with as many dimensions as arr, go before it as a block.
InsertOne(arr, obj, values, d) ==
  LET n == arr.shape[d]
      given == Elements(obj)[1]
      index == IF given < 0 THEN given + n ELSE given
      ndmin == Reshaped(values, Padded(values.shape, Ndim(arr)))
      vals == IF Ndim(obj) = 0 THEN moveaxis(ndmin, << 0 >>, << d - 1 >>) ELSE ndmin
      new == vals.shape[d]
      slices(lo, hi) == [x \in DOMAIN arr.shape |-> IF x = d THEN << lo, hi >> ELSE << 0, arr.shape[x] >>]
  IN IF given \notin (-n)..n THEN Failure
     ELSE Assembled(ReplaceAt(arr.shape, d, n + new),
            << [slices |-> slices(0, index), src |-> Along(arr, d, 0, index)],
               [slices |-> slices(index, index + new), src |-> vals],
               [slices |-> slices(index + new, n + new), src |-> Along(arr, d, index, n)] >>)

\* Where the new elements go: each index, raised by the number of those before it in sorted
\* order (argsort is stable).
Places(ks) ==
  LET before(j) == Cardinality({ k \in DOMAIN ks : ks[k] < ks[j] \/ (ks[k] = ks[j] /\ k < j) })
  IN [j \in DOMAIN ks |-> ks[j] + before(j)]

InsertMany(arr, obj, values, d) ==
  LET n == arr.shape[d]
      m == obj.shape[1]
      ks == Places([j \in 1..m |-> IF obj.at[<< j - 1 >>] < 0 THEN obj.at[<< j - 1 >>] + n
                                   ELSE obj.at[<< j - 1 >>]])
      total == n + m
      spots == { ks[j] % total : j \in 1..m }
      vals == BroadcastTo(values, ReplaceAt(arr.shape, d, m))
      \* new[:, old_mask] = arr broadcasts arr to the shape with the mask's dimension first
      others == BroadcastTo(arr, << n >> \o RemoveAt(arr.shape, d))
      old(i) == Cardinality((0..(i - 1)) \ spots)
  IN IF \E j \in 1..m : ks[j] \notin (-total)..(total - 1) THEN Failure
     \* arr is assigned at as many places as it has elements
     ELSE IF ~OK(vals) \/ ~OK(others) \/ Cardinality(spots) # m THEN Failure
     ELSE Build(ReplaceAt(arr.shape, d, total), LAMBDA i :
            IF i[d] \in spots
            THEN vals.at[[i EXCEPT ![d] = (CHOOSE j \in 1..m : ks[j] % total = i[d]) - 1]]
            ELSE others.at[<< old(i[d]) >> \o RemoveAt(i, d)])

insert(arr, obj, values, axis) ==
  IF ~AxisFits(axis, Ndim(arr)) \/ Ndim(obj) > 1 THEN Failure
  ELSE IF Size(obj) = 1 THEN InsertOne(arr, obj, values, Dim(axis, Ndim(arr)))
  ELSE InsertMany(arr, obj, values, Dim(axis, Ndim(arr)))

\* What the application's index array holds afterwards: insert raises the indices in place
\* when it is one of the library's arrays.
ObjAfterInsert(arr, obj, axis) ==
  LET n == arr.shape[Dim(axis, Ndim(arr))]
      ks == Places([j \in 1..obj.shape[1] |-> obj.at[<< j - 1 >>] +
                      (IF obj.at[<< j - 1 >>] < 0 THEN n ELSE 0)])
  IN IF Size(obj) = 1 THEN obj ELSE Build(obj.shape, LAMBDA i : ks[i[1] + 1])
=============================================================================
