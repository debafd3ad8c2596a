---------------------------- MODULE ElementTasks ----------------------------
(***************************************************************************)
(* The element-wise operations and the reductions of deferred arrays: the  *)
(* launches of each, in order.                                             *)
(***************************************************************************)
EXTENDS TaskKernels

CONSTANTS TempBase, TempSize    \* where temporaries live in the memory

\* A fresh array.
Temp(k, shape) == Build(shape, LAMBDA i : TempBase + k * TempSize + Place(shape, i))

Fill(a, v) == << Task("FILL", [out |-> Out(a)], {}, [value |-> v]) >>
CopyTask(to, from) ==
  << Task("UNARY_OP", [lhs |-> Out(to), rhs |-> In(from)], {Align("lhs", "rhs")}, [op |-> "COPY"]) >>

\* _copy_if_overlapping: the operand, or a fresh copy of it (number k), and the launch that copies.
_copy_if_overlapping(a, self, k) == IF Overlaps(a, self) THEN Temp(k, a.shape) ELSE a
\* FAULTY: nothing is saved.
Faulty_copy_if_partially_overlapping(a, self, k) == a
_copy_if_partially_overlapping(a, self, k) ==
  IF EqualStorage(a, self) THEN a ELSE _copy_if_overlapping(a, self, k)
Copying(copy, a) == IF copy = a THEN << >> ELSE CopyTask(copy, a)

-----------------------------------------------------------------------------
(* Element-wise operations.                                                *)

unary_op(self, op, rhs, multiout) ==
  LET r == _copy_if_partially_overlapping(rhs, self, 0)
      args == [lhs |-> Out(self), rhs |-> In(_broadcast(r, self.shape))]
  IN Copying(r, rhs)
     \o << IF OK(multiout)
           THEN Task("UNARY_OP", [x \in {"lhs", "rhs", "out1"} |-> IF x = "out1" THEN Out(multiout) ELSE args[x]],
                     {Align("lhs", "rhs"), Align("out1", "rhs")}, [op |-> op])
           ELSE Task("UNARY_OP", args, {Align("lhs", "rhs")}, [op |-> op]) >>

binary_op(self, op, rhs1, rhs2) ==
  LET r1 == _copy_if_partially_overlapping(rhs1, self, 0)
      r2 == _copy_if_partially_overlapping(rhs2, self, 1)
  IN Copying(r1, rhs1) \o Copying(r2, rhs2)
     \o << Task("BINARY_OP", [lhs |-> Out(self), rhs1 |-> In(_broadcast(r1, self.shape)),
                              rhs2 |-> In(_broadcast(r2, self.shape))],
                {Align("lhs", "rhs1"), Align("lhs", "rhs2")}, [op |-> op]) >>

isclose(self, rhs1, rhs2) == binary_op(self, "ISCLOSE", rhs1, rhs2)

where(self, rhs1, rhs2, rhs3) ==
  << Task("WHERE", [lhs |-> Out(self), rhs1 |-> In(_broadcast(rhs1, self.shape)),
                    rhs2 |-> In(_broadcast(rhs2, self.shape)), rhs3 |-> In(_broadcast(rhs3, self.shape))],
          {Align("lhs", "rhs1"), Align("lhs", "rhs2"), Align("lhs", "rhs3")}, [none |-> 0]) >>

convert(self, rhs, to, nan_op) ==
  << Task("CONVERT", [lhs |-> Out(self), rhs |-> In(rhs)], {Align("lhs", "rhs")}, [to |-> to, nan_op |-> nan_op]) >>

choose(self, ind, c0, c1) ==
  << Task("CHOOSE", [out |-> Out(self), ind |-> In(_broadcast(ind, self.shape)),
                     c0 |-> In(_broadcast(c0, self.shape)), c1 |-> In(_broadcast(c1, self.shape))],
          {Align("ind", "out"), Align("ind", "c0"), Align("ind", "c1")}, [none |-> 0]) >>

select(self, cond, choice, default) ==
  LET To(a) == In(_broadcast(a, self.shape))
  IN << Task("SELECT", [out |-> Out(self), cond0 |-> To(cond[1]), cond1 |-> To(cond[2]),
                        c0 |-> To(choice[1]), c1 |-> To(choice[2])],
             { Align(x, "out") : x \in {"cond0", "cond1", "c0", "c1"} }, [default |-> default]) >>

putmask(self, mask, values) ==
  LET v == _copy_if_partially_overlapping(values, self, 0)
  IN Copying(v, values)
     \o << Task("PUTMASK", [self |-> InOut(self), mask |-> In(mask), values |-> In(_broadcast(v, self.shape))],
                {Align("self", "mask"), Align("self", "values")}, [none |-> 0]) >>

trilu(self, rhs, k, lower) ==
  << Task("TRILU", [lhs |-> Out(self), rhs |-> In(_broadcast(rhs, self.shape))], {Align("lhs", "rhs")},
          [k |-> k, lower |-> lower]) >>

-----------------------------------------------------------------------------
(* Reductions.                                                             *)

Lowest == -90000
Highest == 90000
ArgReds == {"ARGMAX", "ARGMIN"}
RedOf(op) ==
  CASE op \in {"SUM", "SUM_SQUARES", "VARIANCE", "NANSUM", "COUNT_NONZERO"} -> "ADD"
    [] op \in {"PROD", "NANPROD", "ALL"} -> "MUL"
    [] op \in {"MAX", "MIN", "ARGMAX", "ARGMIN"} -> op
    [] op \in {"CONTAINS", "ANY"} -> "OR"
IdentityOf(op) ==
  CASE RedOf(op) \in {"ADD", "OR"} -> 0
    [] RedOf(op) = "MUL" -> 1
    [] op \in {"MAX", "ARGMAX"} -> Lowest
    [] op \in {"MIN", "ARGMIN"} -> Highest

\* where: an array, or Failure when there is none.
WithMask(args, mask) ==
  IF OK(mask) THEN [x \in DOMAIN args \union {"where"} |-> IF x = "where" THEN In(mask) ELSE args[x]] ELSE args
MaskAligned(mask) == IF OK(mask) THEN {Align("rhs", "where")} ELSE {}

_scalar_unary_reduction(op, lhs, rhs, mask, args) ==
  LET one == FoldLeft(LAMBDA s, d : Project(s, 1, 0), lhs, [d \in 1..(Ndim(lhs) - 1) |-> d])
  IN << Task("SCALAR_UNARY_RED", WithMask([lhs |-> Red(one, RedOf(op)), rhs |-> In(rhs)], mask),
             MaskAligned(mask), args @@ [op |-> op, shape |-> rhs.shape]) >>

\* axis counts from 0, as in the code.
_single_axis_unary_reduction(op, lhs, rhs, mask, axis, keepdims, args) ==
  LET projected == IF keepdims THEN Project(lhs, axis + 1, 0) ELSE lhs
      result == Promote(projected, axis + 1, rhs.shape[axis + 1])
  IN << Task("UNARY_RED", WithMask([lhs |-> Red(result, RedOf(op)), rhs |-> In(rhs)], mask),
             MaskAligned(mask) \union {Align("lhs", "rhs")}, args @@ [op |-> op, axis |-> axis]) >>

SortedAxes(axes) == Reverse(Ascending(axes))

\* One axis at a time, through temporaries.
_multi_axis_unary_reduction(op, lhs, rhs, mask, axes, keepdims, args) ==
  LET order == SortedAxes(axes)
      Less(shape, axis) == IF keepdims THEN [shape EXCEPT ![axis + 1] = 1] ELSE RemoveAt(shape, axis + 1)
      Step(s, n) ==
        LET final == n = Len(order)
            to == IF final THEN lhs ELSE Temp(n, Less(s.rhs.shape, order[n]))
        IN [rhs |-> to,
            tasks |-> s.tasks \o (IF final THEN << >> ELSE Fill(to, IdentityOf(op)))
                      \o _single_axis_unary_reduction(op, to, s.rhs, IF n = 1 THEN mask ELSE Failure,
                                                      order[n], keepdims, args)]
  IN FoldLeft(Step, [rhs |-> rhs, tasks |-> << >>], [n \in DOMAIN order |-> n]).tasks

unary_reduction(self, op, rhs, mask, axes, keepdims, args, initial) ==
  LET lhs == IF op \in ArgReds THEN Temp(0, self.shape) ELSE self
      start == IF initial = Garbage THEN IdentityOf(op) ELSE initial
      axis == CHOOSE x \in axes : TRUE
  IN Fill(lhs, start)
     \o (IF Size(lhs) = 1 THEN _scalar_unary_reduction(op, lhs, rhs, mask, args)
         ELSE IF Cardinality(axes) = 1
         THEN _single_axis_unary_reduction(op, lhs, rhs, mask, axis, keepdims, args)
         ELSE _multi_axis_unary_reduction(op, lhs, rhs, mask, axes, keepdims, args))
     \o (IF op \in ArgReds THEN unary_op(self, "GETARG", lhs, Failure) ELSE << >>)

binary_reduction(self, op, rhs1, rhs2) ==
  LET different == op = "NOT_EQUAL"
      shape == BroadcastShape({rhs1.shape, rhs2.shape})
  IN Fill(self, Bool(~different))
     \o << Task("BINARY_RED", [lhs |-> Red(self, IF different THEN "OR" ELSE "MUL"),
                               rhs1 |-> In(_broadcast(rhs1, shape)), rhs2 |-> In(_broadcast(rhs2, shape))],
                {Align("rhs1", "rhs2")}, [op |-> op]) >>
=============================================================================
