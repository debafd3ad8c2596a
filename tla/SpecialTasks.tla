---------------------------- MODULE SpecialTasks ----------------------------
(***************************************************************************)
(* The other operations of deferred arrays: counts, searches, scans,       *)
(* diagonals, moves of elements, and arrays made from nothing.             *)
(***************************************************************************)
EXTENDS ElementTasks

\* weight: Failure when there is none.
bincount(self, rhs, weight) ==
  LET args == [dst |-> Red(self, "ADD"), src |-> In(rhs)]
      one == OK(weight) /\ Size(weight) = 1
  IN Fill(self, 0)
     \o << Task("BINCOUNT",
                IF OK(weight) THEN [x \in {"dst", "src", "weight"} |-> IF x = "weight" THEN In(weight) ELSE args[x]]
                ELSE args,
                {Broadcast("dst", {0})} \union (IF OK(weight) /\ ~one THEN {Align("src", "weight")} ELSE {}),
                [one |-> one]) >>

histogram(self, src, bins, weights) ==
  Fill(self, 0)
  \o << Task("HISTOGRAM", [dst |-> Red(self, "ADD"), src |-> In(src), bins |-> In(bins), weight |-> In(weights)],
             {Broadcast("bins", {0}), Broadcast("dst", {0}), Align("src", "weight")}, [none |-> 0]) >>

searchsorted(self, rhs, v, left) ==
  Fill(self, IF left THEN Size(rhs) ELSE 0)
  \o << Task("SEARCHSORTED", [self |-> Red(self, IF left THEN "MIN" ELSE "MAX"), rhs |-> In(rhs), v |-> In(v)],
             {Broadcast("v", AllDims(v)), Broadcast("self", AllDims(self)), Align("self", "v")}, [left |-> left]) >>

\* Only the first dimension is cut: the pieces' indices then follow one another in row-major order.
RowsWhole(a) == IF Ndim(a) > 1 THEN {Broadcast("in", 1..(Ndim(a) - 1))} ELSE {}
nonzero(a) == << Task("NONZERO", [in |-> In(a), result |-> Unbound], RowsWhole(a), [none |-> 0]) >>
argwhere(a) == << Task("ARGWHERE", [in |-> In(a), result |-> Unbound], RowsWhole(a), [none |-> 0]) >>

\* Each piece removes its own duplicates; with several processors a tree of reductions does the rest.
unique(a) ==
  << Task("UNIQUE", [in |-> In(a), result |-> Unbound], {}, [none |-> 0]) >>
  \o (IF Procs > 1 THEN << Task("UNIQUE_REDUCE", [in |-> In(a)], {KeepPartition}, [none |-> 0]) >> ELSE << >>)

\* Along the last dimension; another one is swapped with it first, in a copy, and back at the end.
scan(self, rhs, axis) ==
  LET last == axis = Ndim(rhs) - 1
      Swap(a) == TransposeDims(a, [d \in 1..Ndim(a) |->
                                     IF d = axis + 1 THEN Ndim(a) ELSE IF d = Ndim(a) THEN axis + 1 ELSE d])
      swapped == Swap(rhs)
      input == IF last THEN rhs ELSE Temp(0, swapped.shape)
      output == IF last THEN self ELSE input
  IN (IF last THEN << >> ELSE CopyTask(input, swapped))
     \o << Task("SCAN_LOCAL", [lhs |-> Out(output), in |-> In(input), temp |-> Unbound], {Align("in", "lhs")}, [none |-> 0]),
           Task("SCAN_GLOBAL", [lhs |-> InOut(output)], {KeepPartition}, [none |-> 0]) >>
     \o (IF last THEN << >> ELSE CopyTask(self, Swap(output)))

\* FAULTY: the halo leaves out the centre of a filter of odd length.
FaultyHalo(shape) == [d \in DOMAIN shape |-> (shape[d] - 1) \div 2]
Halo(shape) == [d \in DOMAIN shape |-> (shape[d] + 1) \div 2]
convolve(self, input, filter) ==
  << Task("CONVOLVE", [out |-> Out(self), filter |-> In(filter), in |-> In(input), halo |-> In(input)],
          {Align("out", "in"), BloatBy("out", "halo", Halo(filter.shape), Halo(filter.shape)),
           Broadcast("filter", AllDims(filter))}, [shape |-> input.shape, ext |-> filter.shape]) >>

Factors(shape, axis, n) == [d \in DOMAIN shape |-> IF d = axis + 1 THEN n ELSE 1]
\* w: the elements in a byte (8 in the code).
packbits(self, src, axis, bitorder, w) ==
  << Task("PACKBITS", [out |-> Out(self), in |-> In(src)], {ScaleBy(Factors(src.shape, axis, w), "out", "in")},
          [axis |-> axis, bitorder |-> bitorder, w |-> w, extent |-> src.shape[axis + 1]]) >>
unpackbits(self, src, axis, bitorder, w) ==
  << Task("UNPACKBITS", [out |-> Out(self), in |-> In(src)], {ScaleBy(Factors(src.shape, axis, w), "in", "out")},
          [axis |-> axis, bitorder |-> bitorder, w |-> w]) >>
repeat(a, out, repeats, axis) ==
  << Task("REPEAT", [in |-> In(a), out |-> Out(out)], {ScaleBy(Factors(a.shape, axis, repeats), "in", "out")},
          [axis |-> axis, repeats |-> repeats]) >>

Whole(x, dims) == Broadcast(x, dims)

\* axes: the dimensions turned, from 0.
flip(self, rhs, axes) ==
  << Task("FLIP", [out |-> Out(self), in |-> In(rhs)], {Whole("in", AllDims(rhs)), Align("in", "out")}, [axes |-> axes]) >>

tile(self, rhs) ==
  << Task("TILE", [out |-> Out(self), rhs |-> In(rhs)], {Whole("rhs", AllDims(rhs))}, [shape |-> rhs.shape]) >>

in1d(self, ar1, ar2, invert) ==
  << Task("IN1D", [out |-> Out(self), in1 |-> In(ar1), in2 |-> In(ar2)],
          {Whole("in2", AllDims(ar2)), Align("out", "in1")}, [invert |-> invert]) >>

\* The task behind take along the middle of three dimensions; temp is the four-dimensional result.
_take_using_take_task(temp, a, indices, clip) ==
  << Task("TAKE", [res |-> Out(temp), src |-> In(Promote(a, 3, indices.shape[1])), ind |-> In(indices)],
          {Align("src", "res"), Whole("res", {1, 2}), Whole("ind", {0})}, [clip |-> clip, extent |-> a.shape[2]]) >>

\* On GPUs; without them the eager arrays of NumPy do it.
fft(self, rhs, axes) ==
  LET whole == IF rhs.shape = self.shape
               THEN {Align("out", "in"),
                     Whole("in", IF Ndim(rhs) > Cardinality(axes) THEN axes ELSE AllDims(rhs))}
               ELSE {Whole("out", AllDims(self)), Whole("in", AllDims(rhs))}
  IN << Task("FFT", [out |-> Out(self), in |-> In(rhs)], whole, [axes |-> axes, shape |-> rhs.shape]) >>

From(a, d, n) == SliceDim(a, d, n, a.shape[d])
\* extract: the diagonals of the last naxes dimensions of rhs, or their sum (trace); otherwise
\* self is the matrix that gets the diagonal rhs.
_diag_helper(self, rhs, offset, naxes, extract, trace) ==
  LET ndim == Ndim(rhs)
      start == ndim - naxes
      sliced == IF naxes = 2 /\ offset > 0 THEN From(rhs, start + 2, offset) ELSE rhs
      PromoteAll(s, ks) == FoldLeft(LAMBDA t, k : Promote(t, start + 1, sliced.shape[ndim - k]), s, ks)
      diag == IF naxes = 2
              THEN IF trace
                   THEN IF ndim = 2
                        THEN Promote(Project(Promote(self, 1, sliced.shape[1]), 2, 0), 2, sliced.shape[2])
                        ELSE PromoteAll(self, << 0, 1 >>)
                   ELSE IF sliced.shape[ndim - 1] < sliced.shape[ndim]
                        THEN Promote(self, start + 2, sliced.shape[ndim])
                        ELSE Promote(self, start + 1, sliced.shape[ndim - 1])
              ELSE PromoteAll(self, [i \in 1..(naxes - 1) |-> i])
      matrix == IF offset > 0 THEN From(self, 2, offset)
                ELSE IF offset < 0 THEN From(self, 1, -offset) ELSE self
      spread == IF matrix.shape[1] < matrix.shape[2] THEN Promote(rhs, 2, matrix.shape[2])
                ELSE Promote(rhs, 1, matrix.shape[1])
  IN Fill(self, 0)
     \o (IF extract
         THEN << Task("DIAG", [diag |-> Red(diag, "ADD"), matrix |-> In(sliced)], {Align("matrix", "diag")},
                      [naxes |-> naxes]) >>
         ELSE << Task("DIAG", [matrix |-> InOut(matrix), diag |-> In(spread)], {Align("diag", "matrix")},
                      [naxes |-> naxes]) >>)

\* The store is an input too: the task only writes the diagonal.
Kept(s) == InOut(s)
eye(self, k) == Fill(self, 0) \o << Task("EYE", [out |-> Kept(self)], {}, [k |-> k]) >>

arange(self, start, step) ==
  IF Size(self) = 1 THEN Fill(self, start)
  ELSE << Task("ARANGE", [out |-> Out(self)], {}, [start |-> start, step |-> step]) >>

compute_strides(shape) == [d \in DOMAIN shape |-> Product(SubSeq(shape, d + 1, Len(shape)))]
\* random_uniform, random_normal and random_integer: an element depends on the epoch and on its place.
random(self, epoch) ==
  << Task("RAND", [out |-> Out(self)], {}, [epoch |-> epoch, strides |-> compute_strides(self.shape)]) >>

create_window(self, M) == << Task("WINDOW", [out |-> Out(self)], {}, [M |-> M]) >>

\* WRAP turns the places into points, which may be cut anywhere; the copies then see everything.
put(self, indices, values) ==
  LET v == _copy_if_overlapping(values, self, 0)
      indirect == Temp(1, indices.shape)
  IN Copying(v, values)
     \o << Task("WRAP", [indirect |-> Out(indirect), indices |-> In(indices)], {Align("indices", "indirect")},
                [has_input |-> TRUE, shape |-> self.shape]),
           Task("SCATTER", [self |-> InOut(self), indirect |-> In(indirect), values |-> In(v)],
                { Broadcast(x, 0..1) : x \in {"self", "indirect", "values"} }, [shape |-> self.shape]) >>

_wrap(self, src) ==
  LET indirect == Temp(1, self.shape)
  IN << Task("WRAP", [indirect |-> Out(indirect)], {}, [has_input |-> FALSE, shape |-> src.shape]),
        Task("GATHER", [self |-> Out(self), src |-> In(src), indirect |-> In(indirect)],
             { Broadcast(x, 0..1) : x \in {"self", "src", "indirect"} }, [shape |-> src.shape]) >>
=============================================================================
