----------------------------- MODULE Splitting -----------------------------
(***************************************************************************)
(* Arrays cut apart, repeated and rearranged: array_split, tile, repeat,   *)
(* compress, delete, roll and rot90, from ndarray down to what the TILE    *)
(* and REPEAT tasks compute.                                               *)
(***************************************************************************)
EXTENDS Joining

\* range(lo, hi, step)
Steps(lo, hi, step) ==
  [n \in 1..(IF hi <= lo THEN 0 ELSE (hi - lo + step - 1) \div step) |-> lo + (n - 1) * step]


\* The ends of n sections of size elements.
SectionEnds(size, n) ==
  LET len == size \div n
      res == size % n
  IN IF len = 0 THEN Steps(1, n + 1, 1)
     ELSE IF res = 0 THEN Steps(len, size + 1, len)
     ELSE Steps(len + 1, (len + 1) * res, len + 1) \o Steps((len + 1) * res, size + 1, len)

\* One array for each of the ends; a section that starts past the last element is empty.
Sections(a, d, ends) ==
  LET size == a.shape[d]
      first(n) == IF n = 1 THEN 0 ELSE ends[n - 1]
      last(n) == IF ends[n] > size THEN size ELSE ends[n]
  IN [n \in DOMAIN ends |->
        IF first(n) < size /\ first(n) < last(n) THEN SliceDim(a, d, first(n), last(n))
        ELSE Build(ReplaceAt(a.shape, d, 0), LAMBDA i : Unset)]

\* indices is a number of sections or a sequence of places, [n |-> ..] or [at |-> ..].
array_split(a, indices, axis, equal) ==
  LET size == a.shape[Dim(axis, Ndim(a))]
  IN IF ~AxisFits(axis, Ndim(a)) THEN Failure
     ELSE IF "at" \in DOMAIN indices
     THEN [parts |-> Sections(a, Dim(axis, Ndim(a)), Append(indices.at, size))]
     ELSE IF indices.n <= 0 \/ (equal /\ size % indices.n # 0) THEN Failure
     ELSE [parts |-> Sections(a, Dim(axis, Ndim(a)), SectionEnds(size, indices.n))]

split(a, indices, axis) == array_split(a, indices, axis, TRUE)
vsplit(a, indices) == split(a, indices, 0)
hsplit(a, indices) == split(a, indices, 1)
dsplit(a, indices) == split(a, indices, 2)

-----------------------------------------------------------------------------
(* tile and repeat.                                                        *)

get_tile_point(p, shape) ==
  [d \in DOMAIN shape |-> p[Len(p) - Len(shape) + d] % shape[d]]

tile(A, reps) ==
  LET n == IF Len(reps) > Ndim(A) THEN Len(reps) ELSE Ndim(A)
      computed == Padded(reps, n)
      offset == n - Ndim(A)
  IN Build([d \in 1..n |-> IF d <= offset THEN computed[d] ELSE A.shape[d - offset] * computed[d]],
           LAMBDA p : A.at[get_tile_point(p, A.shape)])

\* What the REPEAT task computes from one number.
RepeatScalar(a, r, d) ==
  Build(ReplaceAt(a.shape, d, a.shape[d] * r), LAMBDA i : a.at[[i EXCEPT ![d] = @ \div r]])
\* Where the copies of element n, from 0, end along the axis.
Offset(reps, n) == SumOf(SubSeq(reps, 1, n))
RepeatArray(a, reps, d) ==
  Build(ReplaceAt(a.shape, d, Offset(reps, Len(reps))), LAMBDA i :
    a.at[[i EXCEPT ![d] = CHOOSE n \in 0..(Len(reps) - 1) :
                            Offset(reps, n) <= i[d] /\ i[d] < Offset(reps, n + 1)]])

\* repeats is a sequence, or a single number [n |-> ..].
repeat(a, repeats, axis) ==
  LET single == "n" \in DOMAIN repeats
      d == Dim(axis, Ndim(a))
      size == a.shape[d]
      r == IF single THEN repeats.n ELSE repeats.at[1]
  IN IF Ndim(a) = 0
     THEN IF axis \in {-1, 0} /\ (single \/ Len(repeats.at) = 1)
          THEN Build(<< r >>, LAMBDA i : a.at[<< >>]) ELSE Failure
     ELSE IF ~AxisFits(axis, Ndim(a)) THEN Failure
     ELSE IF size = 0 THEN a
     ELSE IF single \/ (Len(repeats.at) = 1 /\ size # 1)
     THEN IF r = 0 THEN Build(ReplaceAt(a.shape, d, 0), LAMBDA i : Unset) ELSE RepeatScalar(a, r, d)
     ELSE IF Len(repeats.at) # size THEN Failure ELSE RepeatArray(a, repeats.at, d)

-----------------------------------------------------------------------------
(* compress and delete.                                                    *)

\* The elements along dimension d where the condition, a sequence of truth values, holds.
compress(condition, a, axis) ==
  LET d == Dim(axis, Ndim(a))
      kept == SelectSeq([n \in DOMAIN condition |-> n], LAMBDA n : condition[n])
  IN IF ~AxisFits(axis, Ndim(a)) THEN Failure
     ELSE IF Len(condition) > a.shape[d] THEN Failure
     ELSE Build(ReplaceAt(a.shape, d, Len(kept)), LAMBDA i : a.at[[i EXCEPT ![d] = kept[@ + 1] - 1]])

_normalize_and_check_indices(obj, size) ==
  LET wrapped == [j \in DOMAIN obj |-> IF obj[j] < 0 THEN obj[j] + size ELSE obj[j]]
  IN IF \E j \in DOMAIN obj : wrapped[j] \notin 0..(size - 1) THEN Failure ELSE [at |-> wrapped]

\* obj is a sequence of indices [at |-> ..], of truth values [mask |-> ..] or a slice [lo, hi].
delete(arr, obj, axis) ==
  LET size == arr.shape[Dim(axis, Ndim(arr))]
      gone == IF "at" \in DOMAIN obj THEN ToSet(_normalize_and_check_indices(obj.at, size).at)
              ELSE obj.lo..(obj.hi - 1)
  IN IF ~AxisFits(axis, Ndim(arr)) THEN Failure
     ELSE IF obj = [at |-> << >>] THEN arr
     ELSE IF "mask" \in DOMAIN obj
     THEN IF Len(obj.mask) # size THEN Failure
          ELSE compress([n \in DOMAIN obj.mask |-> ~obj.mask[n]], arr, axis)
     ELSE IF "at" \in DOMAIN obj
     THEN IF ~OK(_normalize_and_check_indices(obj.at, size)) THEN Failure
          ELSE compress([n \in 1..size |-> (n - 1) \notin gone], arr, axis)
     ELSE compress([n \in 1..size |-> (n - 1) \notin gone], arr, axis)

-----------------------------------------------------------------------------
(* roll and rot90.                                                         *)


\* The shift along each dimension; shifts of one axis add up.
Shifts(ndim, shift, dims) ==
  LET pairs == broadcast(<< shift, dims >>)
  IN [d \in 1..ndim |-> SumOf([n \in DOMAIN pairs |-> IF pairs[n][2] = d THEN pairs[n][1] ELSE 0])]

\* Each part of a, cut in two along every dimension that is shifted, goes to its new place.
RollParts(a, off) ==
  LET n == Ndim(a)
      \* the parts along d, << from, to >> in a and << from, to >> in the result
      cuts(d) == IF off[d] = 0 THEN { << << 0, a.shape[d] >>, << 0, a.shape[d] >> >> }
                 ELSE { << << 0, a.shape[d] - off[d] >>, << off[d], a.shape[d] >> >>,
                        << << a.shape[d] - off[d], a.shape[d] >>, << 0, off[d] >> >> }
      rolls == { r \in [1..n -> UNION { cuts(d) : d \in 1..n }] : \A d \in 1..n : r[d] \in cuts(d) }
      part(r) == FoldLeft(LAMBDA s, d : SliceDim(s, d, r[d][1][1], r[d][1][2]), a, [d \in 1..n |-> d])
  IN Assembled(a.shape, SetToSeq({ [slices |-> [d \in 1..n |-> r[d][2]], src |-> part(r)] : r \in rolls }))

roll(a, shift, axes) ==
  LET n == Ndim(a)
      Off(shifts) == [d \in 1..n |-> IF a.shape[d] = 0 THEN 0 ELSE shifts[d] % a.shape[d]]
  IN IF \E i \in DOMAIN axes.at : ~AxisFits(axes.at[i], n) THEN Failure
     ELSE IF ~Broadcasts({ shift.shape, axes.shape }) THEN Failure
     ELSE RollParts(a, Off(Shifts(n, shift, Build(axes.shape, LAMBDA i : Dim(axes.at[i], n)))))

\* axis=None
roll_flat(a, shift) == reshape(roll(ravel(a), shift, Build(<< >>, LAMBDA i : 0)), a.shape)


rot90(m, k, axes) ==
  LET n == Ndim(m)
      swapped == [d \in 1..n |-> Swapped(n, Dim(axes[1], n), Dim(axes[2], n))[d] - 1]
      turns == k % 4
  IN IF axes[1] = axes[2] \/ axes[1] - axes[2] \in {-n, n} THEN Failure
     ELSE IF ~AxisFits(axes[1], n) \/ ~AxisFits(axes[2], n) THEN Failure
     ELSE IF turns = 0 THEN m
     ELSE IF turns = 2 THEN flip(flip(m, << axes[1] >>), << axes[2] >>)
     ELSE IF turns = 1 THEN transpose(flip(m, << axes[2] >>), swapped)
     ELSE flip(transpose(m, swapped), << axes[2] >>)
=============================================================================
