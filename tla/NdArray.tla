------------------------------ MODULE NdArray ------------------------------
(***************************************************************************)
(* Arrays of any number of dimensions, and the transformations of stores   *)
(* that Legate offers and the library composes (project, promote, slice,   *)
(* transpose, delinearize), modelled from how the library uses them.       *)
(*                                                                         *)
(* An array is a record of its shape and a function from the index tuples  *)
(* of that shape to elements.  Indices count from 0, as in Python;         *)
(* dimensions, the positions of a tuple, count from 1.  The functions that *)
(* move data never look at it, so the modules that use this one let an     *)
(* element be its own place in row-major order.                            *)
(***************************************************************************)
EXTENDS Integers, SequencesExt

\* What an operation that raises returns.
Failure == [error |-> TRUE]
OK(a) == a # Failure

Product(s) == FoldLeft(LAMBDA x, y : x * y, 1, s)
SumOf(s) == FoldLeft(LAMBDA x, y : x + y, 0, s)

\* The index tuples of a shape.
Box(shape) ==
  LET ext == { shape[d] : d \in DOMAIN shape }
      top == CHOOSE n \in ext \union {0} : \A m \in ext : m <= n
  IN { i \in [DOMAIN shape -> 0..(top - 1)] : \A d \in DOMAIN shape : i[d] < shape[d] }

Build(shape, Elt(_)) == [shape |-> shape, at |-> [i \in Box(shape) |-> Elt(i)]]

Ndim(a) == Len(a.shape)
Size(a) == Product(a.shape)

\* The place of index i in row-major order, and the index at place n.
Place(shape, i) == FoldLeft(LAMBDA x, d : x * shape[d] + i[d], 0, [d \in DOMAIN shape |-> d])
IndexAt(shape, n) ==
  [d \in DOMAIN shape |-> (n \div Product(SubSeq(shape, d + 1, Len(shape)))) % shape[d]]

\* numpy.arange(size).reshape(shape).
Arange(shape) == Build(shape, LAMBDA i : Place(shape, i))

\* The elements in row-major order.
Elements(a) == [n \in 1..Size(a) |-> a.at[IndexAt(a.shape, n - 1)]]

\* The same elements, in row-major order, under another shape of equal size.
Reshaped(a, shape) == Build(shape, LAMBDA i : a.at[IndexAt(a.shape, Place(shape, i))])

-----------------------------------------------------------------------------
(* The transformations of stores.                                          *)

Project(s, d, k) ==
  IF ~OK(s) THEN Failure
  ELSE IF d \notin DOMAIN s.shape THEN Failure
  ELSE IF k \notin 0..(s.shape[d] - 1) THEN Failure
  ELSE Build(RemoveAt(s.shape, d), LAMBDA i : s.at[InsertAt(i, d, k)])

Promote(s, d, n) ==
  IF ~OK(s) THEN Failure
  ELSE IF d \notin 1..(Ndim(s) + 1) THEN Failure
  ELSE Build(InsertAt(s.shape, d, n), LAMBDA i : s.at[RemoveAt(i, d)])

\* The elements lo..hi-1 of dimension d.
SliceDim(s, d, lo, hi) ==
  IF ~OK(s) THEN Failure
  ELSE Build([x \in DOMAIN s.shape |-> IF x = d THEN hi - lo ELSE s.shape[x]],
             LAMBDA i : s.at[[x \in DOMAIN i |-> IF x = d THEN i[x] + lo ELSE i[x]]])

\* Dimension j of the result is dimension perm[j] of s.
TransposeDims(s, perm) ==
  IF ~OK(s) THEN Failure
  ELSE IF Len(perm) # Ndim(s) \/ ToSet(perm) # DOMAIN s.shape THEN Failure
  ELSE LET inv == [d \in DOMAIN perm |-> CHOOSE j \in DOMAIN perm : perm[j] = d]
       IN Build([j \in DOMAIN perm |-> s.shape[perm[j]]],
                LAMBDA i : s.at[[d \in DOMAIN perm |-> i[inv[d]]]])

\* Dimension d split into dimensions of the given extents.
Delinearize(s, d, ext) ==
  IF ~OK(s) THEN Failure
  ELSE IF d \notin DOMAIN s.shape THEN Failure
  ELSE IF Product(ext) # s.shape[d] THEN Failure
  ELSE LET n == Len(ext)
       IN Build(SubSeq(s.shape, 1, d - 1) \o ext \o SubSeq(s.shape, d + 1, Ndim(s)),
                LAMBDA i : s.at[SubSeq(i, 1, d - 1)
                                \o << Place(ext, SubSeq(i, d, d + n - 1)) >>
                                \o SubSeq(i, d + n, Len(i))])

\* NumPy's broadcasting: dimensions of extent 1 repeat, leading ones are added.
Broadcastable(from, to) ==
  /\ Len(from) <= Len(to)
  /\ \A d \in DOMAIN from : from[d] \in {1, to[d + Len(to) - Len(from)]}
BroadcastTo(a, shape) ==
  IF ~OK(a) THEN Failure
  ELSE IF ~Broadcastable(a.shape, shape) THEN Failure
  ELSE Build(shape, LAMBDA i :
         a.at[[d \in DOMAIN a.shape |->
                 IF a.shape[d] = 1 THEN 0 ELSE i[d + Len(shape) - Ndim(a)]]])

\* The shape that a set of shapes broadcast to: numpy.broadcast_shapes.
BroadcastShape(shapes) ==
  LET n == CHOOSE m \in { Len(s) : s \in shapes } : \A s \in shapes : Len(s) <= m
      \* the extents at dimension d of the result
      ext(d) == { s[d - n + Len(s)] : s \in { t \in shapes : d - n + Len(t) >= 1 } }
  IN [d \in 1..n |-> IF ext(d) \subseteq {1} THEN 1 ELSE CHOOSE e \in ext(d) : e # 1]
Broadcasts(shapes) == \A s \in shapes : Broadcastable(s, BroadcastShape(shapes))


\* DeferredArray._broadcast: the leading dimensions are added, those of extent 1 stretched.
_broadcast(s, shape) ==
  LET diff == Len(shape) - Ndim(s)
      promoted == FoldLeft(LAMBDA t, d : Promote(t, d, shape[d]), s, [d \in 1..diff |-> d])
      Stretch(t, d) ==
        IF ~OK(t) THEN t
        ELSE IF t.shape[d] = shape[d] THEN t
        ELSE IF t.shape[d] # 1 THEN Failure
        ELSE Promote(Project(t, d, 0), d, shape[d])
  IN FoldLeft(Stretch, promoted, [d \in DOMAIN shape |-> d])
=============================================================================
