----------------------------- MODULE EagerThunk -----------------------------
(***************************************************************************)
(* The hybrid evaluation of cuPyNumeric (_thunk/eager.py, runtime.py): an  *)
(* array small enough is an EagerArray, a NumPy array evaluated at once;   *)
(* other arrays are DeferredArrays, backed by a Legate store.  When an     *)
(* eager array meets a deferred one, its whole tree of views is converted: *)
(* the buffer of the root is donated to (or shared with) the runtime, the  *)
(* views are replayed on the new store, and from then on every operation   *)
(* is forwarded to the deferred twin.                                      *)
(*                                                                         *)
(* The parent of a thunk is set once, by its constructor, and both         *)
(* record_escape and _convert_tree follow parents up to the root, so the   *)
(* state keeps the root and the composition of the keys on the way.  Most  *)
(* keys are replayed as views; an integer, or a reshape that changes more  *)
(* than extents of one, copies when it is replayed: own is the nearest     *)
(* thunk up the chain whose twin has memory of its own.                    *)
(***************************************************************************)
EXTENDS ArrayView

CONSTANTS
  Thunks,   \* thunk objects
  Bufs,     \* pieces of memory, a NumPy buffer or a store
  V,        \* element values are 0 .. V-1
  Size,     \* number of elements of a fresh array
  Keys,     \* keys of views: tuples of positions
  None      \* Python's None

\* A deferred location holds a memory and the tuple of the cells it shows.
Locations == [base : Bufs, cells : Seq(Nat)]

ASSUME KeysAssumption == Keys \subseteq Seq(Nat)
ASSUME SizeAssumption == Size \in Nat
ASSUME ValueAssumption == V \in Nat \ {0}
ASSUME NoneAssumption == None \notin Bufs /\ None \notin Locations

VARIABLES
  kind,     \* "none" until created, then the class: "eager" or "deferred"
  buf,      \* eager: the buffer of self.array
  cells,    \* eager: the cells of it that self.array shows
  root,     \* eager: the thunk that the chain of self.parent ends in
  path,     \* eager: the keys from the root down, composed
  own,      \* eager: the thunk in whose store the twin is going to be
  deferred, \* location in a store: self.deferred, or a DeferredArray's base
  escaped,  \* eager roots: self.escaped
  owner,    \* memory: "free", "numpy", "donated", "shared" or "runtime"
  mem,      \* memory: contents
  held,     \* buffers that the application got hold of
  call      \* history: the last call of the user, with its thunks

state == <<kind, buf, cells, root, path, own, deferred, escaped, owner, mem, held>>
vars == <<state, call>>

\* Where the arrays are, for who does not see how they are evaluated.
Arrays ==
  [t \in Thunks |->
     IF deferred[t] # None THEN deferred[t]
     ELSE IF kind[t] = "eager" THEN [base |-> buf[t], cells |-> cells[t]]
     ELSE None]

Heap == INSTANCE ArrayHeap WITH arr <- Arrays, data <- mem

Val == 0..(V - 1)
Owners == {"free", "numpy", "donated", "shared", "runtime"}
Identity(n) == [i \in 1..n |-> i]
Live == {t \in Thunks : kind[t] # "none"}
Eager == {t \in Thunks : kind[t] = "eager"}
Free == {b \in Bufs : owner[b] = "free"}

\* The memory an operation on thunk t works on: its deferred twin once it
\* has one ("we forward all operations to it"), else self.array.
Loc(t) == IF deferred[t] # None THEN deferred[t]
          ELSE [base |-> buf[t], cells |-> cells[t]]
Extent(t) == Len(Loc(t).cells)

\* Any contents: of np.empty, of a buffer that no longer is NumPy's.
Unspecified(n) == [1..n -> Val]

\* A conversion changes these parts of the state, which are passed on to
\* what follows it in the same method.
Now == [deferred |-> deferred, owner |-> owner, mem |-> mem]

\* What self.array of eager thunk t may contain, in state c.
HostValues(t, c) ==
  IF c.owner[buf[t]] = "numpy"
  THEN {Sel(c.mem[buf[t]], cells[t])}
  ELSE Unspecified(Len(cells[t]))

\* What an operation that is handed thunk t may read from it.  A thunk that
\* is not deferred is read by NumPy, or through a read-only copy that leaves
\* it as it is (to_deferred_array(read_only=True)).
Values(t, c) ==
  IF c.deferred[t] # None THEN {ReadAt(c.mem, c.deferred[t])} ELSE HostValues(t, c)

\* runtime.to_eager_array(t).array: an EagerArray is returned as it is, its
\* deferred twin notwithstanding; a DeferredArray is copied to the host.
ToEagerValues(t, c) ==
  IF kind[t] = "deferred" THEN {ReadAt(c.mem, c.deferred[t])} ELSE HostValues(t, c)

KeysOf(t) == {k \in Keys : \A i \in DOMAIN k : k[i] \in 1..Extent(t)}

---------------------------------------------------------------------------
(* Creation and conversion                                                 *)

\* Faulty variant: the ancestors are converted, the siblings are not.
TreePathOnly(t) == {t, root[t]}

Tree(t) == {u \in Eager : root[u] = root[t]}

\* Thunks other than the root that have memory of their own once converted,
\* and those of them that share their NumPy array with others until then.
Heads(t) == {x \in Tree(t) : own[x] = x /\ x # root[t]}
Apart(x) == \A u \in Eager : own[u] # x => buf[u] # buf[x]

\* The memory of the store of each head: what it had if it was alone there.
Homes(t) ==
  CHOOSE home \in [Heads(t) -> Bufs] :
    /\ \A x \in Heads(t) : IF Apart(x) THEN home[x] = buf[x] ELSE home[x] \in Free
    /\ \A x, y \in Heads(t) : home[x] = home[y] => x = y

\* Where the positions of path key are in path whole.
Places(whole, key) ==
  [i \in DOMAIN key |-> CHOOSE j \in DOMAIN whole : whole[j] = key[i]]

\* Faulty variant: the twin of a view is the twin of the root, no replay.
ConvertNoReplay(t) ==
  [deferred |-> [u \in Thunks |->
                   IF u \in Tree(t)
                   THEN [base |-> buf[root[t]], cells |-> cells[root[t]]]
                   ELSE deferred[u]],
   owner |-> [owner EXCEPT ![buf[root[t]]] =
                IF escaped[root[t]] THEN "shared" ELSE "donated"],
   mem |-> mem]

\* Faulty variant: the root lets go of its buffer before the store takes it.
ConvertTooLate(t) ==
  [deferred |-> [u \in Thunks |->
                   IF u \in Tree(t) THEN [base |-> None, cells |-> cells[u]]
                   ELSE deferred[u]],
   owner |-> [owner EXCEPT ![buf[t]] = "donated"],
   mem |-> mem]

\* _convert_tree: the root's buffer becomes a store, and each child replays
\* its key on the deferred twin of its parent.  Heads receive a copy of what
\* their keys select now.
ConvertTree(t) ==
  LET r == root[t]
      home == Homes(t)
      shown(u) == Sel(cells[r], path[u])
  IN [deferred |-> [u \in Thunks |->
                      IF u \notin Tree(t) THEN deferred[u]
                      ELSE IF own[u] = r THEN [base |-> buf[r], cells |-> shown(u)]
                      ELSE [base |-> home[own[u]],
                            cells |-> Places(path[own[u]], path[u])]],
      owner |-> [b \in Bufs |->
                   IF b = buf[r] THEN IF escaped[r] THEN "shared" ELSE "donated"
                   ELSE IF \E x \in Heads(t) : home[x] = b THEN "runtime"
                   ELSE owner[b]],
      mem |-> [b \in Bufs |->
                 IF \E x \in Heads(t) : home[x] = b
                 THEN Sel(mem[buf[r]], shown(CHOOSE x \in Heads(t) : home[x] = b))
                 ELSE mem[b]]]

\* check_eager_args: convert self if an argument has gone deferred.
CheckEagerArgs(t, args) ==
  IF deferred[t] = None /\ \E a \in args : deferred[a] # None
  THEN ConvertTree(t)
  ELSE Now

\* A fresh array with contents v, backed by NumPy or by a store.
Alloc(t, k, v, c) ==
  LET free == {x \in Bufs : c.owner[x] = "free"}
      b == CHOOSE x \in free : TRUE
      id == Identity(Len(v))
  IN /\ kind[t] = "none" /\ free # {}
     /\ kind' = [kind EXCEPT ![t] = k]
     /\ mem' = [c.mem EXCEPT ![b] = v]
     /\ owner' = [c.owner EXCEPT ![b] =
                    IF k = "eager" THEN "numpy" ELSE "runtime"]
     /\ IF k = "eager"
        THEN /\ buf' = [buf EXCEPT ![t] = b]
             /\ cells' = [cells EXCEPT ![t] = id]
             /\ root' = [root EXCEPT ![t] = t]
             /\ path' = [path EXCEPT ![t] = id]
             /\ own' = [own EXCEPT ![t] = t]
             /\ deferred' = c.deferred
        ELSE /\ deferred' = [c.deferred EXCEPT ![t] = [base |-> b, cells |-> id]]
             /\ UNCHANGED <<buf, cells, root, path, own>>
     /\ UNCHANGED <<escaped, held>>

\* Assign v to the positions key of thunk t.  A write of NumPy to memory
\* that is the runtime's may or may not reach it.
Write(t, key, v, c) ==
  LET forwarded == c.deferred[t] # None
      loc == IF forwarded THEN c.deferred[t]
             ELSE [base |-> buf[t], cells |-> cells[t]]
  IN /\ Fits(v, Len(key))
     /\ \/ mem' = PutAt(c.mem, ViewAt(loc, key), v)
        \/ ~forwarded /\ c.owner[buf[t]] # "numpy" /\ mem' = c.mem
     /\ deferred' = c.deferred /\ owner' = c.owner
     /\ UNCHANGED <<kind, buf, cells, root, path, own>>

\* Faulty variant: the flag is kept at the view that escapes.
EscapeOfView(us) ==
  LET eager == {u \in us \cap Eager : deferred[u] = None}
  IN /\ escaped' = [u \in Thunks |-> escaped[u] \/ u \in eager]
     /\ held' = held \union {buf[u] : u \in eager}

\* record_escape, for each of the thunks us that the application gets the
\* buffer of: the flag is kept at the root.
Escape(us) ==
  LET eager == {u \in us \cap Eager : deferred[u] = None}
      roots == {root[u] : u \in eager}
  IN /\ escaped' = [u \in Thunks |-> escaped[u] \/ u \in roots]
     /\ held' = held \union {buf[u] : u \in eager}

\* create_empty_thunk(inputs=...): a small array is eager if every input is
\* an EagerArray, whether or not that one has been converted.
ResultKinds(inputs) ==
  IF inputs \subseteq Eager THEN {"eager", "deferred"} ELSE {"deferred"}

---------------------------------------------------------------------------
(* Operations that keep what a user sees apart from how it is evaluated    *)

\* An array of the application, or a result allocated without inputs: its
\* size decides between the two classes.
Create(t) ==
  /\ call' = <<"new", t>>
  /\ \E k \in {"eager", "deferred"}, v \in Unspecified(Size) : Alloc(t, k, v, Now)

\* runtime.to_deferred_array(t, read_only=False), as __legate_data_interface__
\* calls it.
ToDeferred(t) ==
  /\ t \in Eager /\ deferred[t] = None
  /\ LET c == ConvertTree(t)
     IN deferred' = c.deferred /\ owner' = c.owner /\ mem' = c.mem
  /\ UNCHANGED <<kind, buf, cells, root, path, own, escaped, held, call>>

\* get_item with a basic key that has a slice or an ellipsis, squeeze,
\* swapaxes, transpose, broadcast_to, and reshape that adds or drops extents
\* of one: a child in the tree, or a view of the store.
View(t, p) ==
  /\ call' = <<"view", t, p>>
  /\ \E key \in KeysOf(p) :
       /\ kind[t] = "none"
       /\ IF deferred[p] # None
          THEN /\ kind' = [kind EXCEPT ![t] = "deferred"]
               /\ deferred' = [deferred EXCEPT ![t] = ViewAt(deferred[p], key)]
               /\ UNCHANGED <<buf, cells, root, path, own>>
          ELSE /\ kind' = [kind EXCEPT ![t] = "eager"]
               /\ buf' = [buf EXCEPT ![t] = buf[p]]
               /\ cells' = [cells EXCEPT ![t] = Sel(cells[p], key)]
               /\ root' = [root EXCEPT ![t] = root[p]]
               /\ path' = [path EXCEPT ![t] = Sel(path[p], key)]
               /\ own' = [own EXCEPT ![t] = own[p]]
               /\ UNCHANGED deferred
       /\ UNCHANGED <<escaped, owner, mem, held>>

Whole(t) == Identity(Extent(t))

\* fill, eye, random_*, bitgenerator_* and the other writers with no array
\* argument.
Fill(t) ==
  /\ call' = <<"fill", t>>
  /\ \E x \in Val : Write(t, Whole(t), <<x>>, Now)
  /\ UNCHANGED <<escaped, held>>

\* Store.equal_storage for the view of t that key selects and r: slices have
\* storage of their own, transposition does not change it.
SameStorage(t, key, r, c) ==
  /\ c.deferred[t] # None /\ c.deferred[r] # None
  /\ LET l == ViewAt(c.deferred[t], key)
     IN /\ c.deferred[r].base = l.base
        /\ {c.deferred[r].cells[i] : i \in DOMAIN c.deferred[r].cells} =
             {l.cells[i] : i \in DOMAIN l.cells}

\* r shows the cells that key selects of t, but in another order.
Transposed(t, key, r, c) ==
  /\ SameStorage(t, key, r, c)
  /\ c.deferred[r].cells # ViewAt(c.deferred[t], key).cells

\* After a conversion, nothing is written.
Skip(c) ==
  /\ mem' = c.mem /\ deferred' = c.deferred /\ owner' = c.owner
  /\ UNCHANGED <<kind, buf, cells, root, path, own>>

\* Slices, which keep the order of the cells.
KeysToSet(t) ==
  {k \in KeysOf(t) \union {Whole(t)} : \A i, j \in DOMAIN k : i < j => k[i] < k[j]}

\* set_item with a basic key: a deferred one takes a value of equal storage
\* for the last step of arr[key] op= value, which is in place already.
SetItem(t, key, r) ==
  /\ call' = <<"copy", t, key, r>>
  /\ LET c == CheckEagerArgs(t, {r})
     IN IF SameStorage(t, key, r, c)
        THEN Skip(c)
        ELSE \E v \in Values(r, c) : Write(t, key, v, c)
  /\ UNCHANGED <<escaped, held>>

\* What a task into t reads of argument r.  _copy_if_partially_overlapping
\* saves arguments of other storage; one of equal storage is read while the
\* task overwrites it, which matters if it is read in another order.
Operands(t, r, c) ==
  IF Transposed(t, Whole(t), r, c) THEN Unspecified(Extent(r)) ELSE Values(r, c)

\* copy, convert, unary_op and the other operations into self of one array.
UnaryOp(t, r) ==
  /\ call' = <<"copy", t, Whole(t), r>>
  /\ LET c == CheckEagerArgs(t, {r})
     IN \E v \in Operands(t, r, c) : Write(t, Whole(t), v, c)
  /\ UNCHANGED <<escaped, held>>

\* binary_op and the other operations into self of several arguments.
BinaryOp(t, r, s) ==
  /\ call' = <<"ufunc", t, r, s>>
  /\ LET c == CheckEagerArgs(t, {r, s})
     IN \E v \in Operands(t, r, c), w \in Operands(t, s, c) :
          /\ Fits(v, Len(w)) \/ Len(w) = 1
          /\ Write(t, Whole(t), Heap!Add(v, w), c)
  /\ UNCHANGED <<escaped, held>>

\* The class of a new array that a method of self returns.
Returned(t, c) == IF c.deferred[t] # None THEN "deferred" ELSE "eager"

\* repeat, nonzero, unique, argwhere: a new array computed from self.
Derive(t, r) ==
  /\ call' = <<"derive", t, r>>
  /\ \E v \in Values(r, Now) :
       \E f \in {v, Heap!Apply(v)} : Alloc(t, Returned(r, Now), f, Now)

\* take: self is converted when the index array is deferred.
Take(t, s, k) ==
  /\ call' = <<"take", t, s, k>>
  /\ LET c == CheckEagerArgs(s, {k})
     IN \E v \in Values(s, c), idx \in Values(k, c) :
          Heap!InBounds(v, idx) /\ Alloc(t, Returned(s, c), Heap!Gather(v, idx), c)

\* The array of indices k in a key of s: a deferred s converts it to a
\* store, an eager one goes through _create_indexing_key.
IndexValues(s, k, c) == IF c.deferred[s] # None THEN Values(k, c) ELSE ToEagerValues(k, c)

\* get_item with an index array: no check of the key.
GetItemAdvanced(t, s, k) ==
  /\ call' = <<"take", t, s, k>>
  /\ \E v \in Values(s, Now), idx \in IndexValues(s, k, Now) :
       Heap!InBounds(v, idx) /\ Alloc(t, Returned(s, Now), Heap!Gather(v, idx), Now)

\* set_item with an index array: the value is checked, the key is not.
SetItemAdvanced(t, k, r) ==
  /\ call' = <<"put", t, k, r>>
  /\ LET c == CheckEagerArgs(t, {r})
     IN \E v \in Values(r, c), old \in Values(t, c), idx \in IndexValues(t, k, c) :
          /\ Len(v) = 1 /\ Heap!InBounds(old, idx)
          /\ Write(t, Heap!Positions(old, idx), v, c)
  /\ UNCHANGED <<escaped, held>>

\* __numpy_array__: the application gets the buffer itself.
NumpyArray(t) ==
  /\ t \in Eager /\ deferred[t] = None
  /\ Escape({t})
  /\ UNCHANGED <<kind, buf, cells, root, path, own, deferred, owner, mem, call>>

\* The operators of an eager array (__add__, __iadd__, ...): its arguments
\* are ndarrays, which check_eager_args passes over; rhs and out are
\* reached through __numpy_array__, so that both escape.
UfuncMethod(t, r, out) ==
  /\ call' = <<"ufunc", out, t, r>>
  /\ t \in Eager /\ deferred[t] = None
  /\ \E v \in Values(t, Now), w \in Values(r, Now) :
       /\ Fits(v, Len(w)) \/ Len(w) = 1
       /\ Write(out, Whole(out), Heap!Add(v, w), Now)
  /\ Escape({r, out})

---------------------------------------------------------------------------
(* Children that are copied when they are replayed, and operations that    *)
(* rebind self.array, write other thunks than self, or share the buffer    *)
(* with the application unrecorded                                         *)

\* get_item with one integer for each dimension.  NumPy returns a scalar,
\* kept as a child of self all the same; a READ task copies from a store.
Item(t, p) ==
  /\ call' = <<"item", t, p>>
  /\ \E i \in 1..Extent(p), v \in Values(p, Now) :
       IF deferred[p] # None
       THEN Alloc(t, "deferred", <<v[i]>>, Now)
       ELSE LET b == CHOOSE x \in Free : TRUE
            IN /\ kind[t] = "none" /\ Free # {}
               /\ kind' = [kind EXCEPT ![t] = "eager"]
               /\ buf' = [buf EXCEPT ![t] = b]
               /\ cells' = [cells EXCEPT ![t] = <<1>>]
               /\ root' = [root EXCEPT ![t] = root[p]]
               /\ path' = [path EXCEPT ![t] = <<path[p][i]>>]
               /\ own' = [own EXCEPT ![t] = t]
               /\ mem' = [mem EXCEPT ![b] = <<v[i]>>]
               /\ owner' = [owner EXCEPT ![b] = "numpy"]
               /\ UNCHANGED <<deferred, escaped, held>>

\* reshape that merges or splits dimensions (needs_copy): NumPy returns a
\* view, a DeferredArray a copy.
Reshape(t, p) ==
  /\ call' = <<"reshape", t, p>>
  /\ IF deferred[p] # None
     THEN \E v \in Values(p, Now) : Alloc(t, "deferred", v, Now)
     ELSE /\ kind[t] = "none"
          /\ kind' = [kind EXCEPT ![t] = "eager"]
          /\ buf' = [buf EXCEPT ![t] = buf[p]]
          /\ cells' = [cells EXCEPT ![t] = cells[p]]
          /\ root' = [root EXCEPT ![t] = root[p]]
          /\ path' = [path EXCEPT ![t] = path[p]]
          /\ own' = [own EXCEPT ![t] = t]
          /\ UNCHANGED <<deferred, escaped, owner, mem, held>>

\* asarray, or out=, of a small NumPy array that the application keeps
\* (TransferType.SHARE): a root on the application's own buffer.
Asarray(t) ==
  LET b == CHOOSE x \in Free : TRUE
  IN /\ call' = <<"new", t>>
     /\ kind[t] = "none" /\ Free # {}
     /\ kind' = [kind EXCEPT ![t] = "eager"]
     /\ buf' = [buf EXCEPT ![t] = b]
     /\ cells' = [cells EXCEPT ![t] = Identity(Size)]
     /\ root' = [root EXCEPT ![t] = t]
     /\ path' = [path EXCEPT ![t] = Identity(Size)]
     /\ own' = [own EXCEPT ![t] = t]
     /\ \E v \in Unspecified(Size) : mem' = [mem EXCEPT ![b] = v]
     /\ owner' = [owner EXCEPT ![b] = "numpy"]
     /\ held' = held \union {b}
     /\ UNCHANGED <<deferred, escaped>>

\* ndarray.sort, ndarray.partition: rhs = self; the eager thunk is rebound.
SortInPlace(t) ==
  /\ call' = <<"sort", t>>
  /\ \E v \in Values(t, Now) :
       LET b == CHOOSE x \in Free : TRUE
       IN IF deferred[t] # None
          THEN Write(t, Whole(t), Heap!Sorted(v), Now) /\ UNCHANGED <<escaped, held>>
          ELSE /\ Free # {}
               /\ buf' = [buf EXCEPT ![t] = b]
               /\ cells' = [cells EXCEPT ![t] = Identity(Len(v))]
               /\ mem' = [mem EXCEPT ![b] = Heap!Sorted(v)]
               /\ owner' = [owner EXCEPT ![b] = "numpy"]
               /\ UNCHANGED <<kind, root, path, own, deferred, escaped, held>>

\* qr, svd, eigh, eigvalsh: q is allocated like a, then the method of a
\* writes it.  A deferred method gets an eager q as a read-only copy.
Factor(q, a) ==
  /\ call' = <<"factor", q, a>>
  /\ \E k \in ResultKinds({a}), empty \in Unspecified(Extent(a)) :
       LET c == IF k = "deferred" /\ deferred[a] = None THEN ConvertTree(a) ELSE Now
           lost == k = "eager" /\ deferred[a] # None
       IN \E v \in Values(a, c) :
            Alloc(q, k, IF lost THEN empty ELSE Heap!Apply(v), c)

\* eig, eigvals on GPUs without geev: both sides are "eager" thunks.
EigOnHost(q, a) ==
  /\ call' = <<"factor", q, a>>
  /\ \E v \in ToEagerValues(a, Now) : Alloc(q, "eager", Heap!Apply(v), Now)

Reversed(s) == [i \in DOMAIN s |-> s[Len(s) + 1 - i]]

\* ndarray.flip: an eager result is rebound to a NumPy view of its argument.
Flip(t, r) ==
  /\ call' = <<"flip", t, r>>
  /\ \E k \in ResultKinds({r}), v \in Values(r, Now) :
       IF k = "eager" /\ deferred[r] = None
       THEN /\ kind[t] = "none"
            /\ kind' = [kind EXCEPT ![t] = "eager"]
            /\ buf' = [buf EXCEPT ![t] = buf[r]]
            /\ cells' = [cells EXCEPT ![t] = Reversed(cells[r])]
            /\ root' = [root EXCEPT ![t] = t]
            /\ path' = [path EXCEPT ![t] = Identity(Len(v))]
            /\ own' = [own EXCEPT ![t] = t]
            /\ UNCHANGED <<deferred, escaped, owner, mem, held>>
       ELSE Alloc(t, "deferred", Reversed(v), Now)

\* A complex array: each element is a real cell and the imaginary one behind.
Complex(t) ==
  LET c == Loc(t).cells
  IN /\ Len(c) > 0 /\ Len(c) % 2 = 0
     /\ \A i \in 1..(Len(c) \div 2) : c[2 * i - 1] % 2 = 1 /\ c[2 * i] = c[2 * i - 1] + 1

\* The real (first) or the imaginary (second) cells of the elements in s.
Every(s, first) == [i \in 1..(Len(s) \div 2) |-> s[2 * i + first - 2]]

\* real, imag of a complex array: NumPy's view of every other cell, as a
\* root of its own; a DeferredArray computes a new array.
Part(t, r) ==
  /\ call' = <<"part", t, r>>
  /\ Complex(r)
  /\ \E first \in {1, 2}, v \in Values(r, Now) :
       IF deferred[r] # None
       THEN Alloc(t, "deferred", Every(v, first), Now)
       ELSE /\ kind[t] = "none"
            /\ kind' = [kind EXCEPT ![t] = "eager"]
            /\ buf' = [buf EXCEPT ![t] = buf[r]]
            /\ cells' = [cells EXCEPT ![t] = Every(cells[r], first)]
            /\ root' = [root EXCEPT ![t] = t]
            /\ path' = [path EXCEPT ![t] = Identity(Len(cells[r]) \div 2)]
            /\ own' = [own EXCEPT ![t] = t]
            /\ UNCHANGED <<deferred, escaped, owner, mem, held>>

\* __dlpack__: exports self.array without record_escape.
Dlpack(t) ==
  /\ t \in Eager /\ deferred[t] = None
  /\ held' = held \union {buf[t]}
  /\ UNCHANGED <<kind, buf, cells, root, path, own, deferred, escaped, owner, mem, call>>

---------------------------------------------------------------------------
Init ==
  /\ kind = [t \in Thunks |-> "none"]
  /\ buf = [t \in Thunks |-> None]
  /\ cells = [t \in Thunks |-> <<>>]
  /\ root = [t \in Thunks |-> t]
  /\ path = [t \in Thunks |-> <<>>]
  /\ own = [t \in Thunks |-> t]
  /\ deferred = [t \in Thunks |-> None]
  /\ escaped = [t \in Thunks |-> FALSE]
  /\ owner = [b \in Bufs |-> "free"]
  /\ mem = [b \in Bufs |-> <<>>]
  /\ held = {}
  /\ call = <<"init">>

\* The operations that respect the tree for any arguments.
Plain ==
  \/ \E t \in Thunks : Create(t) \/ ToDeferred(t) \/ NumpyArray(t)
  \/ \E t \in Live : Fill(t)
  \/ \E t \in Thunks, p \in Live : View(t, p) \/ Derive(t, p)
  \/ \E t, r, s \in Live : UfuncMethod(t, r, s)
  \/ \E t \in Thunks, s, k \in Live : Take(t, s, k)

\* The operations that respect the tree: their children are replayed as
\* views, their new roots have memory of their own (those of Flip and Part
\* have not), their index arrays, if any, have not been converted, and no
\* array is assigned to itself in another order.
TreeNext ==
  \/ Plain
  \/ \E t, r \in Live :
       \/ /\ ~Transposed(t, Whole(t), r, CheckEagerArgs(t, {r}))
          /\ UnaryOp(t, r)
       \/ \E key \in KeysToSet(t) :
            /\ ~Transposed(t, key, r, CheckEagerArgs(t, {r}))
            /\ SetItem(t, key, r)
  \/ \E t, r, s \in Live :
       /\ \A a \in {r, s} : ~Transposed(t, Whole(t), a, CheckEagerArgs(t, {r, s}))
       /\ BinaryOp(t, r, s)
  \/ \E t \in Thunks, s, k \in Live :
       /\ k \in Eager => deferred[k] = None
       /\ GetItemAdvanced(t, s, k)
  \/ \E t, k, r \in Live :
       /\ k \in Eager => deferred[k] = None
       /\ SetItemAdvanced(t, k, r)

\* Bound: there is memory left for the copies of any conversion.
Room ==
  Cardinality({x \in Eager : /\ own[x] = x /\ x # root[x]
                              /\ deferred[x] = None /\ ~Apart(x)})
    <= Cardinality(Free)

\* All operations, with all arguments.
AllNext ==
  \/ Plain
  \/ \E t, r \in Live : UnaryOp(t, r) \/ \E key \in KeysToSet(t) : SetItem(t, key, r)
  \/ \E t, r, s \in Live : BinaryOp(t, r, s)
  \/ \E t \in Thunks, s, k \in Live : GetItemAdvanced(t, s, k)
  \/ \E t, k, r \in Live : SetItemAdvanced(t, k, r)
  \/ \E t \in Thunks, p \in Live : Item(t, p) \/ Reshape(t, p)
  \/ \E t \in Thunks : Asarray(t)
  \/ \E t \in Live : SortInPlace(t) \/ Dlpack(t)
  \/ \E t \in Thunks, r \in Live : Factor(t, r) \/ EigOnHost(t, r)
  \/ \E t \in Thunks, r \in Live : Flip(t, r) \/ Part(t, r)

TreeSpec == Init /\ [][TreeNext]_vars
AllSpec == Init /\ [][AllNext /\ Room']_vars

---------------------------------------------------------------------------
(* Properties *)

\* The state keeps the types of the fields of EagerArray and DeferredArray.
TypeOK ==
  /\ kind \in [Thunks -> {"none", "eager", "deferred"}]
  /\ buf \in [Thunks -> Bufs \union {None}]
  /\ cells \in [Thunks -> Seq(Nat)]
  /\ root \in [Thunks -> Thunks]
  /\ path \in [Thunks -> Seq(Nat)]
  /\ own \in [Thunks -> Thunks]
  /\ deferred \in [Thunks -> Locations \union {None}]
  /\ escaped \in [Thunks -> BOOLEAN]
  /\ owner \in [Bufs -> Owners]
  /\ mem \in [Bufs -> Seq(Val)]
  /\ held \subseteq Bufs

\* "We have to convert the whole tree when we convert even one node": the
\* thunks of a tree are all eager or all forwarded, never some of each.
WholeTree ==
  \A t, u \in Eager :
    root[t] = root[u] => (deferred[t] = None <=> deferred[u] = None)


\* A child that is a view, for NumPy or when it is replayed, shows the memory
\* of its root through the composed keys, before and after conversion: a
\* write to either is seen in the other.
ViewsShareMemory ==
  \A t \in Eager :
    buf[t] = buf[root[t]] \/ own[t] = root[t] => Loc(t) = ViewAt(Loc(root[t]), path[t])

\* A buffer that the application holds is shared with the runtime, never
\* donated to it ("we can donate the base array, since it hasn't escaped").
HeldNotDonated == \A b \in held : owner[b] # "donated"

\* Conversion is invisible: what a user does to eager, deferred and
\* converted arrays and their views has the effect NumPy promises.
ImplementsHeap == Heap!Spec
=============================================================================
