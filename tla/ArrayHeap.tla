----------------------------- MODULE ArrayHeap -----------------------------
(***************************************************************************)
(* What a user of the library sees: arrays that are views of shared        *)
(* memory, as NumPy promises.  Nothing here says whether an array is       *)
(* evaluated by NumPy or by the Legate runtime, nor when it moves from one *)
(* to the other: that is the business of EagerThunk, which implements      *)
(* this specification.                                                     *)
(***************************************************************************)
EXTENDS ArrayView

CONSTANTS
  Thunks,   \* names of arrays
  Bufs,     \* names of pieces of memory
  V,        \* element values are 0 .. V-1
  Size,     \* number of elements of a fresh array
  Keys,     \* keys of views: tuples of positions
  None      \* no location

VARIABLES
  arr,      \* array -> location, None before the array is created
  data,     \* memory -> contents
  call      \* the last call of the user: its name and its arrays

vars == <<arr, data, call>>

Val == 0..(V - 1)
Live == {t \in Thunks : arr[t] # None}
Used == {arr[t].base : t \in Live}
Read(t) == ReadAt(data, arr[t])

\* Element-wise operators and the sort stand for all of NumPy's: what
\* matters is that the result depends on the operands.
Add(v, w) ==
  LET n == IF Len(v) = 1 THEN Len(w) ELSE Len(v)
  IN [i \in 1..n |-> (Spread(v, n)[i] + Spread(w, n)[i]) % V]
Apply(v) == [i \in DOMAIN v |-> (v[i] + 1) % V]
Position(s, x) == (x % Len(s)) + 1
\* An index stands for one that is in bounds: there is none for no element.
InBounds(s, idx) == Len(s) > 0 \/ Len(idx) = 0
Gather(s, idx) == [i \in DOMAIN idx |-> s[Position(s, idx[i])]]
Positions(s, idx) == [i \in DOMAIN idx |-> Position(s, idx[i])]
Sorted(s) ==
  CHOOSE r \in {Sel(s, p) : p \in [DOMAIN s -> DOMAIN s]} :
    /\ \A i, j \in DOMAIN s : i < j => r[i] <= r[j]
    /\ \A x \in {s[i] : i \in DOMAIN s} :
         Cardinality({i \in DOMAIN s : s[i] = x}) =
         Cardinality({i \in DOMAIN s : r[i] = x})

\* A fresh array in memory nothing else shows, with contents v.
Fresh(t, v) ==
  \E b \in Bufs \ Used :
    /\ arr[t] = None
    /\ arr' = [arr EXCEPT ![t] = [base |-> b, cells |-> [i \in DOMAIN v |-> i]]]
    /\ data' = [data EXCEPT ![b] = v]

\* Array t is assigned v at the positions of key.
Assign(t, key, v) ==
  /\ Fits(v, Len(key))
  /\ data' = PutAt(data, ViewAt(arr[t], key), v)
  /\ UNCHANGED arr

Whole(t) == [i \in DOMAIN arr[t].cells |-> i]
KeysOf(t) == {k \in Keys : \A i \in DOMAIN k : k[i] \in DOMAIN arr[t].cells}

Init ==
  /\ arr = [t \in Thunks |-> None]
  /\ data = [b \in Bufs |-> <<>>]
  /\ call = <<"init">>

New(t) ==
  /\ call' = <<"new", t>>
  /\ \E v \in [1..Size -> Val] : Fresh(t, v)
View(t, p) ==
  /\ call' = <<"view", t, p>>
  /\ \E k \in KeysOf(p) :
       /\ arr[t] = None
       /\ arr' = [arr EXCEPT ![t] = ViewAt(arr[p], k)]
       /\ UNCHANGED data
\* One element: a scalar of its own.
Item(t, p) ==
  /\ call' = <<"item", t, p>>
  /\ \E i \in DOMAIN arr[p].cells : Fresh(t, <<Read(p)[i]>>)
\* "A new view object if possible; otherwise, a copy."
Reshape(t, p) ==
  /\ call' = <<"reshape", t, p>>
  /\ \/ Fresh(t, Read(p))
     \/ arr[t] = None /\ arr' = [arr EXCEPT ![t] = arr[p]] /\ UNCHANGED data
Fill(t) ==
  /\ call' = <<"fill", t>>
  /\ \E x \in Val : Assign(t, Whole(t), <<x>>)
Copy(t, k, r) ==
  /\ call' = <<"copy", t, k, r>>
  /\ Assign(t, k, Read(r))
Ufunc(t, r, s) ==
  /\ call' = <<"ufunc", t, r, s>>
  /\ Fits(Read(r), Len(Read(s))) \/ Len(Read(s)) = 1
  /\ Assign(t, Whole(t), Add(Read(r), Read(s)))
Derive(t, r) ==
  /\ call' = <<"derive", t, r>>
  /\ \E f \in {Apply(Read(r)), Read(r)} : Fresh(t, f)
Factor(t, r) ==
  /\ call' = <<"factor", t, r>>
  /\ Fresh(t, Apply(Read(r)))
Take(t, s, k) ==
  /\ call' = <<"take", t, s, k>>
  /\ InBounds(Read(s), Read(k))
  /\ Fresh(t, Gather(Read(s), Read(k)))
Put(t, k, r) ==
  /\ call' = <<"put", t, k, r>>
  /\ Len(Read(r)) = 1 /\ InBounds(Read(t), Read(k))
  /\ Assign(t, Positions(Read(t), Read(k)), Read(r))

\* The call <<name, arrays>> of a user and its effect.
Next ==
  \/ \E t \in Thunks : New(t)
  \/ \E t \in Thunks, r \in Live : View(t, r) \/ Derive(t, r) \/ Factor(t, r)
  \/ \E t \in Thunks, r \in Live : Item(t, r) \/ Reshape(t, r)
  \/ \E t \in Live : Fill(t)
  \/ \E t, r \in Live : \E k \in KeysOf(t) \union {Whole(t)} : Copy(t, k, r)
  \/ \E t, r, s \in Live : Ufunc(t, r, s) \/ Put(t, s, r)
  \/ \E t \in Thunks, s, k \in Live : Take(t, s, k)

Spec == Init /\ [][Next]_vars
=============================================================================
