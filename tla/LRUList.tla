------------------------------ MODULE LRUList ------------------------------
(***************************************************************************)
(* What a least-recently-used cache of at most N entries promises: the     *)
(* entries are kept in the order of their last use, and the last one makes *)
(* room for a new one.                                                     *)
(***************************************************************************)
EXTENDS Naturals, Sequences

CONSTANTS Params, N

VARIABLES order, last   \* entries, most recent first; the last request

vars == <<order, last>>

\* s without its one entry p.
Without(s, p) ==
  [i \in 1..(Len(s) - 1) |-> IF \E j \in 1..i : s[j] = p THEN s[i + 1] ELSE s[i]]
Held(p) == \E i \in DOMAIN order : order[i] = p
Kept == IF Len(order) = N THEN SubSeq(order, 1, N - 1) ELSE order

Init == order = <<>> /\ last = <<>>
Get(p) ==
  /\ last' = <<p>>
  /\ order' = <<p>> \o (IF Held(p) THEN Without(order, p) ELSE Kept)
Next == \E p \in Params : Get(p)
Spec == Init /\ [][Next]_vars
=============================================================================
