------------------------------ MODULE Sorting ------------------------------
(***************************************************************************)
(* What a sorting function promises that works in place: it only ever      *)
(* exchanges two elements that are in the wrong order, so that the array   *)
(* stays a permutation of the caller's and never becomes less sorted, and  *)
(* it returns with the array sorted.                                       *)
(***************************************************************************)
EXTENDS Integers

VARIABLES a,        \* the array, indexed from 0
          returned  \* has the call returned?

vars == << a, returned >>

Sorted == \A x, y \in DOMAIN a : x < y => a[x] =< a[y]

Init == returned = FALSE

Exchange ==
  /\ ~returned
  /\ \E x, y \in DOMAIN a :
       /\ x < y /\ a[x] > a[y]
       /\ a' = [a EXCEPT ![x] = a[y], ![y] = a[x]]
  /\ UNCHANGED returned

Return ==
  /\ Sorted
  /\ returned' = TRUE
  /\ UNCHANGED a

SafeSpec == Init /\ [][Exchange \/ Return]_vars

Spec == SafeSpec /\ <>returned
=============================================================================
