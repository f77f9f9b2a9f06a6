------------------------------ MODULE EachOnce ------------------------------
(***************************************************************************)
(* What a loop over the elements of an array promises: it handles every    *)
(* element once, none twice and none that is not there, and returns.       *)
(***************************************************************************)
EXTENDS Integers

VARIABLES
  len,       \* the elements are 0 .. len - 1
  touched,   \* how many times each cell has been handled
  returned

vars == << len, touched, returned >>

Init ==
  /\ \A i \in DOMAIN touched : touched[i] = 0
  /\ returned = FALSE

Handle ==
  /\ ~returned
  /\ DOMAIN touched' = DOMAIN touched
  /\ \A i \in DOMAIN touched :
       \/ touched'[i] = touched[i]
       \/ i \in 0 .. len - 1 /\ touched[i] = 0 /\ touched'[i] = 1
  /\ returned' => \A i \in 0 .. len - 1 : touched'[i] = 1
  /\ UNCHANGED len

SafeSpec == Init /\ [][Handle]_vars

Spec == SafeSpec /\ <>returned
=============================================================================
