----------------------------- MODULE Histogram -----------------------------
(***************************************************************************)
(* What a histogram kernel promises: it takes the elements from the front, *)
(* as many at a time as it likes, each taken element is counted exactly    *)
(* once, in its own bin, and the call returns when all are counted.  A     *)
(* kernel that is not exact may lose counts, but never adds or moves any.  *)
(***************************************************************************)
EXTENDS Integers, FiniteSets

CONSTANTS Bins        \* the bins the caller reads

VARIABLES bin,        \* bin[i]: the bin of element i; the last may be no bin
          taken,      \* number of elements counted
          counts,     \* counts[b]: what bin b has come to
          exact,      \* is no count ever lost?
          returned    \* has the call returned?

vars == << bin, taken, counts, exact, returned >>

\* the histogram of the first k elements
Tally(k) == [b \in Bins |-> Cardinality({ i \in 0 .. k - 1 : bin[i] = b })]

Init ==
  /\ taken = 0
  /\ counts = Tally(0)
  /\ returned = FALSE

Take ==
  /\ ~returned
  /\ taken' \in taken .. Cardinality(DOMAIN bin)
  /\ DOMAIN counts' = Bins
  /\ \A b \in Bins : counts[b] =< counts'[b] /\ counts'[b] =< Tally(taken')[b]
  /\ exact => counts' = Tally(taken')
  /\ returned' \in { FALSE, taken' = Cardinality(DOMAIN bin) }
  /\ UNCHANGED << bin, exact >>

SafeSpec == Init /\ [][Take]_vars

Spec == SafeSpec /\ <>returned
=============================================================================
