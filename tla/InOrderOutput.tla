--------------------------- MODULE InOrderOutput ---------------------------
(***************************************************************************)
(* What a kernel promises whose result is a sequence that it writes from   *)
(* the front: the sequence grows by pieces the caller cannot predict,      *)
(* nothing written is ever taken back, and the call returns with all of it.*)
(***************************************************************************)
EXTENDS Sequences, SequencesExt

CONSTANTS Result(_)  \* the result for an input

VARIABLES input, out, returned

vars == << input, out, returned >>

Init ==
  /\ out = << >>
  /\ returned = FALSE

Write ==
  /\ ~returned
  /\ IsPrefix(out, out') /\ IsPrefix(out', Result(input))
  /\ returned' \in { FALSE, out' = Result(input) }
  /\ UNCHANGED input

Spec == Init /\ [][Write]_vars /\ <>returned
=============================================================================
