-------------------------------- MODULE Gemm --------------------------------
(***************************************************************************)
(* What a blocked matrix multiplication, C += A * B or C = A * B, promises:*)
(* every piece of C is taken once, as a whole, from what it was before the *)
(* call to its final value - the products of its row of A and its column   *)
(* of B, added in the order of k - and the call returns when no piece is   *)
(* left.                                                                   *)
(***************************************************************************)
EXTENDS Integers, Sequences

CONSTANTS Shapes   \* the << M, K, N, step, adds >> a caller asks for: C has M
                   \* rows of pieces, a piece being step columns wide; the
                   \* products are added to what C held if adds

VARIABLES shape, served, C, returned

vars == << shape, served, C, returned >>

(***************************************************************************)
(* Element << i, k >> of A stands for its value, and so does << k, j >> for*)
(* B.  A piece of C is what it held before the call and the products that  *)
(* have been added to it since.                                            *)
(***************************************************************************)
Before(i, j) == [from |-> << i, j >>, sum |-> << >>]
Partial(sh, i, j, kk) ==
  [from |-> IF sh[5] THEN << i, j >> ELSE << >>,
   sum  |-> [x \in 1 .. kk |-> << << i, x - 1 >>, << x - 1, j >> >>]]

Pieces(sh)  == (0 .. sh[1] - 1) \X { j \in 0 .. sh[3] - 1 : j % sh[4] = 0 }
Product(sh) == [p \in Pieces(sh) |-> Partial(sh, p[1], p[2], sh[2])]

\* a kernel may turn a shape down, and then leaves C alone
Init ==
  /\ shape \in Shapes
  /\ served \in BOOLEAN
  /\ C = [p \in Pieces(shape) |-> Before(p[1], p[2])]
  /\ returned = FALSE

Finish ==
  /\ served /\ ~returned
  /\ C' = [p \in Pieces(shape) |-> C'[p]]
  /\ \A p \in Pieces(shape) :
       \/ C'[p] = C[p]
       \/ C[p] = Before(p[1], p[2]) /\ C'[p] = Product(shape)[p]
  /\ returned' \in { FALSE, C' = Product(shape) }
  /\ UNCHANGED << shape, served >>

TurnDown ==
  /\ ~served /\ ~returned
  /\ returned' = TRUE
  /\ UNCHANGED << shape, served, C >>

Next == Finish \/ TurnDown

Spec == Init /\ [][Next]_vars /\ <>returned
=============================================================================
