------------------------------ MODULE SgemmRvv ------------------------------
(***************************************************************************)
(* The matrix multiplications on vector registers: _sgemm_rvv and          *)
(* _i8i32gemm_rvv, which are the same program for two types, and           *)
(* _sgemm_scalar and _i8i32gemm_scalar, which they are compared to.        *)
(*                                                                         *)
(* Rows of C are computed four at a time, and what is left of them two and *)
(* one at a time; in a group of rows, as many columns at a time as vsetvli *)
(* grants.  The scalar code is a group of one row and one column.          *)
(*                                                                         *)
(* Pointers are the offsets they have in their matrix.  The units are      *)
(* elements: a[x] stands for the number at offset x.                       *)
(***************************************************************************)
EXTENDS Vsetvl, Sequences

CONSTANTS
  RvvShapes,   \* the << M, K, N >> the kernels are called with
  VlmaxM4      \* 32-bit elements of a group of four registers

RvvKernels    == { "_sgemm_rvv", "_i8i32gemm_rvv" }
ScalarKernels == { "_sgemm_scalar", "_i8i32gemm_scalar" }

VARIABLES
  kernel, shape,
  pc,
  rows,     \* rows in a group: four, two or one
  jj,       \* groups of that many rows to do
  pin, po,  \* the first row of the group in a and in c
  ii,       \* columns to do
  col,      \* pc - po, and pb - b: the next column
  vl,
  kk,
  vc,       \* vc[<< r, x >>]: the products added up in element x of row r
  C         \* C[<< i, j >>]: row i, column j of the result

rvars == << kernel, shape, pc, rows, jj, pin, po, ii, col, vl, kk, vc, C >>

M == shape[1]
K == shape[2]
N == shape[3]

IsVector == kernel \in RvvKernels

Init ==
  /\ kernel \in RvvKernels \cup ScalarKernels
  /\ shape \in RvvShapes
  /\ pc = "rows"
  /\ rows = (IF IsVector THEN 4 ELSE 1)
  /\ jj = (IF IsVector THEN M \div 4 ELSE M)
  /\ pin = 0 /\ po = 0
  /\ ii = 0 /\ col = 0 /\ vl = 0 /\ kk = 0 /\ vc = << >>
  /\ C = [p \in (0 .. M - 1) \X (0 .. N - 1) |-> [from |-> p, sum |-> << >>]]

\* the row and the column that offset x is in a matrix of that width
Place(x, width) == << x \div width, (x % width) >>

\* mutant: the groups of two rows are counted in all of M
GroupsOf2(r) == IF r = 2 THEN M \div 2 ELSE M % 2

\* how many groups there are of two rows, and of one
Groups(r) == IF r = 2 THEN (M % 4) \div 2 ELSE M % 2

NextGroups ==
  /\ pc = "rows" /\ jj = 0
  /\ IF rows = 1 THEN pc' = "done" /\ UNCHANGED << rows, jj >>
                 ELSE rows' = rows \div 2 /\ jj' = Groups(rows') /\ UNCHANGED pc
  /\ UNCHANGED << kernel, shape, pin, po, ii, col, vl, kk, vc, C >>

EnterGroup ==
  /\ pc = "rows" /\ jj > 0
  /\ ii' = N /\ col' = 0
  /\ pc' = "columns"
  /\ UNCHANGED << kernel, shape, rows, jj, pin, po, vl, kk, vc, C >>

\* columns that can be asked for: with eight registers if there are fewer rows
Vlmax == IF ~IsVector THEN 1 ELSE IF rows = 4 THEN VlmaxM4 ELSE 2 * VlmaxM4

StartChunk ==
  /\ pc = "columns" /\ ii > 0
  /\ vl' \in LegalVl(ii, Vlmax)
  /\ vc' = [rx \in (0 .. rows - 1) \X (0 .. vl' - 1) |-> << >>]
  /\ kk' = 0
  /\ pc' = "products"
  /\ UNCHANGED << kernel, shape, rows, jj, pin, po, ii, col, C >>

\* mutant: pa is moved on by a row, the rows are next to each other
OperandA1(r) == pin + r + kk * K

\* offsets of the operands of element << r, x >>
OperandA(r) == pin + kk + r * K
OperandB(x) == col + kk * N + x

\* vfmacc and vwmacc: the operands in row and column kk
AddProduct ==
  /\ pc = "products" /\ kk < K
  /\ vc' = [rx \in DOMAIN vc |->
              Append(vc[rx], << Place(OperandA(rx[1]), K), Place(OperandB(rx[2]), N) >>)]
  /\ kk' = kk + 1
  /\ UNCHANGED << kernel, shape, pc, rows, jj, pin, po, ii, col, vl, C >>

\* where element << r, x >> is stored
Target(r, x) == po + col + r * N + x

StoreChunk ==
  /\ pc = "products" /\ kk = K
  /\ C' = [p \in DOMAIN C |->
             IF \E rx \in DOMAIN vc : Place(Target(rx[1], rx[2]), N) = p
               THEN [from |-> << >>,
                     sum  |-> vc[CHOOSE rx \in DOMAIN vc :
                                   Place(Target(rx[1], rx[2]), N) = p]]
               ELSE C[p]]
  /\ col' = col + vl /\ ii' = ii - vl
  /\ pc' = "columns"
  /\ UNCHANGED << kernel, shape, rows, jj, pin, po, vl, kk, vc >>

LeaveGroup ==
  /\ pc = "columns" /\ ii = 0
  /\ pin' = pin + rows * K /\ po' = po + rows * N
  /\ jj' = jj - 1
  /\ pc' = "rows"
  /\ UNCHANGED << kernel, shape, rows, ii, col, vl, kk, vc, C >>

Terminating == pc = "done" /\ UNCHANGED rvars

Next ==
  \/ NextGroups \/ EnterGroup
  \/ StartChunk \/ AddProduct \/ StoreChunk
  \/ LeaveGroup
  \/ Terminating

-----------------------------------------------------------------------------
(* Properties.                                                             *)

\* Every variable holds what the code can put there; the pointers are in
\* their matrices, or just behind them.
TypeOK ==
  /\ kernel \in RvvKernels \cup ScalarKernels /\ shape \in RvvShapes
  /\ pc \in { "rows", "columns", "products", "done" }
  /\ rows \in { 1, 2, 4 } /\ jj \in 0 .. M
  /\ pin \in 0 .. M * K /\ po \in 0 .. M * N
  /\ ii \in 0 .. N /\ col \in 0 .. N /\ vl \in 0 .. N /\ kk \in 0 .. K
  /\ DOMAIN C = (0 .. M - 1) \X (0 .. N - 1)

(***************************************************************************)
(* In the three loops over groups of rows, with their different counts, no *)
(* offset leaves its matrix, and all elements of a group of columns are in *)
(* the rows they should be in: pin and po belong to the same row.          *)
(***************************************************************************)
OffsetsInside ==
  pc = "products" =>
    /\ pin * N = po * K
    /\ \A rx \in DOMAIN vc :
         /\ Target(rx[1], rx[2]) < M * N
         /\ Place(Target(rx[1], rx[2]), N) = << po \div N + rx[1], col + rx[2] >>
         /\ kk < K => OperandA(rx[1]) < M * K /\ OperandB(rx[2]) < K * N
=============================================================================
