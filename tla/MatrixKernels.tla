--------------------------- MODULE MatrixKernels ---------------------------
(***************************************************************************)
(* The matrix multiplications of nuclei_baremetal/common: on tile          *)
(* registers (SgemmVme), on vector registers and in plain C (SgemmRvv).    *)
(* All of them are called for by the same programs and promise the same,   *)
(* but that the first adds the product to C and the others store it.       *)
(*                                                                         *)
(* The first has a test of its own for a machine: TileTest.                *)
(*                                                                         *)
(* With them are the transposes of bench/ (Transposes).                    *)
(*                                                                         *)
(* One of them runs; what the others use keeps its value.                  *)
(***************************************************************************)
EXTENDS Integers, Sequences

CONSTANTS T, Shapes, RvvShapes, VlmaxM4, Regs, Calls

ASSUME TAssumption == T \in Nat \ {0} /\ VlmaxM4 \in Nat \ {0}
ASSUME RegsAssumption == { 8, 16 } \subseteq Regs /\ Regs \subseteq 0 .. 31
ASSUME ShapesAssumption ==
  Shapes \subseteq Nat \X Nat \X Nat /\ RvvShapes \subseteq Nat \X Nat \X Nat

VARIABLES
  kernel, shape, pc, C,
  machine, m0, n0, k0, k, aTile, cTile,
  rows, jj, pin, po, ii, col, vl, kk, vc,
  word, asked, failed

\* what is of one of them only
vmeVars  == << m0, n0, k0, cTile >>
rvvVars  == << rows, jj, pin, po, ii, col, vl, kk, vc >>
testVars == << word, asked, failed >>
vars     == << kernel, shape, pc, C, machine, k, aTile, vmeVars, rvvVars, testVars >>

Vme  == INSTANCE SgemmVme
Rvv  == INSTANCE SgemmRvv
Test == INSTANCE TileTest WITH tile <- aTile, result <- C
Trans == INSTANCE Transposes
           WITH call <- word, left <- rows, done <- col, regs <- vc, dest <- C

ASSUME CallsAssumption == \A c \in Calls : Trans!IsCall(c)

IsVme   == kernel = "_sgemm_vme"
IsTest  == kernel = "test"
IsTrans == kernel = "trans8x8"
IsRvv   == ~IsVme /\ ~IsTest /\ ~IsTrans

NoVme  == m0 = 0 /\ n0 = 0 /\ k0 = 0 /\ cTile = << >>
NoRvv  == /\ rows = 0 /\ jj = 0 /\ pin = 0 /\ po = 0 /\ ii = 0 /\ col = 0
          /\ vl = 0 /\ kk = 0 /\ vc = << >>
NoTest == word = << >> /\ asked = << >> /\ failed = FALSE

Init ==
  \/ kernel = "_sgemm_vme" /\ Vme!Init /\ NoRvv /\ NoTest
  \/ Rvv!Init /\ NoVme /\ NoTest /\ machine = "fits" /\ k = 0 /\ aTile = << >>
  \/ kernel = "test" /\ shape = << 0, 0, 0 >> /\ Test!TestInit /\ NoVme /\ NoRvv
  \/ kernel = "trans8x8" /\ shape = << 0, 0, 0 >> /\ Trans!TransInit
       /\ machine = "fits" /\ k = 0 /\ aTile = << >> /\ NoVme
       /\ jj = 0 /\ pin = 0 /\ po = 0 /\ ii = 0 /\ vl = 0 /\ kk = 0
       /\ asked = << >> /\ failed = FALSE

Next ==
  \/ IsVme  /\ Vme!Next /\ UNCHANGED << kernel, rvvVars, testVars >>
  \/ IsRvv  /\ Rvv!Next /\ UNCHANGED << machine, k, aTile, vmeVars, testVars >>
  \/ IsTest /\ Test!TestNext /\ UNCHANGED << kernel, shape, vmeVars, rvvVars >>
  \/ IsTrans /\ Trans!TransNext
       /\ UNCHANGED << kernel, shape, machine, k, aTile, vmeVars, jj, pin, po, ii, vl,
                       kk, asked, failed >>

\* one hart runs the kernel and nothing in it waits
Spec == Init /\ [][Next]_vars /\ WF_vars(Next)

-----------------------------------------------------------------------------
(* Properties.                                                             *)

\* Every variable of the kernel holds what the code can put there.
TypeOK == CASE IsVme -> Vme!TypeOK [] IsRvv -> Rvv!TypeOK [] IsTest -> Test!TestTypeOK
            [] IsTrans -> Trans!TransTypeOK

Served == IsVme => Vme!Accepted /\ machine = "fits"
Asked  == << shape[1], shape[2], shape[3], IF IsVme THEN T ELSE 1, IsVme >>

Abstract == INSTANCE Gemm
  WITH Shapes <- { << s[1], s[2], s[3], T, TRUE >> : s \in Shapes }
                   \cup { << s[1], s[2], s[3], 1, FALSE >> :
                            s \in RvvShapes \cup { << 0, 0, 0 >> } },
       shape <- Asked, C <- IF IsTest \/ IsTrans THEN << >> ELSE C, served <- Served, returned <- pc = "done"

(***************************************************************************)
(* The call ends with the product in C, added to what was there by the     *)
(* tile kernel; and with C unchanged when the tile kernel turned the shape *)
(* down, or the machine does not have the registers.                       *)
(***************************************************************************)
ResultIsProduct ==
  pc = "done" /\ ~IsTest /\ ~IsTrans =>
    \A p \in Abstract!Pieces(Asked) :
      C[p] = IF Served THEN Abstract!Partial(Asked, p[1], p[2], shape[2])
                       ELSE Abstract!Before(p[1], p[2])

\* The double buffering of A: a column of A about to be multiplied is still
\* in its tile register (SgemmVme).
OperandInTile == IsVme => Vme!OperandInTile

\* The kernels on vector registers stay inside the matrices, in every one of
\* their loops over rows (SgemmRvv).
OffsetsInside == IsRvv => Rvv!OffsetsInside

\* The transposes store what trans8x8_seq_scalar stores, where it stores it,
\* and nothing else (Transposes).
ResultIsTransposed == IsTrans => Trans!ResultIsTransposed

\* The words in the test are the instructions they stand for (TileTest).
OneMeaning == IsTest => Test!OneMeaning

\* The test fails on a machine with small tiles only (TileTest).
VerdictRight == IsTest => Test!VerdictRight

\* The double buffering of C: a finished row leaves its tile register only
\* after it has been stored (SgemmVme).
NoFinishedRowLost == [][IsVme => Vme!FinishedRowsStored]_vars

(***************************************************************************)
(* Every kernel implements Gemm: a piece of C goes from its old value to   *)
(* the final one in one step, never to a partial sum and never twice, and  *)
(* the call returns with every piece final.  The test and the transposes,  *)
(* which have no such C, return.                                           *)
(***************************************************************************)
ImplementsGemm == Abstract!Spec
=============================================================================
