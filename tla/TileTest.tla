------------------------------ MODULE TileTest ------------------------------
(***************************************************************************)
(* nuclei_baremetal/test: a matrix product and a transposition with one    *)
(* tile register, compared to tables.                                      *)
(*                                                                         *)
(* An instruction that cannot be named is a word that is put in the        *)
(* program, and the machine does what the word means.                      *)
(***************************************************************************)
EXTENDS Integers, Sequences, FiniteSets

(***************************************************************************)
(* The words of the matrix instructions (common/zvt_encoding.h), by the    *)
(* macros ZVT_ENC_*, and by the functions for those instructions whose     *)
(* operands are scalar registers, which spell the same words once more     *)
(* with the directive .insn.                                               *)
(*                                                                         *)
(* A word is the tuple of its fields, from bit 31 down: funct7, rs2, rs1,  *)
(* funct3, rd, opcode.                                                     *)
(***************************************************************************)
CONSTANTS Regs   \* numbers of registers that are looked at

Tiles == 0 .. 15

\* ZVT_FIELD: a value is cut to the width of its field
Field(v, bits) == v % 2^bits

ENC_R(funct7, rs2, rs1, funct3, rd, opcode) ==
  << Field(funct7, 7), Field(rs2, 5), Field(rs1, 5), Field(funct3, 3),
     Field(rd, 5), Field(opcode, 7) >>

\* three of the four bits of a tile have a place in an arithmetic instruction
ARITH_RD(mtd, altbit) == 4 * Field(mtd \div 2, 3) + Field(altbit, 1)

ENC_ARITH(funct3, altbit, mtd, vs2, vs1) ==
  ENC_R(121, vs2, vs1, funct3, ARITH_RD(mtd, altbit), 119)

ENC_MSETMTYPE(mtype, vtype) == ENC_R(66, vtype, mtype, 7, 0, 87)

\* mutant: all three of them set tn
SubOpTn(op) == 0

SubOp(op) == CASE op = "msettn" -> 0 [] op = "msettm" -> 1 [] op = "msettk" -> 2

ENC_MSETT(op, rd, rs1) == ENC_R(68, SubOp(op), rs1, 7, rd, 87)

ENC_MSETMTYPEI(vsew, altfmt, mtwiden) ==
  << 16 * 4 + 8 * Field(altfmt, 1) + 4, 8 * Field(vsew, 2) + 4, Field(mtwiden, 2),
     7, 0, 87 >>

TILE_MEM_FUNCT7(eew) == 16 * Field(eew, 3) + 9

ENC_VTLE(eew, tss, addr) == ENC_R(TILE_MEM_FUNCT7(eew), tss, addr, 7, 0, 7)
ENC_VTSE(eew, tss, addr) == ENC_R(TILE_MEM_FUNCT7(eew), tss, addr, 7, 0, 39)

ENC_VTMV_V_T(vd, tss)  == ENC_R(33, 31, tss, 6, vd, 87)
ENC_VTMV_T_V(tss, vs2) == ENC_R(47, vs2, tss, 6, 0, 87)

\* the vtfmm of the code have funct3 = 1, its vtmmu and vtmms have 0
ENC_MM(op, mtd, vs2, vs1) ==
  ENC_ARITH(IF op \in { "vtfmm", "vtfmm_alt" } THEN 1 ELSE 0,
            IF op \in { "vtfmm_alt", "vtmms" } THEN 1 ELSE 0, mtd, vs2, vs1)

ENC_VTZERO(mtd) == ENC_R(33, 30, 0, 6, 2 * Field(mtd, 4), 87)
ENC_VTDISCARD   == ENC_R(33, 28, 0, 6, 0, 87)

-----------------------------------------------------------------------------
(* The instructions, and the words that have a meaning.                    *)

Mm    == { "vtfmm", "vtfmm_alt", "vtmmu", "vtmms" }
MSett == { "msettn", "msettm", "msettk" }

Instructions ==
  { "msetmtype" } \X Regs \X Regs
    \cup MSett \X Regs \X Regs
    \cup { "msetmtypei" } \X (0 .. 3) \X (0 .. 1) \X (0 .. 3)
    \cup { "vtle", "vtse" } \X (0 .. 3) \X Regs \X Regs
    \cup { "vtmv_v_t", "vtmv_t_v" } \X Regs \X Regs
    \cup Mm \X { t \in Tiles : t % 2 = 0 } \X Regs \X Regs
    \cup { "vtzero" } \X Tiles
    \cup { << "vtdiscard" >> }

\* the macro of an instruction
Encode(x) ==
  CASE x[1] = "msetmtype"  -> ENC_MSETMTYPE(x[2], x[3])
    [] x[1] \in MSett      -> ENC_MSETT(x[1], x[2], x[3])
    [] x[1] = "msetmtypei" -> ENC_MSETMTYPEI(x[2], x[3], x[4])
    [] x[1] = "vtle"       -> ENC_VTLE(x[2], x[3], x[4])
    [] x[1] = "vtse"       -> ENC_VTSE(x[2], x[3], x[4])
    [] x[1] = "vtmv_v_t"   -> ENC_VTMV_V_T(x[2], x[3])
    [] x[1] = "vtmv_t_v"   -> ENC_VTMV_T_V(x[2], x[3])
    [] x[1] \in Mm         -> ENC_MM(x[1], x[2], x[3], x[4])
    [] x[1] = "vtzero"     -> ENC_VTZERO(x[2])
    [] x[1] = "vtdiscard"  -> ENC_VTDISCARD

\* .insn r opcode, funct3, funct7, rd, rs1, rs2
Insn(opcode, funct3, funct7, rd, rs1, rs2) ==
  << funct7, rs2, rs1, funct3, rd, opcode >>

\* the functions zvt_*, with the registers the compiler has chosen
zvt_msetmtype(mtype, vtype) == Insn(87, 7, 66, 0, mtype, vtype)
zvt_msett(op, rd, rs1) ==
  Insn(87, 7, 68, rd, rs1, CASE op = "msettn" -> 0 [] op = "msettm" -> 1
                             [] op = "msettk" -> 2)
FunctionFunct7(eew) == CASE eew = 0 -> 9 [] eew = 1 -> 25 [] eew = 2 -> 41 [] eew = 3 -> 57
zvt_vtle(eew, tss, addr) == Insn(7, 7, FunctionFunct7(eew), 0, addr, tss)
zvt_vtse(eew, tss, addr) == Insn(39, 7, FunctionFunct7(eew), 0, addr, tss)

-----------------------------------------------------------------------------
(* Tile subset specifiers, which are values of registers.                  *)

TSS(tile, pattern, index) == << Field(tile, 4), Field(pattern, 3), Field(index, 24) >>

TSS_ROW_OF(tile, row) == TSS(tile, 0, row)

\* mutant: the pattern of a row
TSS_COL_OFRow(tile, col) == TSS(tile, 0, col)

TSS_COL_OF(tile, col) == TSS(tile, 1, col)

-----------------------------------------------------------------------------
(* The test.                                                               *)


DIM == 4
Dim == 0 .. DIM - 1

matmul_a == << 1, 2, 3, 4,  -1, 0, 1, 2,  2, -2, 1, 0,  3, 1, -1, 2 >>
matmul_b == << 1, 2, 3, 4,  2, -1, 0, 1,  1, 0, 2, -2,  0, 1, -1, 3 >>
matmul_expected    == << 1, 6, 4, 8,  0, 5, 1, 15,  6, 4, 12, 8,  8, 8, 10, 24 >>
tile_zero          == [x \in 1 .. DIM * DIM |-> 0]
transpose_input    == [x \in 1 .. DIM * DIM |-> x]
transpose_expected == << 1, 5, 9, 13,  2, 6, 10, 14,  3, 7, 11, 15,  4, 8, 12, 16 >>

Rows(table) == [r \in Dim |-> [c \in Dim |-> table[DIM * r + c + 1]]]

VARIABLES
  machine,   \* the size of the tiles: they fit, or one of msett* grants less
  pc, k,
  word,      \* the last instruction that was put there as a word
  asked,     \* and what it is in the program
  tile,      \* mt0
  result,
  failed

tvars == << machine, pc, k, word, asked, tile, result, failed >>

Undefined == [r \in Dim |-> [c \in Dim |-> 99]]

TestInit ==
  /\ machine \in { "fits" } \cup MSett
  /\ pc = "msetmtype" /\ k = 0
  /\ word = << >> /\ asked = << >>
  /\ tile = Undefined /\ result = Undefined
  /\ failed = FALSE

\* instruction x is put in the program as word w
Emit(w, x) == word' = w /\ asked' = x

-----------------------------------------------------------------------------
(* configure_f32_tile.                                                     *)

SetType ==
  /\ pc = "msetmtype"
  /\ \E mtype, vtype \in Regs :
       Emit(zvt_msetmtype(mtype, vtype), << "msetmtype", mtype, vtype >>)
  /\ pc' = "msettm"
  /\ UNCHANGED << machine, k, tile, result, failed >>

AfterSize == [msettm |-> "msettn", msettn |-> "msettk", msettk |-> "zero"]

\* main returns 1 if the tile has fewer than DIM rows or columns
SetSize ==
  /\ pc \in MSett
  /\ \E rd, rs1 \in Regs : Emit(zvt_msett(pc, rd, rs1), << pc, rd, rs1 >>)
  /\ IF machine = pc THEN pc' = "done" /\ failed' = TRUE
                     ELSE pc' = AfterSize[pc] /\ UNCHANGED failed
  /\ UNCHANGED << machine, k, tile, result >>

-----------------------------------------------------------------------------
(* matmul and transpose: loops over the rows or columns of the tile.       *)

NextK(after) == IF k + 1 < DIM THEN k' = k + 1 /\ UNCHANGED pc
                               ELSE k' = 0 /\ pc' = after

\* the places of the tile that a specifier names, in the order of memory
Subset(tss) == [x \in Dim |-> IF tss[2] = 0 THEN << tss[3], x >> ELSE << x, tss[3] >>]

Load(from, tss) ==
  /\ \E addr \in Regs : \E t \in Regs \ { addr } :
       Emit(zvt_vtle(2, t, addr), << "vtle", 2, t, addr >>)
  /\ tile' = [r \in Dim |-> [c \in Dim |->
                IF \E x \in Dim : Subset(tss)[x] = << r, c >>
                  THEN from[k][CHOOSE x \in Dim : Subset(tss)[x] = << r, c >>]
                  ELSE tile[r][c]]]

Store(tss) ==
  /\ \E addr \in Regs : \E t \in Regs \ { addr } :
       Emit(zvt_vtse(2, t, addr), << "vtse", 2, t, addr >>)
  /\ result' = [result EXCEPT ![k] =
                  [x \in Dim |-> LET p == Subset(tss)[x] IN tile[p[1]][p[2]]]]

LoadZero ==
  /\ pc = "zero" /\ Load(Rows(tile_zero), TSS_ROW_OF(0, k)) /\ NextK("fmm")
  /\ UNCHANGED << machine, result, failed >>

\* vtfmm mt0, v8, v16, with row k of matmul_a in v8, and of matmul_b in v16
Multiply ==
  /\ pc = "fmm"
  /\ Emit(ENC_MM("vtfmm", 0, 8, 16), << "vtfmm", 0, 8, 16 >>)
  /\ tile' = [r \in Dim |-> [c \in Dim |->
                tile[r][c] + Rows(matmul_a)[k][r] * Rows(matmul_b)[k][c]]]
  /\ NextK("store")
  /\ UNCHANGED << machine, result, failed >>

StoreProduct ==
  /\ pc = "store" /\ Store(TSS_ROW_OF(0, k)) /\ NextK("check_product")
  /\ UNCHANGED << machine, tile, failed >>

LoadInput ==
  /\ pc = "load" /\ Load(Rows(transpose_input), TSS_ROW_OF(0, k))
  /\ NextK("transpose")
  /\ UNCHANGED << machine, result, failed >>

StoreColumns ==
  /\ pc = "transpose" /\ Store(TSS_COL_OF(0, k)) /\ NextK("check_columns")
  /\ UNCHANGED << machine, tile, failed >>

\* check
Check(expected) == failed' = (failed \/ result # Rows(expected))

CheckProduct ==
  /\ pc = "check_product" /\ Check(matmul_expected)
  /\ pc' = "load"
  /\ UNCHANGED << machine, k, word, asked, tile, result >>

CheckColumns ==
  /\ pc = "check_columns" /\ Check(transpose_expected)
  /\ pc' = "done"
  /\ UNCHANGED << machine, k, word, asked, tile, result >>

TestNext ==
  \/ SetType \/ SetSize
  \/ LoadZero \/ Multiply \/ StoreProduct \/ CheckProduct
  \/ LoadInput \/ StoreColumns \/ CheckColumns
  \/ pc = "done" /\ UNCHANGED tvars

-----------------------------------------------------------------------------
\* Every variable holds what the code can put there.
TestTypeOK ==
  /\ machine \in { "fits" } \cup MSett /\ k \in Dim /\ failed \in BOOLEAN
  /\ asked \in Instructions \cup { << >> }
  /\ tile \in [Dim -> [Dim -> Int]] /\ result \in [Dim -> [Dim -> Int]]

(***************************************************************************)
(* The words mean what the program says: what the functions zvt_* and the  *)
(* macros spell for an instruction is the word of that instruction and of  *)
(* no other; and no two instructions have the same word.                   *)
(***************************************************************************)
OneMeaning ==
  /\ asked # << >> => { x \in Instructions : Encode(x) = word } = { asked }
  /\ Cardinality({ Encode(x) : x \in Instructions }) = Cardinality(Instructions)

(***************************************************************************)
(* The test fails on a machine with smaller tiles, and on no other: the    *)
(* tables are the product of the transposed matmul_a and matmul_b, and the *)
(* transposed input.                                                       *)
(***************************************************************************)
VerdictRight == pc = "done" => (failed = (machine # "fits"))
=============================================================================
