---------------------------- MODULE Instructions ----------------------------
(***************************************************************************)
(* The programs of instructions/, which measure one instruction after the  *)
(* other: for the V extension and XTheadVector with every element width    *)
(* and register multiplier the instruction has, in a row of cells.         *)
(*                                                                         *)
(* The code decides by the masks of config.h, in which a bit is a pair of  *)
(* a multiplier and a width, and picks one of seven versions of the loop   *)
(* by the multiplier of the largest operand.  What there has to be is      *)
(* derived below from the operands an instruction has.                     *)
(*                                                                         *)
(* Multipliers are counted in eighths.  The seed of the register contents  *)
(* and the times are left out.                                             *)
(***************************************************************************)
EXTENDS Integers, Sequences

CONSTANT Runs   \* measurements of a cell

(***************************************************************************)
(* A program: kind is "rvv", "xtheadvector" or "scalar"; benchmarks is the *)
(* sequence of its instructions, each with a type and the multipliers it   *)
(* lacks, as a move of whole registers does; processor says what it is     *)
(* compiled for.                                                           *)
(***************************************************************************)
VARIABLES
  program,
  pc,
  mode,     \* vl, tail and mask policy: counts the rounds of the loops in main
  b,        \* the benchmark
  cell,     \* element width and multiplier: the rounds of the loops in a row
  repeats,
  table     \* what is printed

ivars == << program, pc, mode, b, cell, repeats, table >>

Processors == [elen : { 32, 64 }, elenFp : { 32, 64 }, zvfh : BOOLEAN,
               zvknha : BOOLEAN, zvknhb : BOOLEAN]

Types(kind) ==
  CASE kind = "rvv" -> { "T_A", "T_F", "T_W", "T_WR", "T_N", "T_FW", "T_FWR", "T_FN",
                         "T_VF2", "T_VF4", "T_VF8", "T_ei16", "T_E8", "T_E16",
                         "T_E32", "T_E64", "T_64", "T_GSH", "T_AES", "T_AES2",
                         "T_SHA", "T_m1" }
    [] kind = "xtheadvector" -> { "T_A", "T_W", "T_N", "T_F", "T_FW", "T_FN" }
    [] kind = "scalar" -> { "none" }

Benchmark == program.benchmarks[b]
Processor == program.processor

-----------------------------------------------------------------------------
(* The masks.                                                              *)

Bits(x) == { k \in 0 .. 28 : (x \div 2^k) % 2 = 1 }
\* x >> 1
Halved(s) == { k - 1 : k \in s \ { 0 } }

T_A == IF Processor.elen >= 64 THEN Bits(\b1111111111111111111111111111)
                               ELSE Bits(\b0111011101110111011101110111)
T_F == (IF Processor.zvfh THEN Bits(\b0010001000100010001000100010) ELSE {})
       \cup (IF Processor.elenFp >= 64 THEN Bits(\b1100110011001100110011001100)
                                       ELSE Bits(\b0100010001000100010001000100))
T_Fw == T_F \cap Halved(T_F)
T_SHA == (IF Processor.zvknha THEN Bits(\b0100010001000000000000000000) ELSE {})
         \cup (IF Processor.zvknhb THEN Bits(\b1000100000000000000000000000) ELSE {})

RvvMask(t) ==
  CASE t = "T_A"    -> T_A
    [] t = "T_F"    -> T_F
    [] t = "T_W"    -> T_A  \cap Bits(\b0000011101110111011101110111)
    [] t = "T_WR"   -> T_A  \cap Bits(\b0111011101110111011101110111)
    [] t = "T_N"    -> T_A  \cap Bits(\b0000011101110111011101110111)
    [] t = "T_FW"   -> T_Fw \cap Bits(\b0000011001100110011001100110)
    [] t = "T_FWR"  -> T_Fw \cap Bits(\b0110011001100110011001100110)
    [] t = "T_FN"   -> T_Fw \cap Bits(\b0000011001100110011001100110)
    [] t = "T_VF2"  -> T_A  \cap Bits(\b1110111011101110111011101110)
    [] t = "T_VF4"  -> T_A  \cap Bits(\b1100110011001100110011001100)
    [] t = "T_VF8"  -> T_A  \cap Bits(\b1000100010001000100010001000)
    [] t = "T_ei16" -> T_A  \cap Bits(\b1110111111111111111111111111)
    [] t = "T_E8"   -> T_A  \cap Bits(\b1111111111111111011100110001)
    [] t = "T_E16"  -> T_A  \cap Bits(\b1110111011101110111111111111)
    [] t = "T_E32"  -> T_A  \cap Bits(\b1100110011001100111011111111)
    [] t = "T_E64"  -> T_A  \cap Bits(\b1000100010001000110011101111)
    [] t = "T_64"   -> Bits(\b1000100010001000100000000000)
    [] t \in { "T_GSH", "T_AES" } -> Bits(\b0100010001000100000000000000)
    [] t = "T_AES2" -> Bits(\b0100010001000000000000000000)
    [] t = "T_SHA"  -> T_SHA
    [] t = "T_m1"   -> Bits(2^28) \cup T_A

XtheadMask(t) ==
  CASE t = "T_A"  -> Bits(\b11111111)
    [] t = "T_F"  -> Bits(\b11101111)
    [] t \in { "T_W", "T_N" }   -> Bits(\b01110111)
    [] t \in { "T_FW", "T_FN" } -> Bits(\b01100111)

-----------------------------------------------------------------------------
(* The programs.                                                           *)

Cells == CASE program.kind = "rvv" -> 28
           [] program.kind = "xtheadvector" -> 16
           [] program.kind = "scalar" -> 1
Modes == CASE program.kind = "rvv" -> 8
           [] program.kind = "xtheadvector" -> 2
           [] program.kind = "scalar" -> 1

mask     == RvvMask(Benchmark.type)
lmul_idx == cell % 7
sew      == cell \div 7

Blank == << "blank" >>

Init ==
  /\ pc = "mode" /\ mode = 0 /\ b = 1 /\ cell = 0 /\ repeats = 0
  /\ table = << >>

StartMode ==
  /\ pc = "mode"
  /\ table' = Append(table, << "mode", mode >>)
  /\ b' = 1
  /\ pc' = "row"
  /\ UNCHANGED << program, mode, cell, repeats >>

StartRow ==
  /\ pc = "row" /\ b =< Len(program.benchmarks)
  /\ table' = Append(table, << "row", b >>)
  /\ cell' = 0
  /\ pc' = "cell"
  /\ UNCHANGED << program, mode, b, repeats >>

EndMode ==
  /\ pc = "row" /\ b > Len(program.benchmarks)
  /\ mode' = mode + 1
  /\ pc' = IF mode' = Modes THEN "done" ELSE "mode"
  /\ UNCHANGED << program, b, cell, repeats, table >>

\* the bit of the mask is set; for the V extension the fraction of a
\* register must have room for an element
Selected ==
  CASE program.kind = "rvv" ->
         /\ lmul_idx * 4 + sew \in mask
         /\ 2^(sew + 3) * 8 =< 2^lmul_idx * Processor.elen
    [] program.kind = "xtheadvector" ->
         /\ cell % 4 \in XtheadMask(Benchmark.type)
         /\ 4 + cell \div 4 \in XtheadMask(Benchmark.type)
    [] program.kind = "scalar" -> TRUE

\* mutant: the loop is for the multiplier, whatever the operands are
EmulIsLmul == lmul_idx

emul ==
  CASE mask \in { RvvMask("T_W"), RvvMask("T_FW"), RvvMask("T_N"), RvvMask("T_FN") } ->
         lmul_idx + 1
    [] mask = RvvMask("T_ei16") /\ sew = 0 -> IF lmul_idx < 7 THEN lmul_idx + 1 ELSE 7
    [] mask = RvvMask("T_m1") -> 4
    [] OTHER -> lmul_idx

\* the registers of an operand in the loops benches points to
Registers == << 1, 1, 1, 1, 2, 4, 8 >>
Loop == CASE program.kind = "rvv" -> IF emul < 7 THEN Registers[emul + 1] ELSE "none"
          [] program.kind = "xtheadvector" -> 0
          [] program.kind = "scalar" -> 0

\* 0 stands for VLMAX
Vl == CASE program.kind = "rvv" ->
             IF mask \in { RvvMask("T_GSH"), RvvMask("T_AES"), RvvMask("T_AES2"),
                           RvvMask("T_SHA") } THEN 4 ELSE mode \div 4
        [] program.kind = "xtheadvector" -> mode
        [] program.kind = "scalar" -> 0

Skip ==
  /\ pc = "cell" /\ cell < Cells /\ ~Selected
  /\ table' = Append(table, Blank)
  /\ cell' = cell + 1
  /\ UNCHANGED << program, pc, mode, b, repeats >>

Select ==
  /\ pc = "cell" /\ cell < Cells /\ Selected
  /\ repeats' = 0
  /\ pc' = "run"
  /\ UNCHANGED << program, mode, b, cell, table >>

\* a loop that is not there returns ~0
Implemented == program.kind = "rvv" => emul \notin Benchmark.lacks

RunLoop ==
  /\ pc = "run" /\ repeats < Runs /\ Implemented
  /\ repeats' = repeats + 1
  /\ UNCHANGED << program, pc, mode, b, cell, table >>

\* goto skip
Unimplemented ==
  /\ pc = "run" /\ repeats < Runs /\ ~Implemented
  /\ table' = Append(table, Blank)
  /\ cell' = cell + 1
  /\ pc' = "cell"
  /\ UNCHANGED << program, mode, b, repeats >>

Report ==
  /\ pc = "run" /\ repeats = Runs
  /\ table' = Append(table, << Loop, cell, Vl >>)
  /\ cell' = cell + 1
  /\ pc' = "cell"
  /\ UNCHANGED << program, mode, b, repeats >>

EndRow ==
  /\ pc = "cell" /\ cell = Cells
  /\ b' = b + 1
  /\ pc' = "row"
  /\ UNCHANGED << program, mode, cell, repeats, table >>

Next ==
  \/ StartMode \/ StartRow \/ EndRow \/ EndMode
  \/ Skip \/ Select \/ RunLoop \/ Unimplemented \/ Report
  \/ pc = "done" /\ UNCHANGED ivars

-----------------------------------------------------------------------------
(* What there has to be: a cell is measured if every operand has a width   *)
(* the processor has and fits in at most 8 registers, and with a loop that *)
(* has that many for it.                                                   *)

Float(p, w) == w = 32 \/ (w = 16 /\ p.zvfh) \/ (w = 64 /\ p.elenFp = 64)

\* the width in a memory access's name
Eew(t) == CASE t = "T_E8" -> 8 [] t = "T_E16" -> 16 [] t = "T_E32" -> 32 [] t = "T_E64" -> 64

\* width w and multiplier m of the largest operand, where type t has them
Legal(t, p, w, m) ==
  /\ w =< p.elen /\ 8 * w =< m * p.elen
  /\ CASE t \in { "T_A", "T_m1" }   -> TRUE
       [] t \in { "T_W", "T_N" }    -> 2 * w =< p.elen /\ 2 * m =< 64
       [] t = "T_WR"                -> 2 * w =< p.elen
       [] t = "T_F"                 -> Float(p, w)
       [] t \in { "T_FW", "T_FN" }  -> Float(p, w) /\ Float(p, 2 * w) /\ 2 * m =< 64
       [] t = "T_FWR"               -> Float(p, w) /\ Float(p, 2 * w)
       [] t \in { "T_VF2" }         -> w \div 2 >= 8
       [] t \in { "T_VF4" }         -> w \div 4 >= 8
       [] t \in { "T_VF8" }         -> w \div 8 >= 8
       [] t = "T_ei16"              -> 16 * m =< 64 * w
       [] t \in { "T_E8", "T_E16", "T_E32", "T_E64" } ->
            Eew(t) =< p.elen /\ Eew(t) * m =< w * (IF m > 8 THEN m ELSE 8)
              /\ Eew(t) * m >= w
       [] t = "T_64"                -> w = 64
       [] t \in { "T_GSH", "T_AES" } -> w = 32 /\ m >= 8
       [] t = "T_AES2"              -> w = 32 /\ m >= 16
       [] t = "T_SHA" -> (p.zvknha /\ w = 32 /\ m >= 16) \/ (p.zvknhb /\ w = 64 /\ m >= 32)

\* the multiplier of the largest operand
Largest(t, w, m) ==
  CASE t \in { "T_W", "T_N", "T_FW", "T_FN" } -> 2 * m
    [] t = "T_ei16" /\ w = 8 -> 2 * m
    [] t = "T_m1" -> 16
    [] OTHER -> m

RvvCell(f, p, md, k) ==
  LET w == 2^(k \div 7 + 3)
      m == 2^(k % 7)
      r == IF Largest(f.type, w, m) =< 8 THEN 1 ELSE Largest(f.type, w, m) \div 8
  IN  IF Legal(f.type, p, w, m) /\ k % 7 \notin f.lacks
        THEN << r, k, IF f.type \in { "T_GSH", "T_AES", "T_AES2", "T_SHA" } THEN 4
                      ELSE md \div 4 >>
        ELSE Blank

XtheadCell(f, md, k) ==
  LET w == 2^(k \div 4 + 3)
      wide == f.type \in { "T_W", "T_N", "T_FW", "T_FN" }
  IN  IF /\ wide => 2 * w =< 64 /\ k % 4 # 3
         /\ f.type \in { "T_F", "T_FW", "T_FN" } => w >= 16
        THEN << 0, k, md >> ELSE Blank

Rows(p, md) ==
  LET row(j) == CASE p.kind = "rvv" ->
                       [k \in 1 .. 28 |-> RvvCell(p.benchmarks[j], p.processor, md, k - 1)]
                  [] p.kind = "xtheadvector" ->
                       [k \in 1 .. 16 |-> XtheadCell(p.benchmarks[j], md, k - 1)]
                  [] p.kind = "scalar" -> << << 0, 0, 0 >> >>
      rows[j \in 0 .. Len(p.benchmarks)] ==
        IF j = 0 THEN << << "mode", md >> >> ELSE rows[j - 1] \o << << "row", j >> >> \o row(j)
  IN  rows[Len(p.benchmarks)]

Table(p) ==
  LET last == CASE p.kind = "rvv" -> 7 [] p.kind = "xtheadvector" -> 1 [] OTHER -> 0
      upTo[md \in 0 .. last] == IF md = 0 THEN Rows(p, 0) ELSE upTo[md - 1] \o Rows(p, md)
  IN  upTo[last]

\* Every variable holds what the code can put there, and a loop that is run
\* is in the table of loops.
TypeOK ==
  /\ pc \in { "mode", "row", "cell", "run", "done" }
  /\ mode \in 0 .. Modes /\ b \in 1 .. Len(program.benchmarks) + 1
  /\ cell \in 0 .. Cells /\ repeats \in 0 .. Runs
  /\ pc = "run" /\ program.kind = "rvv" => emul \in 0 .. 6
=============================================================================
