------------------------------ MODULE Harness ------------------------------
(***************************************************************************)
(* The harness on its two levels: bench_run, for which a call of           *)
(* bench_time is some repetitions of the bench function, and one call of   *)
(* bench_time, with the times the bench function returns (BenchRun); and   *)
(* the programs that do without it: those that run each kernel once        *)
(* (FixedBench) and those that measure instructions (Instructions); and    *)
(* main and the bench functions, which divide the memory (Layout).  What   *)
(* is looked at is chosen in the beginning.                                *)
(***************************************************************************)
EXTENDS Integers, Sequences

CONSTANTS
  Programs, Sizes, Guard, MaxRepeats, Variants,   \* of BenchRun
  Times, Stale, StopCycles, Configs,              \* and its bench_time
  FixedPrograms,                                  \* of FixedBench
  InstructionPrograms,                            \* of Instructions
  Memories, Addresses, Displacements              \* of Layout

ASSUME TimesAssumption == Times \subseteq Nat /\ Stale \in Nat \ Times
ASSUME ConfigsAssumption ==
  Configs \subseteq Nat \X (Nat \ {0}) \X { "hosted", "baremetal" }

VARIABLES
  level,
  pc, i, repeats,
  variant, program, rand, mem, last, b, s, seed, si, s0, out, status,
  config, arr, total, sum, count,
  pass, failed

\* what is of one of the levels only
runVars   == << variant, rand, last, b, seed, si, s0, status >>
timeVars  == << config, arr, total, count >>
fixedVars == << pass, failed >>
vars      == << level, pc, i, repeats, program, mem, s, out, sum,
                runVars, timeVars, fixedVars >>

Run   == INSTANCE BenchRun
Fixed == INSTANCE FixedBench WITH c <- mem, x <- s, max <- sum, lines <- out
Cells == INSTANCE Instructions
           WITH mode <- i, cell <- sum, table <- out, Runs <- MaxRepeats

Cut   == INSTANCE Layout
           WITH memory <- program, address <- s, room <- sum, bench <- mem,
                n <- i, offs <- arr

NoRun   == /\ variant = "hosted" /\ rand = 0 /\ last = << >> /\ b = 0
           /\ seed = 0 /\ si = << >> /\ s0 = << >> /\ status = "running"
NoTime  == config = << >> /\ arr = << >> /\ total = 0 /\ count = 0
NoFixed == pass = TRUE /\ failed = FALSE

Init ==
  \/ level = "bench_run"  /\ Run!Init /\ NoTime /\ NoFixed /\ sum = 0
  \/ level = "bench_time" /\ Run!TimeInit /\ NoRun /\ NoFixed
       /\ program = << >> /\ mem = << >> /\ s = 0 /\ out = << >>
  \/ level = "fixed" /\ program \in FixedPrograms /\ Fixed!FixedInit
       /\ NoRun /\ NoTime /\ repeats = 0
  \/ level = "instructions" /\ program \in InstructionPrograms /\ Cells!Init
       /\ variant = "hosted" /\ rand = 0 /\ last = << >> /\ seed = 0
       /\ si = << >> /\ s0 = << >> /\ status = "running"
       /\ NoTime /\ NoFixed /\ mem = << >> /\ s = 0
  \/ level = "layout" /\ program \in Memories /\ Cut!LayoutInit /\ NoRun /\ NoFixed
       /\ repeats = 0 /\ out = << >> /\ config = << >> /\ total = 0 /\ count = 0

Next ==
  \/ level = "bench_run"  /\ Run!Next
       /\ UNCHANGED << level, sum, timeVars, fixedVars >>
  \/ level = "bench_time" /\ Run!TimeNext
       /\ UNCHANGED << level, program, mem, s, out, runVars, fixedVars >>
  \/ level = "fixed" /\ Fixed!FixedNext
       /\ UNCHANGED << level, repeats, runVars, timeVars >>
  \/ level = "instructions" /\ Cells!Next
       /\ UNCHANGED << level, mem, s, variant, rand, last, seed, si, s0, status,
                       timeVars, fixedVars >>
  \/ level = "layout" /\ Cut!LayoutNext
       /\ UNCHANGED << level, repeats, out, config, total, count, runVars, fixedVars >>

\* the only thread goes on, and a loop of repetitions is left at the latest
\* after MaxRepeats of them
Spec == Init /\ [][Next]_vars /\ WF_vars(Next)

ASSUME ProgramsAssumption ==
  Programs \subseteq [kind : Run!Kinds, aligned : Seq(BOOLEAN),
                      impls : Seq(Run!Kernels) \ { << >> }]
ASSUME SizesAssumption ==
  Sizes \in Seq(Nat \ {0}) /\ Guard \in Nat \ {0} /\ MaxRepeats \in Nat \ {0}

\* the kernels of a program compute the same matrix
ASSUME FixedProgramsAssumption ==
  /\ FixedPrograms \subseteq
       [kind : { "fixed", "i8i32" }, simulation : BOOLEAN,
        impls : Seq(Seq({ "same", "near", "far", "nan", "nothing" }) \ { << >> }) \ { << >> }]
  /\ \A p \in FixedPrograms : \A j \in DOMAIN p.impls : Len(p.impls[j]) = Len(p.impls[1])

(***************************************************************************)
(* Only whole register moves lack multipliers.  A processor has what its   *)
(* extensions need.  With elements of 32 bits at most, the masks of the    *)
(* widening and narrowing instructions offer that width although there is  *)
(* none of twice that: such programs are left out.                         *)
(***************************************************************************)
ASSUME InstructionsAssumption ==
  \A p \in InstructionPrograms :
    /\ p.kind \in { "rvv", "xtheadvector", "scalar" }
    /\ p.processor \in Cells!Processors /\ p.processor.elenFp =< p.processor.elen
    /\ \A j \in DOMAIN p.benchmarks :
         LET f == p.benchmarks[j]
         IN  /\ f.type \in Cells!Types(p.kind) /\ f.lacks \subseteq 0 .. 6
             /\ f.lacks # {} => f.type = "T_A"
             /\ p.processor.elen = 32 =>
                  f.type \notin { "T_W", "T_WR", "T_N", "T_64", "T_SHA" }

\* config.h: "minimum of 4096"
ASSUME MemoriesAssumption ==
  Memories \subseteq [kind : { "layout" }, alloc : { "malloc", "static", "vlm" },
                      max : { M \in Nat : M >= 4096 }, growth : Nat \ {0}]
ASSUME AddressesAssumption ==
  0 \in Addresses /\ Addresses \subseteq 0 .. 4095 /\ Displacements \subseteq Nat

-----------------------------------------------------------------------------
(* Properties: those of the levels.                                        *)

\* Every variable of the level holds what the code can put there.
TypeOK == CASE level = "bench_run"  -> Run!TypeOK
            [] level = "bench_time" -> Run!TimeTypeOK
            [] level = "fixed"      -> Fixed!FixedTypeOK
            [] level = "instructions" -> Cells!TypeOK
            [] level = "layout"     -> Cut!LayoutTypeOK

\* bench_run: kernels are compared on equal inputs, and detectable errors
\* are detected (BenchRun).
ComparisonExact == level = "bench_run" => Run!ComparisonExact

\* bench_time: the samples used are its own, and enough, and a fifth of
\* outliers does not change the mean (BenchRun).
SamplesSound == level = "bench_time" => Run!EnoughSamples /\ Run!OutliersDropped

\* main and the bench functions: every buffer lies in the block, and none
\* that is written in one that is read (Layout).
BuffersInside == level = "layout" => Cut!BuffersInside

\* bench_run: a program that has found a kernel wrong fails (BenchRun).
ErrorIsFailure == level = "bench_run" => Run!ErrorIsFailure

Output(p) == IF p = << >> THEN << >>
             ELSE IF p.kind \in Run!Kinds THEN Run!TableOf(p)
             ELSE IF p.kind \in { "fixed", "i8i32" } THEN Fixed!Lines(p)
             ELSE IF p.kind = "layout" THEN << >>
             ELSE Cells!Table(p)

Abstract == INSTANCE InOrderOutput
  WITH Result <- Output, input <- program, returned <- pc = "done"

(***************************************************************************)
(* bench_run prints a measurement of every kernel at every size, in order, *)
(* stops with an error at the first kernel that is found wrong, and        *)
(* returns; bench_time prints nothing and returns.  The programs of        *)
(* FixedBench print for every kernel, in order, its own result and the     *)
(* right verdict on it, whatever the kernels before it left in c, and end. *)
(* Those of Instructions print, for every mode and instruction, a cell for *)
(* each width and multiplier, measured where the instruction has them and  *)
(* with a loop whose registers hold its operands.                          *)
(***************************************************************************)
ImplementsInOrderOutput == Abstract!Spec
=============================================================================
