----------------------------- MODULE MCHarness -----------------------------
(* bench_run for programs of each kind with two benchmarks, unaligned and  *)
(* aligned, and of the reference and two other kernels; two sizes; a guard *)
(* of one byte.  bench_time with at most 7 samples of three values, of     *)
(* which a fifth is cut off at either end, and with stops between the      *)
(* least number of samples and the most; and with two samples, as in       *)
(* .github/workflows/bench-config.h, which are not trimmed.  The           *)
(* programs of FixedBench with two kernels and results of two elements.    *)
(* Each type of instruction, on processors with all extensions, with the   *)
(* least, and with elements of 32 bits.  The memory of config.h and of     *)
(* .github/workflows/bench-config.h, the least that is allowed, and that   *)
(* of nuclei_baremetal/config.h.                                           *)
EXTENDS Harness

MCSizes == << 1, 4 >>
Kernel(skip, wrong, over) == [skip |-> skip, wrong |-> wrong, over |-> over]
Right  == Kernel(FALSE, {}, FALSE)
Tested == { Right, Kernel(FALSE, {4}, FALSE), Kernel(FALSE, {}, TRUE),
            Kernel(TRUE, {1, 4}, FALSE), Kernel(TRUE, {}, TRUE) }
MCPrograms == { [kind |-> kd, aligned |-> << FALSE, TRUE >>,
                 impls |-> << Right, f, g >>] :
                   kd \in { "copy", "fresh", "patch" }, f, g \in Tested }
MCGuard      == 1
MCMaxRepeats == 2
MCVariants   == { "hosted", "baremetal" }
MCHosted     == { "hosted" }
MCNone       == {}

MCFixedPrograms ==
  [kind : { "fixed", "i8i32" }, simulation : BOOLEAN,
   impls : [1 .. 2 -> [1 .. 2 -> { "same", "near", "far", "nan", "nothing" }]]]

MCLoops(k, t, proc) ==
  { [kind |-> k, processor |-> p, benchmarks |-> << [type |-> u, lacks |-> {}] >>] :
      u \in t, p \in proc }
MCProcessor(e, f, h, a, n) ==
  [elen |-> e, elenFp |-> f, zvfh |-> h, zvknha |-> a, zvknhb |-> n]
MCFull  == MCProcessor(64, 64, TRUE, TRUE, TRUE)
MCPlain == MCProcessor(64, 64, FALSE, TRUE, FALSE)
MCSmall == { MCProcessor(32, 32, h, FALSE, FALSE) : h \in BOOLEAN }
MCMoves == << [type |-> "T_A", lacks |-> 0 .. 4], [type |-> "T_m1", lacks |-> {}] >>
MCInstructionPrograms ==
  MCLoops("rvv", Cells!Types("rvv"), { MCFull, MCPlain })
  \cup MCLoops("rvv", Cells!Types("rvv") \ { "T_W", "T_WR", "T_N", "T_64", "T_SHA" }, MCSmall)
  \cup MCLoops("xtheadvector", Cells!Types("xtheadvector"), { MCFull })
  \cup MCLoops("scalar", { "none" }, { MCFull })
  \cup { [kind |-> "rvv", processor |-> MCFull, benchmarks |-> MCMoves] }

MCMemory(a, M, g) == [kind |-> "layout", alloc |-> a, max |-> M, growth |-> g]
MCMemories == { MCMemory("malloc", 1048576, 7), MCMemory("malloc", 4096, 7),
                MCMemory("static", 32768, 3), MCMemory("vlm", 1048576, 1) }
MCAddresses     == { 0, 1, 16, 4080, 4095 }
MCDisplacements == { 0, 510, 511 }

MCTimes      == { 1, 2, 9 }
MCStale      == 0
MCStopCycles == 12
MCConfigs    == { << 4, 7, "hosted" >>, << 4, 7, "baremetal" >>,
                  << 2, 2, "hosted" >>, << 2, 2, "baremetal" >> }
=============================================================================
