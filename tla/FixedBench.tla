----------------------------- MODULE FixedBench -----------------------------
(***************************************************************************)
(* The programs that run each matrix kernel once: nuclei_baremetal/fixed,  *)
(* which compares its result with that of _sgemm_rvv, and i8i32, which     *)
(* prints a checksum only.                                                 *)
(*                                                                         *)
(* A matrix has a few elements; of an element counts how far it is from    *)
(* the reference.  The checksum is what it is computed from.               *)
(***************************************************************************)
EXTENDS Integers, Sequences

(***************************************************************************)
(* A program: kind is "fixed" or "i8i32"; impls are the kernels, each with *)
(* what it writes to the elements of c: "same", "near", "far", "nan", or   *)
(* "nothing", as a kernel does that turns the shape down; simulation says  *)
(* whether CFG_SIMULATION is defined.                                      *)
(***************************************************************************)
VARIABLES
  program,
  pc, i,
  c,        \* the elements of the result
  x,        \* the next element to compare
  max, pass,
  failed,
  lines     \* what is printed, and returned

fvars == << program, pc, i, c, x, max, pass, failed, lines >>

Elements == DOMAIN program.impls[1]
Compares == program.kind = "fixed"

\* the reference is computed before the first round
FixedInit ==
  /\ pc = "measure" /\ i = 1
  /\ c = [e \in Elements |-> "zero"]
  /\ x = 0 /\ max = 0 /\ pass = TRUE
  /\ failed = FALSE
  /\ lines = << >>

\* mutant: c is not cleared before the kernel is called
NotCleared == c

\* memset
Cleared == [e \in Elements |-> "zero"]

Measure ==
  /\ pc = "measure" /\ i =< Len(program.impls)
  /\ c' = [e \in Elements |-> IF program.impls[i][e] = "nothing"
                                THEN Cleared[e] ELSE program.impls[i][e]]
  /\ pc' = IF Compares THEN "compare" ELSE "report"
  /\ x' = 1 /\ max' = 0 /\ pass' = TRUE
  /\ UNCHANGED << program, i, failed, lines >>

\* the absolute value of actual[x] - reference[x]; the tolerance is 1
Distance(v) == CASE v = "same" -> 0 [] v = "near" -> 1 [] v \in { "far", "zero" } -> 2

\* one element of compare_f32_tolerance
CompareElement ==
  /\ pc = "compare" /\ x =< Len(c) /\ c[x] # "nan"
  /\ max' = IF Distance(c[x]) > max THEN Distance(c[x]) ELSE max
  /\ pass' = (pass /\ Distance(c[x]) =< 1)
  /\ x' = x + 1
  /\ UNCHANGED << program, pc, i, c, failed, lines >>

NotANumber == 3

\* a difference that is no number is the result, and a failure
CompareNan ==
  /\ pc = "compare" /\ x =< Len(c) /\ c[x] = "nan"
  /\ max' = NotANumber /\ pass' = FALSE
  /\ pc' = "report"
  /\ UNCHANGED << program, i, c, x, failed, lines >>

Compared ==
  /\ pc = "compare" /\ x > Len(c)
  /\ pc' = "report"
  /\ UNCHANGED << program, i, c, x, max, pass, failed, lines >>

Report ==
  /\ pc = "report"
  /\ lines' = Append(lines, IF Compares THEN << i, c, pass, max >> ELSE << i, c >>)
  /\ failed' = (failed \/ ~pass)
  /\ i' = i + 1
  /\ pc' = "measure"
  /\ UNCHANGED << program, c, x, max, pass >>

\* what main returns
Exit == IF failed THEN "failure" ELSE "success"

Return ==
  /\ pc = "measure" /\ i > Len(program.impls) /\ program.simulation
  /\ lines' = Append(lines, << Exit >>)
  /\ pc' = "done"
  /\ UNCHANGED << program, i, c, x, max, pass, failed >>

\* finish_test never returns
FinishTest ==
  /\ pc = "measure" /\ i > Len(program.impls) /\ ~program.simulation
  /\ pc' = "done"
  /\ UNCHANGED << program, i, c, x, max, pass, failed, lines >>

FixedNext ==
  \/ Measure \/ CompareElement \/ CompareNan \/ Compared \/ Report
  \/ Return \/ FinishTest
  \/ pc = "done" /\ UNCHANGED fvars

-----------------------------------------------------------------------------
(* What the program has to print: each kernel's own result, judged as a    *)
(* whole, and in a simulation whether one of them failed.                  *)

ResultOf(f) == [e \in DOMAIN f |-> IF f[e] = "nothing" THEN "zero" ELSE f[e]]
Passes(f)   == \A e \in DOMAIN f : f[e] \in { "same", "near" }
MaxError(f) == IF \E e \in DOMAIN f : f[e] = "nan" THEN NotANumber
               ELSE CHOOSE d \in 0 .. 2 :
                      /\ \E e \in DOMAIN f : Distance(ResultOf(f)[e]) = d
                      /\ \A e \in DOMAIN f : Distance(ResultOf(f)[e]) =< d

Lines(p) ==
  LET line(j) == IF p.kind = "fixed"
                   THEN << j, ResultOf(p.impls[j]), Passes(p.impls[j]),
                           MaxError(p.impls[j]) >>
                   ELSE << j, ResultOf(p.impls[j]) >>
      good == p.kind = "fixed" => \A j \in DOMAIN p.impls : Passes(p.impls[j])
  IN  [j \in DOMAIN p.impls |-> line(j)]
        \o (IF p.simulation THEN << << IF good THEN "success" ELSE "failure" >> >>
                            ELSE << >>)

\* Every variable holds what the code can put there.
FixedTypeOK ==
  /\ pc \in { "measure", "compare", "report", "done" }
  /\ i \in 1 .. Len(program.impls) + 1
  /\ DOMAIN c = Elements /\ x \in 0 .. Len(c) + 1
  /\ max \in 0 .. NotANumber /\ pass \in BOOLEAN /\ failed \in BOOLEAN
=============================================================================
