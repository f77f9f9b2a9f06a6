----------------------------- MODULE BenchRun -----------------------------
(***************************************************************************)
(* bench_run (bench/bench.h and nuclei_baremetal/bench.h) with what it     *)
(* relies on in a benchmark: the bench function, which prepares the input  *)
(* from the random state and calls a kernel, and checksum.                 *)
(*                                                                         *)
(* The k-th random number is k: all that counts is that it is the same     *)
(* when the random state is.  A checksum is what it is computed from       *)
(* (there are no collisions), and of the output only the measurements and  *)
(* the error are kept.                                                     *)
(*                                                                         *)
(* bench_time, which bench_run calls for every kernel and size, is looked  *)
(* at from two sides: in bench_run it is some repetitions, and one call of *)
(* it, with the times they take, is the second part of this module.        *)
(***************************************************************************)
EXTENDS Integers, Sequences, FiniteSets

CONSTANTS
  Programs,    \* benches: is each aligned?; impls: the kernels; kind: below
  Sizes,       \* the n of the loops, in order
  Guard,       \* bytes behind the result that checksum includes (9)
  MaxRepeats,
  Variants,    \* "hosted": bench/bench.h, "baremetal": nuclei_baremetal/bench.h
  Times,       \* what a measurement can return
  Stale,       \* what an earlier call has left
  StopCycles,
  Configs      \* the << MIN_REPEATS, MAX_REPEATS, variant >>

(***************************************************************************)
(* Kinds of benchmark:                                                     *)
(*   copy   reads input that no call changes, at a random offset, and      *)
(*          writes a result that was cleared before (memcpy, memreverse)   *)
(*   fresh  draws all of its input and replaces it by the result (LUT4,    *)
(*          byteswap)                                                      *)
(*   patch  changes some of the input and returns the result (poly1305)    *)
(*                                                                         *)
(* A kernel is wrong for the sizes in "wrong", and writes one byte more    *)
(* than it should if "over".                                               *)
(***************************************************************************)
Kinds   == { "copy", "fresh", "patch" }
Kernels == [skip : BOOLEAN, wrong : SUBSET { Sizes[s] : s \in DOMAIN Sizes },
            over : BOOLEAN]

VARIABLES
  variant, program,
  rand,        \* randState: how many numbers have been drawn
  mem, last,   \* what kernels write, and what they return
  pc, b, i, s, \* places in the loops: bench, kernel, size
  seed, si, s0,
  repeats,
  out,
  status,      \* what main returns or exit is called with
  config, arr, total, sum, count   \* of bench_time

vars == << variant, program, rand, mem, last, pc, b, i, s, seed, si, s0,
           repeats, out, status >>

n    == Sizes[s]
impl == program.impls[i]
MaxN == CHOOSE m \in { Sizes[k] : k \in DOMAIN Sizes } :
          \A k \in DOMAIN Sizes : Sizes[k] =< m
Cells == 0 .. MaxN + Guard - 1

Random(k) == << "random", k >>
Error     == << >>                 \* in the place of a measurement

Init ==
  /\ variant \in Variants /\ program \in Programs
  /\ rand = 0
  /\ mem = [c \in Cells |-> << "start", c >>] /\ last = << >>
  /\ pc = "bench" /\ b = 1 /\ i = 1 /\ s = 1
  /\ seed = 0 /\ si = << >> /\ s0 = << >>
  /\ repeats = 0
  /\ out = << >> /\ status = "running"

-----------------------------------------------------------------------------
(* A call of the bench function.                                           *)

Draws == CASE program.kind = "copy"  -> IF program.aligned[b] THEN 0 ELSE 2
           [] program.kind = "fresh" -> n
           [] program.kind = "patch" -> 2

\* mem when the kernel is called, with the random state r
Prepared(r) ==
  CASE program.kind = "copy"  ->
         [c \in Cells |-> IF c < n + Guard THEN << "clear" >> ELSE mem[c]]
    [] program.kind = "fresh" ->
         [c \in Cells |-> IF c < n THEN Random(r + c) ELSE mem[c]]
    [] program.kind = "patch" -> [mem EXCEPT ![r % n] = Random(r + 1)]

\* what the kernel computes from for byte c of its result
Operand(r, c) ==
  IF program.kind = "copy" THEN << "source", IF Draws = 0 THEN 0 ELSE r, c >>
                           ELSE Prepared(r)[c]

Made(f, r, c) ==
  IF c < n THEN << "made", n \in f.wrong, Operand(r, c) >> ELSE << "beyond" >>

Written(f) == 0 .. n - 1 + (IF f.over THEN 1 ELSE 0)

\* kernel f is run, from random state r on
Call(f, r) ==
  /\ rand' = r + Draws
  /\ IF program.kind = "patch"
       THEN /\ mem' = Prepared(r)
            /\ last' = [c \in 0 .. n - 1 |-> Made(f, r, c)]
       ELSE /\ mem' = [c \in Cells |-> IF c \in Written(f) THEN Made(f, r, c)
                                                           ELSE Prepared(r)[c]]
            /\ UNCHANGED last

\* of what the call has left
Checksum ==
  CASE program.kind = "copy"  -> [c \in 0 .. n + Guard - 1 |-> mem'[c]]
    [] program.kind = "fresh" -> [c \in 0 .. n - 1 |-> mem'[c]]
    [] program.kind = "patch" -> last'

-----------------------------------------------------------------------------
StartBench ==
  /\ pc = "bench" /\ b =< Len(program.aligned)
  /\ i' = 1 /\ s' = 1 /\ pc' = "cell"
  /\ UNCHANGED << variant, program, rand, mem, last, b, seed, si, s0, repeats,
                  out, status >>

NextBench ==
  /\ pc = "cell" /\ i > Len(program.impls)
  /\ b' = b + 1 /\ pc' = "bench"
  /\ UNCHANGED << variant, program, rand, mem, last, i, s, seed, si, s0,
                  repeats, out, status >>

NextRow ==
  /\ pc = "cell" /\ i =< Len(program.impls) /\ s > Len(Sizes)
  /\ i' = i + 1 /\ s' = 1
  /\ UNCHANGED << variant, program, rand, mem, last, pc, b, seed, si, s0,
                  repeats, out, status >>

Compared == i # 1 /\ ~impl.skip

AtCell == pc = "cell" /\ i =< Len(program.impls) /\ s =< Len(Sizes)

Skip ==
  /\ AtCell /\ ~Compared
  /\ pc' = "time" /\ repeats' = 0
  /\ UNCHANGED << variant, program, rand, mem, last, b, i, s, seed, si, s0,
                  out, status >>

RunKernel ==
  /\ AtCell /\ Compared
  /\ seed' = rand
  /\ Call(impl, rand)
  /\ si' = Checksum
  /\ pc' = "reference"
  /\ UNCHANGED << variant, program, b, i, s, s0, repeats, out, status >>

\* mutant: randState is not put back
NotRestored == rand

Restored == seed

RunReference ==
  /\ pc = "reference"
  /\ Call(program.impls[1], Restored)
  /\ s0' = Checksum
  /\ pc' = "compare"
  /\ UNCHANGED << variant, program, b, i, s, seed, si, repeats, out, status >>

Agree ==
  /\ pc = "compare" /\ si = s0
  /\ pc' = "time" /\ repeats' = 0
  /\ UNCHANGED << variant, program, rand, mem, last, b, i, s, seed, si, s0,
                  out, status >>

\* bench_run returns to main, which returns 0; on bare metal it exits
Differ ==
  /\ pc = "compare" /\ si # s0
  /\ out' = Append(out, Error)
  /\ status' = IF variant = "hosted" THEN "success" ELSE "failure"
  /\ pc' = "done"
  /\ UNCHANGED << variant, program, rand, mem, last, b, i, s, seed, si, s0,
                  repeats >>

\* mutant: one repetition too many
MoreRepeatsOne == repeats =< MaxRepeats

MoreRepeats == repeats < MaxRepeats

\* a repetition of bench_time, which stops when enough time has passed
Measure ==
  /\ pc = "time" /\ MoreRepeats
  /\ Call(impl, rand)
  /\ repeats' = repeats + 1
  /\ UNCHANGED << variant, program, pc, b, i, s, seed, si, s0, out, status >>

Report ==
  /\ pc = "time" /\ repeats > 0
  /\ out' = Append(out, << b, i, s >>)
  /\ s' = s + 1 /\ pc' = "cell"
  /\ UNCHANGED << variant, program, rand, mem, last, b, i, seed, si, s0,
                  repeats, status >>

Finish ==
  /\ pc = "bench" /\ b > Len(program.aligned)
  /\ pc' = "done" /\ status' = "success"
  /\ UNCHANGED << variant, program, rand, mem, last, b, i, s, seed, si, s0,
                  repeats, out >>

Terminating == pc = "done" /\ UNCHANGED vars

Next ==
  \/ StartBench \/ NextBench \/ NextRow
  \/ Skip \/ RunKernel \/ RunReference \/ Agree \/ Differ
  \/ Measure \/ Report
  \/ Finish \/ Terminating

-----------------------------------------------------------------------------
(***************************************************************************)
(* bench_time: repeat a measurement, and take the mean of the samples that *)
(* are left when the fifth at either end is cut off.                       *)
(*                                                                         *)
(* A sample is the time the bench function returned.  The array of samples *)
(* is static: it starts with those of an earlier call.  The bounds of the  *)
(* last loop are products with 0.2f and 0.8f in the code; for up to 64     *)
(* samples they are the integers below.                                    *)
(***************************************************************************)
tvars == << config, pc, arr, total, repeats, i, sum, count >>

MIN_REPEATS == config[1]
MAX_REPEATS == config[2]
Trims       == MAX_REPEATS > 4      \* decided when it is compiled

TimeInit ==
  /\ config \in Configs
  /\ pc = "sample"
  /\ arr = [k \in 0 .. MAX_REPEATS - 1 |-> Stale]
  /\ total = 0 /\ repeats = 0
  /\ i = 0 /\ sum = 0 /\ count = 0

-----------------------------------------------------------------------------
\* bench/bench.h breaks before the loop increments repeats
RepeatsOnStop == IF config[3] = "hosted" THEN repeats ELSE repeats + 1

\* mutant: total alone decides
EnoughTime(t) == total + t > StopCycles

EnoughAfter(t) == repeats > MIN_REPEATS /\ total + t > StopCycles

MoreSamples == repeats < MAX_REPEATS

Sample ==
  /\ pc = "sample" /\ MoreSamples
  /\ \E t \in Times :
       /\ arr' = [arr EXCEPT ![repeats] = t]
       /\ total' = total + t
       /\ IF EnoughAfter(t)
            THEN repeats' = RepeatsOnStop /\ pc' = "sort"
            ELSE repeats' = repeats + 1 /\ UNCHANGED pc
  /\ UNCHANGED << config, i, sum, count >>

AllSampled ==
  /\ pc = "sample" /\ ~MoreSamples
  /\ pc' = "sort"
  /\ UNCHANGED << config, arr, total, repeats, i, sum, count >>

\* mutant: the samples are left in the order of the measurements
InOrder == arr

\* what qsort makes of the samples (module Sorting): behind k others is one
\* that fewer are less than and more are not greater than
Sorted ==
  LET used == { arr[j] : j \in 0 .. repeats - 1 }
      Less(v) == { j \in 0 .. repeats - 1 : arr[j] < v }
      AtMost(v) == { j \in 0 .. repeats - 1 : arr[j] =< v }
  IN  [k \in DOMAIN arr |->
         IF k < repeats
           THEN CHOOSE v \in used : Cardinality(Less(v)) =< k /\ k < Cardinality(AtMost(v))
           ELSE arr[k]]

First == IF Trims THEN repeats \div 5 ELSE 0
End   == IF Trims THEN (4 * repeats + 4) \div 5 ELSE repeats

Sort ==
  /\ pc = "sort"
  /\ arr' = IF Trims THEN Sorted ELSE arr
  /\ i' = First
  /\ pc' = "sum"
  /\ UNCHANGED << config, total, repeats, sum, count >>

Sum ==
  /\ pc = "sum" /\ i < End
  /\ sum' = sum + arr[i]
  /\ count' = count + 1
  /\ i' = i + 1
  /\ UNCHANGED << config, pc, arr, total, repeats >>

\* the mean sum / count is returned as a rate
Return ==
  /\ pc = "sum" /\ i >= End
  /\ pc' = "done"
  /\ UNCHANGED << config, arr, total, repeats, i, sum, count >>

TimeTerminating == pc = "done" /\ UNCHANGED tvars

TimeNext == Sample \/ AllSampled \/ Sort \/ Sum \/ Return \/ TimeTerminating

-----------------------------------------------------------------------------
(* Properties of bench_run.                                                *)

\* Every variable holds what the code can put there.
TypeOK ==
  /\ variant \in Variants /\ program \in Programs
  /\ rand \in Nat /\ seed \in 0 .. rand
  /\ DOMAIN mem = Cells
  /\ pc \in { "bench", "cell", "reference", "compare", "time", "done" }
  /\ b \in 1 .. Len(program.aligned) + 1
  /\ i \in 1 .. Len(program.impls) + 1
  /\ s \in 1 .. Len(Sizes) + 1
  /\ repeats \in 0 .. MaxRepeats
  /\ status \in { "running", "success", "failure" }
  /\ (status = "running") = (pc # "done")
  /\ Len(out) =< Len(program.aligned) * Len(program.impls) * Len(Sizes)

\* Can checksum tell the result of kernel f at size m from the right one?
Detectable(kind, f, m) == m \in f.wrong \/ (f.over /\ kind = "copy")

(***************************************************************************)
(* The comparison is exact: whatever earlier calls left in memory and in   *)
(* the random state, the checksums of a kernel and of the reference differ *)
(* if the kernel is wrong for this size, or wrote over the end of a copy,  *)
(* and they agree if it is right.                                          *)
(***************************************************************************)
ComparisonExact == pc = "compare" => ((si # s0) = Detectable(program.kind, impl, n))

(***************************************************************************)
(* The table a program has to print, up to the first measurement that a    *)
(* detectable error forbids.                                               *)
(***************************************************************************)
TableOf(p) ==
  LET I == Len(p.impls)
      S == Len(Sizes)
      Cell(k) == << k \div (I * S) + 1, ((k \div S) % I) + 1, (k % S) + 1 >>
      Entries == 0 .. Len(p.aligned) * I * S - 1
      Bad(k) == LET f == p.impls[Cell(k)[2]]
                IN  ~f.skip /\ Detectable(p.kind, f, Sizes[Cell(k)[3]])
      Upto(k) == [j \in 1 .. k |-> Cell(j - 1)]
  IN  IF \E k \in Entries : Bad(k)
        THEN LET first == CHOOSE k \in Entries :
                            Bad(k) /\ \A j \in 0 .. k - 1 : ~Bad(j)
             IN  Append(Upto(first), Error)
        ELSE Upto(Len(p.aligned) * I * S)

(***************************************************************************)
(* bench/Makefile:39 runs each program with || { printf FAILED; exit 1; }: *)
(* a program that finds a kernel wrong has to fail.                        *)
(***************************************************************************)
ErrorIsFailure ==
  pc = "done" /\ out # << >> /\ out[Len(out)] = Error => status = "failure"

-----------------------------------------------------------------------------
(* Properties of bench_time.                                               *)

\* Every variable holds what the code can put there.
TimeTypeOK ==
  /\ config \in Configs
  /\ pc \in { "sample", "sort", "sum", "done" }
  /\ arr \in [0 .. MAX_REPEATS - 1 -> Times \cup {Stale}]
  /\ total \in Nat /\ repeats \in 0 .. MAX_REPEATS
  /\ i \in 0 .. MAX_REPEATS /\ sum \in Nat /\ count \in 0 .. repeats

SamplesInUse == 0 .. repeats - 1

(***************************************************************************)
(* The samples that are used are measurements of this call, never what the *)
(* array held before; there are more of them than MIN_REPEATS              *)
(* (bench/config.h:6, "minimum number of repeats, to sample median from"), *)
(* or all MAX_REPEATS.                                                     *)
(***************************************************************************)
EnoughSamples ==
  pc # "sample" =>
    /\ \A k \in SamplesInUse : arr[k] \in Times
    /\ repeats > MIN_REPEATS \/ repeats = MAX_REPEATS

(***************************************************************************)
(* A few outliers do not change the result: there is a mean, and if all    *)
(* samples in use but a fifth of them have the same value, it is the mean. *)
(***************************************************************************)
OutliersDropped ==
  pc = "done" =>
    /\ count > 0
    /\ Trims => \A v \in Times :
                  Cardinality({ k \in SamplesInUse : arr[k] # v })
                    =< repeats \div 5
                  => sum = count * v
=============================================================================
