# Verification of rvv-bench

TLA+ models of the programs in this repository, checked with TLC, and theorems about them, checked
with TLAPS. `PROJECT.json` lists the runs, the source lines every definition stands for, the hazards
the properties are for, and for each property mutations of the code under which it fails.

## 1. The system

rvv-bench is a set of benchmark programs for processors with the RISC-V vector extension. Every
program is one thread of execution: nothing runs concurrently, nothing is persistent, nothing is sent.
What makes the code hard is something else:

- **The vector length is the processor's choice.** `vsetvli` may answer anything between ceil(AVL/2)
  and VLMAX when between one and two register groups are left, so one program has many executions. CI
  runs a few of them (qemu with VLEN 128 to 1024), which all choose the same way.
- **Kernels overlap their own steps.** They update a text in place, gather and scatter lanes that may
  meet, prefetch the next tile into a register that may still be in use, store bytes twice, read
  beyond what they convert and step back over what they have written.
- **The comparison the harness makes is weak in places**: a checksum per call, for random inputs, left
  out for some kernels, and for one program without effect.

### Components

| component | state | operations | how it interacts | hard behaviour | correct when |
|---|---|---|---|---|---|
| memcpy, memset (`bench/memcpy.*`, `memset.*`) | pointers, bytes left, vl | seven and five vector kernels; musl and scalar versions | called by the harness, which hashes the destination and 9 bytes more | lengths at which vsetvli has a choice; 0; alignment; equal chunks and a tail; overlapping stores | exactly the n bytes are written, in range |
| mergelines (`bench/mergelines.*`) | one text in place, src, dest, the byte before src | vslide, vslide_skip, mshift, mshift_skip | returned length compared with that of the scalar version | pairs across chunks; bytes read again after a store | the result is the scalar version's |
| hist (`bench/hist.*`) | counters, per lane or not | slidedown, no_conflict, dup m1/m2/m4 | compared by a checksum | lanes in the same bin; reduction in place | each element is counted once |
| strlen, utf8_count, memreverse | pointers, vl, count | fault-only-first, page aligned; eight counting loops; five ways to reverse | as memcpy | a load cut short; reading beyond the end; full groups only | the result is the scalar version's |
| LUT4, LUT6, byteswap, ascii_to_utf16/32 | pointers, vl | gathers, indexed loads, segment and strided stores | as memcpy | remainders, tables in more than one register | the same |
| base64 (`bench/base64_encode.*`) | pointers, length | chunks of three registers to four, the rest by scalar code | as memcpy; calls b64_encode_scalar | reads beyond the chunk; five cases of register size | the same |
| 8x8 transposes (`bench/trans8x8*`) | elements left, registers | from memory in two layouts, by slides, gathers, segments | as memcpy | partly filled registers, index vectors | the same |
| mandelbrot, chacha20, poly1305 | pointers, vl, block counters | float iteration; blocks of a cipher | third-party code behind a wrapper | partial blocks, counter | the same |
| UTF transcoders (`vector-utf/`) | src, dest, n, tail | utf8 to 16/32, utf16 to 8; five scalar ones | the vector ones call the scalar ones; tests compare | lookahead, backtracking, surrogates | accepts what Unicode calls well-formed, with its output |
| harness (`bench/bench.h`, `nuclei_baremetal/bench.h`) | random state, samples, `mem` | main, bench_run, bench_time | calls kernels and checksum | equal inputs for the two kernels; early exit; all buffers in one block | a difference is reported, times are those of the samples, buffers lie in the block |
| runtime (`nolibc.h`) | print buffer | qsort, print, conversions, memrand | used by everything | full buffer, pivot that moves, edges of integers | as the C library |
| sgemm on tiles (`nuclei_baremetal/common/sgemm_vme*.c`, `zvt_encoding.h`, `test/`) | two tile registers for A, two for C, loop indices | one kernel, twice; the words of the instructions; a test of the machine | compared with sgemm_rvv by `fixed/main.c` | double buffering | C + A*B, or C untouched |
| sgemm and i8i32gemm on vectors | row pointers, vl | 4-, 2-, 1-row blocks | reference of the tile kernel | remainders | A*B |
| fixed-size programs (`fixed/`, `i8i32/`) | the result matrix, the verdict | run each kernel once and judge it | call the gemm kernels | what a kernel that refuses leaves behind | each kernel is judged by its own result |
| instruction benchmarks (`instructions/`) | mode, width, multiplier | select type and loop, run | generated loops | masks of forms; index into a table of loops | each form an instruction has is run, and no other |

Left out: build files, CI, link script, generated loops, single measurements (section 6).

## 2. The modules

| module | models | abstract specification |
|---|---|---|
| `Vsetvl` | the answers `vsetvli` may give (`LegalVl`), `remu` | - |
| `Memcpy`, `MemcpyProofs` | the vector kernels of `bench/memcpy.S` | `BlockCopy` |
| `TextKernels`, `TextProofs` | composes `Mergelines` and `Transcoders` | `InOrderOutput` |
| `Mergelines` | the kernels of `bench/mergelines.S` | through `TextKernels` |
| `UtfScalar`, `Transcoders` | the standard's definition and `vector-utf/scalar.h`; `8toN_gather.c` and `16to8_gather.c` | through `TextKernels` |
| `MatrixKernels`, `MatrixProofs` | composes the four below | `Gemm` |
| `SgemmVme` | `_sgemm_vme` and `_sgemm_vme_asm` | through `MatrixKernels` |
| `SgemmRvv` | `_sgemm_rvv`, `_i8i32gemm_rvv` and the scalar versions | through `MatrixKernels` |
| `TileTest` | `zvt_encoding.h` and `nuclei_baremetal/test/main.c` | - |
| `Transposes` | `bench/trans8x8.S.inc`, `trans8x8e8.*`, `trans8x8e16.*` | - |
| `Qsort`, `QsortProofs` | `qsort` of `nolibc.h` | `Sorting` |
| `PrintBuffer`, `PrintBufferProofs` | `print_flush`, `print_raw`, `print_u/h/b/fn` of `nolibc.h` and the flush at exit | `InOrderOutput` |
| `Harness`, `HarnessProofs` | composes the four below | `InOrderOutput` |
| `BenchRun` | `bench_run` and `bench_time` of both `bench.h`, with a benchmark's function and `checksum` | `bench_run` through `Harness` |
| `Layout` | `main`, and every benchmark's buffers in `mem` | - |
| `FixedBench` | `nuclei_baremetal/fixed/main.c`, `tolerance.h`, `i8i32/main.c` | through `Harness` |
| `Instructions` | the three programs of `instructions/` | through `Harness` |
| `Routines`, `RoutinesProofs` | composes the eight below | |
| `Strips` | the loops of `memset.S`, `utf8_count.S`, the loop over words of `utf8_count.c`, `memrand` | `EachOnce` |
| `Musl` | `memset_musl`, `memcpy_musl` | - |
| `Memreverse`, `Strlen` | the kernels of `memreverse.*`, `strlen.*` | - |
| `Numbers` | `usqrt`, `uxtoa`, `ftoa` of `nolibc.h` | - |
| `Tables` | LUT4, LUT6, byteswap32, ascii_to_utf16, ascii_to_utf32 | - |
| `Base64` | the base64 kernels | - |
| `Hist` | the kernels of `bench/hist.S` | `Histogram` |
| `Division` | lemmas about quotients and remainders, and the induction, that the proofs share | - |

Components of which only one runs at a time share the variables of the module that composes them, as
they would share registers; what a component does not use keeps its value. `MCxxx` instantiates `xxx`
for TLC (`Memcpy` and `Qsort` are run as they are). The abstract specifications know nothing of
vectors: they say what a caller may rely on. The kernels' modules import them with `INSTANCE ... WITH`
and check `Abstract!Spec`, which includes that the call returns.

**Memcpy.** One `CopyChunk` step is the load, the pointer updates and the store of one round.
`vl` is chosen from `LegalVl` where the code executes `vsetvli`. Source byte i is the number i, so
`dest` says which byte went where, and bytes beyond `len` exist so that an overrun would show. The
kernels share actions where their code is the same and differ in the entry actions and in
`MoreBlocks`/`MoreToCopy`, the branches back. The addresses count modulo VLMAX, all the code looks at.

**Mergelines.** One memory, `mem`, is read and written, as in the code; `text` remembers the input.
`last` is assigned from the memory after the store, since `lbu -1(src)` comes after `vse8`. The masks
are the sets of lanes they select. `ScalarMerge` is `mergelines_scalar`.

**UtfScalar, Transcoders.** A text is defined by encoding: units are a character if they are what
encoding some character gives. The code decodes and compares ranges, so the two can disagree. A step of
`UtfScalar` is one round of a loop: a block of ASCII or a character. The utf8 kernels keep the order of the
code in a chunk: the three table lookups, whose error bits are the sets `Err1`, `Err2`, `Err3`, the
ASCII and the two-byte path, and at the end the steps back over continuation bytes and over what was
written for them, after which `UtfScalar` continues. `BeforeOutput` is the word before the output
buffer, which the code reads. The utf16 kernel converts up to the first surrogate and then pairs.

**SgemmVme.** The unit of length is the four rows or columns that one pass of the k loop handles, and T
units (8 in the code) are a tile. An element of A or B is its index pair, a row of a C tile is where it
came from and the sequence of products added to it: the model tells apart a wrong operand, a product
counted twice or left out, and a wrong order. The order of one pass - multiply, store the rows
of the previous C tile, prefetch - is kept as steps. `machine` is what `vsetvli` and `msettn` grant.

**SgemmRvv.** The offsets `pin`, `po`, `col` are those of the code, so that a product takes whatever
element an offset hits. A sum is the sequence of products in it, in the order the code adds them, which is that of `Gemm`.

**TileTest.** A word is the tuple of its fields. `Instructions` are all that the header can spell, by
macro or by function; the test program emits words, and the machine does what the word means, not what
the program meant. A machine may grant less than it is asked for.

**Transposes.** The butterfly is the pair of operands it was given, so that an element of the result says
which elements it was made of. `zbb` is whether the program was compiled with that extension, because
the code that stands in for `ctz` differs.

**Strips.** The loops of memset and utf8_count differ in what they do with a chunk, not in how they cut
the bytes, so one module has all the ways of cutting. A processor is a function `grant` from the
question to the answer of `vsetvli`, any that the V extension allows: it is chosen once, so that equal
questions have equal answers, which `memset_rvv_tail_4x_` relies on. In `Memcpy` each `vsetvli` chooses
anew. `filled` is the number of elements of v8 that hold the byte.

**Musl, Memreverse, Strlen.** One action per loop or straight piece of code; what a
byte is set to, or copied from, is recorded. `access` is the last access of more than a byte (or, for
strlen, of any), for alignment and pages. A fault-only-first load may stop after any element but the
first.

**Tables, Base64.** A byte is the index it was read from, and a table entry names it, so that a byte
looked up twice, not at all, or in a register that does not hold the table shows. For base64 the source
is a stream of bits, a sextet is a function to bits, and the shifts of 16-bit lanes are done on them.
`Machines` are the relations of the register's size to 64, the table, and to 256, the 8-bit indices,
which select the code that runs. LUT6 overwrites the register that selects its gathers; the model has
that register.

**Numbers.** Integers of a fixed width wrap. A floating point number is a multiple of 1/Scale and its
arithmetic exact, and it is not negative: so is every number the programs print.

**Hist.** An element is its truncated distance. `Incremented` is a gather, an increment and a scatter:
lanes with the same cell write the same value, so that one increment of them is lost. The final loop
adds up the lanes of a bin and stores the sum over a counter of an earlier bin, in the same function
`hist`. The lane offsets of dup_m4 are those the code computes (see findings).

**Qsort.** One action per comparison of a scan, per exchange and per split. `calls` holds the running
call and those still to be made, in the order the code makes them. `l` and `h` wrap at the width of
size_t.

**PrintBuffer.** Character k of everything that is printed is the number k, so that a lost, repeated or
misplaced character is seen. Text is written past the buffer if there is not more room than it needs; a
number is put in the buffer if there is room for the longest one.

**BenchRun.** The k-th random number is k, and a checksum is the tuple of what it is computed from.
`Call` is a benchmark's function: it draws, prepares the input and runs a kernel, which may be wrong at
some sizes or write one byte too many. Three kinds stand for the benchmarks: those that write to a
cleared buffer (memcpy), those that draw all input and replace it (LUT4), and those that change some of
the input and return the result (poly1305, whose rounding of n up to 16 is left out). `Measure` is one
repetition; `Report` may follow any of them, since time is left to one call of `bench_time`, the second
part of the module (`TimeInit`, `TimeNext`). There a sample is the time returned, `arr` is static and
starts with what an earlier call left, the two versions leave the loop before and after they count the
last sample, and `Sorted` is what `qsort` makes of the samples, by rank.

**Layout.** Buffers have their real sizes and displacements, in bytes from `mem`; `memory` is how the
block was obtained and MAX_MEM and NEXT configured. Third-party code is a buffer it writes to here.

**FixedBench, Instructions.** An element of a result is how far it is from the reference. `Instructions`
has the masks of `config.h` on one side, and on the other what the operands of each type need.

## 3. The runs

| run | module | checks |
|---|---|---|
| `memcpy` | `Memcpy` | `TypeOK`, `InBounds`, `PrefixCopied`, `FullChunksAligned`, `ImplementsBlockCopy` |
| `text_kernels` | `MCTextKernels` | `TypeOK`, `InputIntact`, `DestMatchesSrc`, `ImplementsInOrderOutput` |
| `utf_before_output` | `MCTextKernels` | `ImplementsInOrderOutput`: violated |
| `matrix_kernels` | `MCMatrixKernels` | `TypeOK`, `ResultIsProduct`, `OperandInTile`, `OffsetsInside`, `ResultIsTransposed`, `OneMeaning`, `VerdictRight`, `NoFinishedRowLost`, `ImplementsGemm` |
| `sgemm_vme_odd` | `MCMatrixKernels` | `ResultIsProduct`: violated |
| `transposes_no_zbb` | `MCMatrixKernels` | `ResultIsTransposed`: violated |
| `qsort` | `Qsort` | `TypeOK`, `ScansInside`, `RestInOrder`, `ImplementsSorting` |
| `print_buffer` | `MCPrintBuffer` | `TypeOK`, `NothingLost`, `ImplementsInOrderOutput` |
| `harness` | `MCHarness` | `TypeOK`, `ComparisonExact`, `SamplesSound`, `BuffersInside`, `ImplementsInOrderOutput` |
| `bench_run_hosted` | `MCHarness` | `ErrorIsFailure`: violated |
| `routines` | `MCRoutines` | `TypeOK`, `AccessesAligned`, `InPlace`, `ReadsInPages`, `ResultRight`, `LanesApart`, `ConflictsOnlyLose`, `StoresFilled`, `ImplementsEachOnce`, `ImplementsHistogram` |
| `hist_m4` | `MCRoutines` | `CountsAreExact`: violated |

**Bounds, and why they are enough.** The strip-mined kernels do the same for every full group: what can
differ is the first chunk, the last two and the step from one to the next.

- `memcpy`: VLMAX 4, up to 13 bytes, cap 2, hybrid threshold 2 groups. Copies longer than two groups
  have first, middle and last chunks and pass through the lengths at which vsetvli has a choice.
- `text_kernels`: mergelines with groups of 3 on all texts of up to 7 bytes of 3 kinds: a pair lies at
  every position relative to the chunks, and the text can end with it. The transcoders, with groups of
  3, on all texts of up to three pieces, among them every kind of malformed sequence (continuation
  alone, cut short, overlong, surrogate, too large, 0xFF), and of up to four well-formed characters: a
  character has more bytes than a group, and a chunk starts anywhere in it.
- `matrix_kernels`: T 3 lets a pass overwrite what the next two still need; up to four A tiles and three
  columns use, reuse and refill every tile register; shapes and machines that are refused. Up to 7 rows
  give every remainder of four, two and one, columns up to more than two groups of 2. Every instruction
  with four registers (0, 8, 16, 31) and all tiles. Up to 5 matrices with 1, 2 and 4 in a register: full rounds, a
  part of one, none.
- `qsort`: all arrays of up to 6 elements of 3 values. The pivot lies at the end, in the middle and among
  equal elements, in parts of every length up to 6, and parts are split twice.
- `print_buffer`: items just fit, fill the buffer exactly and exceed it, after each of the others, in
  programs of up to 4 items.
- `harness`: two benchmarks, a reference and two kernels, right, wrong at some size, overrunning, exempt
  or not: a kernel is measured after one that is wrong and exempt from comparison. 2 to 7 samples of
  three values, of which a fifth is one. Two kernels in the fixed-size programs, so that one runs on what
  the other left. Every type of instruction on four processors. Layout is checked at real sizes: the
  MAX_MEM and NEXT of `bench/config.h`, `.github/workflows/bench-config.h` and
  `nuclei_baremetal/config.h`, and the least MAX_MEM allowed, block addresses
  at both ends of a page and random displacements at both ends of their ranges, between which the
  buffers' ends change monotonically.
- `routines`: VLMAX 4 and up to 25 bytes (more than a round of four groups, a group with a choice and a
  tail), all processors; up to 104 bytes for memset_musl and 60 for memcpy_musl (two rounds with all that
  comes before and after), every alignment; pages of 8 bytes and strings up to 18, in three pages; numbers
  of 12 bits, squares to 120, where y + 1 and the square of the middle fit as they do in 64 bits; numbers
  to 450, as integers and in quarters with up to two digits after the point; up to 9 elements in
  `Tables`, with registers of 1, 2 and 4 bytes; base64 with registers of 4 bytes, up to 31 bytes, two
  chunks and every remainder, on five machines; hist with 2 lanes, 2 bins and the one beyond, distances
  to be clamped, up to 5 elements: a group's second register full, partly filled and empty.
- The violation runs are the same instances with the one constant that selects the case.

**Fairness.** `WF_vars(Next)`: the only thread takes its next step. Nothing in the code waits. It is
needed only for "the call returns". Finished programs take a step that changes nothing, so that deadlock
checking stays on everywhere.

## 4. Findings

- **trans8x8.S.inc:148** (`transposes_no_zbb`). Without Zbb the trailing zeros are counted in a loop
  that leaves the count in t1 and zero in t0, and the code then shifts by t0, as after `ctz`. With
  registers of more than 128 bits the 16-bit transposes that read matrices as they lie load the wrong
  rows.
- **8toN_gather.c:259** (`utf_before_output`). After stepping dest back the code reads dest[-1] to see
  whether it is a high surrogate. When everything written has been stepped over, that is the word before
  the caller's buffer; if it looks like one, the result begins one word too early.
- **sgemm_vme.c:154** (`sgemm_vme_odd`). The first A tile of the next column of C tiles is always
  prefetched into MT0. When K/32 is odd and at least 3, MT0 also holds the last A tile of the current
  column, which is still being multiplied row by row while the prefetch replaces it column by column. The
  benchmark's sizes n = 96, 160, 224 are such (`config.h:9-10`). `sgemm.c` exempts the kernel from
  comparison (`skipCheck`), and `fixed/main.c`, which compares and reports FAIL, is built with size 32 by
  default. K/32 = 1 is harmless, as the tile is replaced by itself, and even K/32 ends on MT8.
- **hist.S:241** (`hist_m4`). The m4 kernel masks the lane numbers with VLMAX instead of VLMAX-1: lanes
  of a register share one counter and lose counts, and every odd register counts in the bin after its own.
  `hist.c:42` assigns where it should add, so the benchmark does not notice.
- **bench/bench.h:153** (`bench_run_hosted`). A program that finds a kernel wrong prints ERROR, returns to
  `main` and exits with 0. `bench/Makefile:39` prints FAILED and stops for a program that fails, and the
  workflow `validate-bench.yml` runs `make -C bench run` to validate the kernels: both see no failure. The
  version in `nuclei_baremetal/` exits with EXIT_FAILURE.

Observations made while modelling, which no run states as a violation:

- `instructions/rvv/config.h:34-36`: the masks of T_W, T_N and T_WR offer an element width of 32 also where ELEN
  is 32, where the wide operand of 64 bits does not exist. `MCHarness` leaves those types out for such
  processors, and T_64 and T_SHA, which are for others.
- `LUT6.S:72`: the vsetvli for the gathers overwrites t1, which selects how many gathers the table
  needs. With registers that hold the whole table the first round gathers from one register and the
  later ones from more: slower, not wrong, and a benchmark of something else.
- `ascii_to_utf16.c:44` and `ascii_to_utf32.c` prepare the input with `|= 0x7F`, which makes every byte
  0x7F or 0xFF; `&=` is likely meant. The kernels only move bytes and do not notice.
- `nolibc.h:404-405`: `ftoa` puts the sign behind the digits, since it builds the text from its end, and
  leaves the caller's buffer as it was for NaN. `prec` 0 would not stop at zero. No caller does any of it.
- With MAX_MEM 14336 or 648192 and NEXT(c) = c + c/7 + 3 the last size of ascii_to_utf32 fills
  bytes up to MAX_MEM + 17 or + 19, where a block from malloc may have only 16. The values of the
  repository's configurations do not: `BuffersInside` holds for them, and `BuffersStayNear` bounds the
  excess for all others.

## 5. Proofs

Forty-six theorems in eight modules. `Division` holds what several of them need to know of quotients
and remainders, and an induction over the natural numbers for sets, from the library's theorem that every
subset has a smallest element.

`MemcpyProofs` proves for every VLMAX, length, alignment, cap and threshold (positive integers;
VLMAX need not be a power of two once `x & (VLMAX-1)` is read as `x % VLMAX`):

- `TypeCorrect`, `AccessesInBounds`, `CopiesPrefix`, `FullChunksAreAligned`: `Spec => []P` for the four
  invariants of the run;
- `RefinesBlockCopy`: `Spec => Abstract!SafeSpec`, that each step is a step of `BlockCopy` or stutters.

The properties are not inductive. `IInv` adds what each place in the code relies on: the pointers are
equal and are len - n in a strip kernel (n is what is left), the chunk about to be copied is at most n
and is zero only if n is; in a block kernel n is a multiple of vl, dest has reached a multiple of vl,
and n + tail = len; after the first chunk of an aligning kernel the pointer is aligned unless less than
a group was taken because nothing is left. The proof that a step preserves `IInv` has one step per
action. The arithmetic (a remainder is smaller than the divisor, one more chunk of a multiple still
fits, and so on) is in lemmas about division at the head of the module.

`QsortProofs` proves for arrays of every length, of any integers (a word must be able to hold the length):

- `TypeCorrect`, `ScansStayInside`, `RestStaysInOrder`: the invariants of the run. `IInv` adds that the
  parts of the calls lie one behind the other inside the array, that in the running call the elements
  passed by l are at most and those passed by h at least the pivot, wherever it has been moved to, and
  that each scan has an element ahead of it, inside the part, at which it stops.
- `ReturnsSorted`: when no call is left the array is sorted.
- `RefinesSorting`: each step is an exchange of two elements out of order, the return of a sorted array,
  or a stutter. The abstract specification exchanges only, so the result is a permutation of the input.

`PrintBufferProofs` proves for every buffer size and every program whose numbers have at most the
characters that are reserved for them:

- `TypeCorrect` and `NothingIsLost`, from an invariant that says character by character what
  `NothingLost` says of the sequences: what was written begins the text, and cell k of the buffer below
  printIt holds the character that many places further;
- `AllWrittenAtExit`: the step after main has returned leaves everything written.

`HarnessProofs` is about `bench_run`, `bench_time`, the programs of `FixedBench` and the memory, for all
kernels, sizes, samples, results, addresses and configurations.

- `ReportedIfWrong` (`ComparisonExact`), under the hypothesis that the first kernel of every benchmark, the
  reference, is right: another kernel is found wrong exactly when `checksum` can tell. `RunInv` says that
  after the first call `si`, and after the second `s0`, is what that kernel makes of the random state that
  was saved (`Expected`). That is the same before and after a call (`CallKeepsExpected`), although the calls
  write the memory both take their input from: each draws again all that it reads and a call may have
  changed, or, where some of the input is kept, changes it in the same way. Were the reference wrong as
  well, the comparison would show only where the two differ.
- `OutliersDoNotCount` (`SamplesSound`). `TimeInv` says that the samples in use are of this call, that they
  ascend once they are sorted (`SortedAscends`), and that what has been summed are those from `First` on. If
  a sample that is summed differed from the value that all but a fifth have, all beyond it on its side
  would as well, and they are more than a fifth (`OuterDiffer`, by cardinalities of intervals). That every
  rank has a sample (`Ranked`) is shown with the smallest element of a set of numbers.
- `PrintsInOrder`: the safety part of `ImplementsInOrderOutput` on all levels but that of `Instructions`, with
  the same hypothesis on the reference. The initial states are those of `InOrderOutput`, and each step is one
  of its steps or stutters. `RunPrinted` says that what `bench_run` has printed are the entries before its
  place in the three loops (`At`), that none of these is of a kernel that is found wrong, and that at the
  place itself the kernel is right once it is measured, which follows from `ReportedIfWrong`'s invariant.
  That the place is the right one is division: the k-th entry is of the benchmark, kernel and size that k is
  written as in mixed radix (`CellIs`, `AtMoves`). `FixedPrinted` says of `FixedBench` that c is what the
  kernel alone makes of a cleared matrix, that the maximum and the verdict are those of the elements
  compared, and that `failed` is of the lines printed. It needs that all kernels of a program compute the
  same matrix (`FixedProgramsAssumption`): main passes one shape to all of them.
- `BuffersStayNear`: for every MAX_MEM from 4096 on (the minimum that `bench/config.h` states), every NEXT,
  every address of the block and all random numbers, MAX_MEM bytes are there from mem on, every buffer of
  every benchmark lies in the first MAX_MEM + 21 bytes, and none that is written overlaps one that is read.
  The invariant `LoopInv` is that a benchmark only ever runs with an n below the limit of its loop; the
  lemma about the buffers (`Divided`) has one case per benchmark.
- `BuffersStayInside`: so `BuffersInside` holds wherever the block has 21 bytes behind MAX_MEM. It has for
  most addresses, not for all: that the few others are enough for the n that are reached is checked by the
  run for the configured values, and does not hold for all (see the observations). Nor is the matrix
  multiplication in vlm covered, which has no byte to spare.

`MatrixProofs` is about all that `MatrixKernels` composes: matrix products for tiles of every size T,
registers of every size and matrices of every shape, the transposes, and the test of the tile unit. Every
invariant of the runs is proved; only that calls return is left to TLC.

- `NoRowIsLost` (`NoFinishedRowLost`): the double buffering of C. A row of a finished C tile is stored, as
  it is, before anything is loaded or added where it stands. It holds for all shapes, those of the finding
  as well.
- `OperandIsThere` (`OperandInTile`): the double buffering of A, under the hypothesis that every shape the
  kernel is called with is a `CleanShape`: the number of A tiles in a row is even, or one, or C has one
  column of tiles. All shapes of `matrix_kernels` are; that of `sgemm_vme_odd` is not.
- `OffsetsStayInside` (`OffsetsInside`): no offset of the vector and scalar kernels leaves its matrix.
- `ProductIsRight` (`ResultIsProduct`): what all kernels have computed on return, with the products in the
  order they are added in; and `RefinesGemm`, that each step is one of `Gemm` or stutters: the matrix
  is written piece by piece, each piece once and with the right sum, or not at all. Both under the same
  hypothesis about the tile kernel's shapes, without which the finding refutes them.

The invariant of the tile kernel, `VmeInv`, has three parts. `ControlInv` relates the loop indices, which
are multiples of T inside the matrices. `TilesInv` says that the A tile being multiplied is complete, and
that of the one after it - the next of the row, or the first of the next column of C in mt0 - as many
columns are there as rows have been multiplied; `LastTile` is where the hypothesis is needed: mt0 may be
loaded because the last tile of a row is in mt8, or is the only one and is then replaced by itself. `CInv`
says for every piece of C whether it is final or as it was, for every row of the current C tile how many
products it has, and for the other C tile which rows wait to be stored and which have been replaced by the
next tile. The position at which one turns into the other is that of the loop over k, which is why the
store and the load of a row do not collide. For the other kernels `GroupInv` says that pin and po are at the same row, that
this row, the groups to do and what they leave add up to M - through the loops over four, two and one row -
and which elements of C are done.

- `TransposesAreRight` (`ResultIsTransposed`): what every 8x8 transpose stores is what the scalar one does,
  for registers of every size and any number of matrices, and the rest of dest stays. The hypothesis
  `CleanCall` excludes the kernels for 16-bit elements that read the matrices as they lie, compiled without
  Zbb, on registers of more than 128 bits (`m` > 1): `transposes_no_zbb` shows that they are wrong. The three rounds of
  slides each exchange one bit of the row with one of the column (`SlidFour`, `SlidTwo`, `SlidOne`), and
  together transpose; so do a gather, and a store and loads (`TransposedIs`). The kernels that read two rows
  at once transpose between two butterflies, which is again what the scalar kernel does (`ShuffledIs`).
  `TransInv` says which matrices the registers hold at each place, and which of dest are stored.
- `WordsHaveOneMeaning` (`OneMeaning`): the words of the tile instructions. `Means` reads an instruction
  from the fields of a word. Each word means the instruction it was made for, whatever the registers are,
  and no word means two.
- `TestVerdict` (`VerdictRight`): the test of the tile unit fails exactly if the machine grants smaller
  tiles. `TestInv` says that such a machine is found out where the size is set; of the others that the tile
  is the sum of the first k outer products, and which rows have been stored. `TestTables` shows that these
  sums are the table the test compares with, and that the other two tables are each other's transpose.
- `MatrixTypes` (`TypeOK`): all kernels, with no hypothesis.

`TextProofs` is about the kernels of mergelines, for every text, registers of every size and all answers
of vsetvli, and about the transcoders. The former write into the text they read.

- `MergeReadsTheText` (`InputIntact` for these kernels): the bytes ahead of src, and the one or two behind
  it that the next chunk looks at, are still those of the caller.
- `MergeReturnsAll`: on return the memory begins with what `mergelines_scalar` makes of the text.
- `MergeImplementsInOrderOutput`: every step is one of `InOrderOutput` or stutters.
- `MergeTypeCorrect`.

The kernels and the scalar version go through the text in steps of different sizes: the scalar one takes a
pair at once, the kernels cut it where a chunk ends. Both are compared with a third description that knows no
steps: `Kept`, the places of the text that are neither the first nor the second byte of a pair. That the
scalar version, defined by going on from a place, writes just the bytes at those places is shown by induction.
`MergeInv` says that what a kernel has written is what `Kept` leaves of the `Done` bytes before src (the
mshift kernels hold one byte back), that the memory from there on which is still to be read is
as it was (`RestThere`), and what the kernels carry from one chunk to the next. It holds wherever a chunk
ends. The invariants were checked with TLC on the instance of `text_kernels` first.

Of the transcoders, the five scalar ones and `utf16_to_utf8_rvv` (`InStepKernels`) are proved right for every
text of units that fit in their type (`InputsAssumption`), every size of the ASCII blocks and of the
registers, all answers of vsetvli, and whatever is in memory behind the text:

- `TranscodersInStep` (`DestMatchesSrc` for these kernels) and `TranscodersKeepTypes` (`TypeOK`);
- `TranscodersImplementInOrderOutput`: each step is one of `InOrderOutput` or stutters; what is returned
  is the whole converted text, or an error exactly for a text that is not well-formed.

What a text should become is `Transcoded`, a recursion from each place to the one behind its character.
`RestExists` shows that it has a solution and `OneFits` that no more than one character is at a place: the
first unit tells its length. So a text splits wherever a text ends (`Splits`), which gives the two facts
the kernels rest on: behind a boundary one more character adds its conversion (`NextCharacter`), and
where none fits the text is malformed (`Stuck`). `AcceptedFits`, `Utf8Round`, `Utf16Round` and
`Utf32Round` compare the code's ranges, masks and shifts with the definition by encoding, for all numbers.
For the chunks of the utf16 kernel the lanes are such characters one after the other, and compressing away
the zero bytes of a lane leaves its encoding (`LanesAre`, `JoinInStep`). `StepInv` says that src is at a
boundary, that out is the conversion of what is before it, and that the call ends at the end of the text or
where no character fits. The two UTF-8 vector kernels have src inside characters and are left to TLC; with
a surrogate in front of the output they are not right (`utf_before_output`).

`RoutinesProofs` is about strlen, hist and the loops of `Strips`, for registers, pages and words of every
size, every processor and arguments of every length.

- `NoPageTooFar` (`ReadsInPages`) and `LengthIsRight`: strlen reads no page beyond that of the terminating
  zero, and returns the length. `PlaceInv` says that the zero has not been passed, that in the first page n
  is what the page has left, and that later reads begin at a multiple of the group, so that a group does not straddle pages.
- `EveryByteOnce`: the loops of memset, utf8_count and memrand implement `EachOnce`, and
  `OnlyFilledIsStored` (`StoresFilled`): a memset kernel stores only elements that hold the byte. `OnceInv`
  has the bytes before p handled once and no others (`TouchedInv`), for each loop what it relies on: that a
  chunk, a round or a word is still there, that a kernel that aligns has come to an aligned address, that
  what is left is whole rounds (`PlacesInv`), and how much of the register is filled: a full group, or what
  is left, or what vsetvli answers again to the question it has answered before (`FilledInv`).
- `LanesStayApart` (`LanesApart`): no two lanes of a scatter of dup_m1 or dup_m2 meet in a counter. dup_m4
  is excluded, which `hist_m4` shows to be necessary.
- `OnlyConflictsLose` (`ConflictsOnlyLose`), `CountsAreRight` and `KeepsHistogram`, that every step of a kernel
  is a step of `Histogram` or stutters: at every moment, in the middle of a chunk and of the reduction in place
  too, the bins are the numbers of the elements taken so far (`Exactly` in `CountInv`), and for the kernel
  that ignores conflicts too small only where two elements of a group are equal (`LostOnly`). Kernels with
  many counters for a bin add them up at the end only: before, the bin is a sum over a set of counters, of
  which the definition leaves open in which order it is taken. `TotalRaised` shows, by induction over finite
  sets, that it grows by the number of counters a scatter raises, and `RaisedCounters` that these are as many
  as the elements counted, which are mapped to them one to one since lanes are apart. The reduction overwrites the counters it adds up: a bin is stored below all
  counters that are still to be added. For dup_m4 this is not so, and it is excluded.

The second part of `RoutinesProofs` is about memset_musl, memcpy_musl, memreverse, the kernels with tables and base64.

- `EveryByteInPlace` (`InPlace`): at every place is the right byte or what was there before, nothing is
  stored outside, and on return all bytes are there. Each function has an invariant that says exactly what
  the destination holds at each place in the code. `MemsetInv`: memset_musl stores from both ends, and
  what its loop has left lies between bytes that are there; the end that is rounded down is at most 3 bytes short.
  `MemcpyInv`: the bytes carried over in a word are those before p, and the amount by which the loops
  of shifted words read ahead is the difference of the two alignments. `ReverseInv` and `TablesInv`: what
  is done and what is left add up to len; the zeros that vss stores first are replaced
  in the same round; the registers LUT6 gathers from hold the table although t1 has been overwritten.
  `EncodeInv`: three bytes are four characters until the rest, which is padded.
- `AccessesAtMultiples` (`AccessesAligned`): groups, words and double words are accessed at multiples of
  their size. It needs `OnceInv` as well, for the align kernel.
- `TablesAgree`: the table of 64 characters and the table of 16 differences give the same character for
  every six bits.

The third part is about the functions on numbers.

- `ReturnsRight` (`ResultRight`): what strlen, usqrt, uxtoa and ftoa return, for every modulus and scale.
  `UsqrtInv` has the root between p and n, and n no more than half of the number once it has moved, which
  keeps sums and squares below the modulus. For uxtoa and ftoa `Behind` says that the digits in the text,
  read on from what is left of the number, are the number (`Up`): dividing by ten and storing the remainder
  leaves that as it is (`LastDigit`). `Going` is why there is no leading zero. That the fraction has come to
  nothing when its last digit is stored is a bound by powers of ten. What `Up` and `pow10` compute, both
  defined by recursion, is shown by induction (`StepwiseExists`, `UpExists`, `PowerFacts`).

The five invariants, `OnceInv` and `CountInv` were checked with TLC on the instance of `routines`, and those
of `HarnessProofs` on that of `harness`.

**Model-checked only.**

- What the programs of `Instructions` print: their table is defined by recursion and masks of bits.
- That calls return (`ImplementsInOrderOutput`, `ImplementsBlockCopy`, `ImplementsEachOnce`, `ImplementsGemm`,
  `ImplementsSorting` and `ImplementsHistogram` beyond their safety parts): liveness under fairness, out of
  the prover's reach.
- The two UTF-8 vector kernels: `DestMatchesSrc`, `TypeOK` and `ImplementsInOrderOutput` for
  `utf8_to_utf16_rvv` and `utf8_to_utf32_rvv`, which validate by tables of error bits.
- `BuffersInside` where the block has fewer than 21 bytes behind MAX_MEM, and the type invariants of
  `Routines` and `Harness`.

## 6. Not modelled

- **mandelbrot**: floating point iteration, where a model would tell nothing apart. Its use of `usqrt`
  and of memory is in `Numbers` and `Layout`.
- **chacha20, poly1305 and `thirdparty/`**: vectorised copies of published algorithms; their rounds are
  arithmetic on words. Where `bench/` puts their buffers is in `Layout`.
- **vector-utf/rvv-0.7.1**: compiler output for the previous version of the C source.
- **`trans8x8_*_vzip_fake`**: instructions that stand in for ones the processor does not have; the
  result is exempt from comparison.
- **single/**, and the loops of **instructions/**: measurements by generated straight-line code.
- **uhash, urand, urandf**: arithmetic. `BenchRun` takes random numbers and hashes as distinct values.
- **the tests of a byte and the population count of a word** in utf8_count, and the test of a word for a
  zero byte in strlen_musl: the modules say which bytes are looked at, and take the test as right.
- **system calls, link script, build and CI**: no state of the program. What the Makefiles say of the
  programs is quoted where a finding depends on it.

## 7. What could come next

Proofs: `BuffersInside` for the configured values from `BuffersStayNear`; the UTF-8 vector kernels, that
the tables accept what `Accepted8` does. Runs: the programs of the modules above with the tests of bytes that are
abstracted now.
