------------------------------- MODULE Layout -------------------------------
(***************************************************************************)
(* Where the benchmarks put their buffers: main of both bench.h gets a     *)
(* block of memory and lets mem be its first multiple of 4096, bench_run   *)
(* calls each benchmark with growing n, and the bench functions cut their  *)
(* buffers from mem on, most of them with a random displacement.  A byte   *)
(* is its distance from mem.                                               *)
(***************************************************************************)
EXTENDS Integers

CONSTANTS
  Addresses,      \* of the block, modulo MEM_ALIGN, as far as they matter
  Displacements   \* what bench_urand() may be, as far as it matters

VARIABLES
  memory,    \* how bench.h and config.h were configured
  pc,
  address,   \* of the block, modulo MEM_ALIGN
  room,      \* bytes of the block from mem on
  bench,     \* the benchmark
  n,
  offs       \* the random numbers for dOff and sOff

lvars == << memory, pc, address, room, bench, n, offs >>

MEM_ALIGN == 4096

\* mutant: a block of MAX_MEM bytes, wherever it is
BlockSizeExact(m) == m.max

(***************************************************************************)
(* memory.alloc: malloc, static (heap in a freestanding build), or vlm     *)
(* (vlm_mem, the only content of .vlm_data, at the origin of its memory).  *)
(* memory.max is MAX_MEM, NEXT(c) is c + c / memory.growth + 3 or c + 32.  *)
(***************************************************************************)
BlockSize(m) == CASE m.alloc = "malloc" -> m.max + MEM_ALIGN
                  [] m.alloc = "static" -> 1 + m.max + MEM_ALIGN
                  [] m.alloc = "vlm"    -> m.max

\* malloc aligns for every type
Aligned(m) == CASE m.alloc = "malloc" -> { a \in Addresses : a % 16 = 0 }
                [] m.alloc = "static" -> Addresses
                [] m.alloc = "vlm"    -> { 0 }

Benchmarks(m) ==
  IF m.alloc = "vlm" THEN { "sgemm" }
  ELSE { "memcpy", "memset", "strlen", "mergelines", "hist", "mandelbrot", "chacha20",
         "poly1305", "ascii_to_utf16", "ascii_to_utf32", "base64", "byteswap32", "LUT",
         "trans8x8e8", "trans8x8e16" }

\* the N of the Bench: n is less
Limit(b, M) ==
  CASE b = "memcpy"         -> M \div 2 - 521          \* and memreverse
    [] b = "memset"         -> M - 521                 \* and utf8_count
    [] b = "strlen"         -> M - 521
    [] b = "mergelines"     -> M \div 10 - 256
    [] b = "hist"           -> M \div 2
    [] b = "mandelbrot"     -> (M \div 4) \div 10
    [] b = "chacha20"       -> M \div 2 - 16
    [] b = "poly1305"       -> M
    [] b = "ascii_to_utf16" -> M \div 3 - 530
    [] b = "ascii_to_utf32" -> M \div 5 - 530
    [] b = "base64"         -> M \div 3
    [] b = "byteswap32"     -> M \div 4
    [] b = "LUT"            -> M
    [] b \in { "trans8x8e8", "trans8x8e16" } -> M \div 4 - 12

Low(r) == r % 256   \* bench_urand() & 255

\* a buffer is << first byte, byte after the last >>
Buffer(first, size) == << first, first + size >>

\* the buffer that is written, with n = k
Dest(b, M, k, d, s) ==
  CASE b = "memcpy"         -> Buffer(Low(d), k + 9)
    [] b = "memset"         -> Buffer(d % 512, k + 9)
    [] b = "strlen"         -> Buffer(d % 511, k + 1)
    [] b = "mergelines"     -> Buffer(Low(d), k)
    [] b = "hist"           -> Buffer(0, 4 * (k \div 4))
    [] b = "mandelbrot"     -> Buffer(0, 4 * k)          \* usqrt(n)^2 =< n words
    [] b = "chacha20"       -> Buffer(0, k + 16)
    [] b = "poly1305"       -> Buffer(0, 16 * ((15 + k) \div 16))
    [] b = "ascii_to_utf16" -> Buffer(2 * (Low(d) \div 2), 2 * (k + 9))
    [] b = "ascii_to_utf32" -> Buffer(4 * (Low(d) \div 4), 4 * (k + 9))
    [] b = "base64"         -> Buffer(M \div 3, 2 * k + 9)
    [] b = "byteswap32"     -> Buffer(0, 4 * k)
    [] b = "LUT"            -> Buffer(0, k)
    [] b = "trans8x8e8"     -> Buffer(0, 64 * (k \div 64))
    [] b = "trans8x8e16"    -> Buffer(0, 128 * (k \div 128))
    [] b = "sgemm"          -> Buffer(0, 4 * k * k)

\* what is read besides, and has been filled by the bench function or by init
Source(b, M, k, d, s) ==
  CASE b = "memcpy"         -> Buffer(Low(d) + M \div 2 + Low(s) + 9, k)
    [] b = "hist"           -> Buffer(M \div 2, 4 * (k \div 4))
    [] b = "chacha20"       -> Buffer(M \div 2 + 16, k)
    [] b = "ascii_to_utf16" ->
         Buffer(2 * (Low(d) \div 2) + 2 * (9 + M \div 3) + Low(s), k + 9)
    [] b = "ascii_to_utf32" ->
         Buffer(4 * (Low(d) \div 4) + 4 * (9 + M \div 5) + Low(s), k + 9)
    [] b = "base64"         -> Buffer(0, k)
    [] b = "trans8x8e8"     -> Buffer(M \div 4, M \div 4 + 64 * (k \div 64))
    [] b = "trans8x8e16"    -> Buffer(2 * (M \div 8), 2 * (M \div 8) + 128 * (k \div 128))
    [] b = "sgemm"          -> Buffer(M \div 4, M \div 4 + 4 * k * k)
    [] OTHER                -> << 0, 0 >>

Inside(buffer, size) == 0 =< buffer[1] /\ buffer[1] =< buffer[2] /\ buffer[2] =< size
Apart(u, v) == u[2] =< v[1] \/ v[2] =< u[1]

-----------------------------------------------------------------------------
LayoutInit ==
  /\ pc = "allocate"
  /\ address = 0 /\ room = 0 /\ bench = "none" /\ n = 0 /\ offs = << 0, 0 >>

RoundedUp(a) == ((a + MEM_ALIGN - 1) \div MEM_ALIGN) * MEM_ALIGN

Allocate ==
  /\ pc = "allocate"
  /\ address' \in Aligned(memory)
  /\ room' = BlockSize(memory) - (RoundedUp(address') - address')
  /\ pc' = "run"
  /\ UNCHANGED << memory, bench, n, offs >>

\* MAX_MAT of nuclei_baremetal, by the number of bits that MAX_MEM has
MAX_MAT(M) == 2^((CHOOSE l \in 0 .. 30 : 2^l =< M /\ M < 2^(l + 1)) \div 2 - 2)

InLoop(k) == IF memory.alloc = "vlm" THEN k =< MAX_MAT(memory.max)
                                 ELSE k < Limit(bench', memory.max)

StartBench ==
  /\ pc = "run"
  /\ bench' \in Benchmarks(memory)
  /\ n' = IF bench' = "sgemm" THEN 32 ELSE 1
  /\ pc' = IF InLoop(n') THEN "call" ELSE "done"
  /\ UNCHANGED << memory, address, room, offs >>

\* the bench function divides mem
Call ==
  /\ pc = "call"
  /\ offs' \in Displacements \X Displacements
  /\ pc' = "called"
  /\ UNCHANGED << memory, address, room, bench, n >>

NextSize ==
  /\ pc = "called"
  /\ bench' = bench
  /\ offs' = << 0, 0 >>    \* were local to the bench function
  /\ n' = IF bench = "sgemm" THEN n + 32 ELSE n + n \div memory.growth + 3
  /\ pc' = IF InLoop(n') THEN "call" ELSE "done"
  /\ UNCHANGED << memory, address, room >>

LayoutNext == \/ Allocate \/ StartBench \/ Call \/ NextSize
              \/ pc = "done" /\ UNCHANGED lvars

-----------------------------------------------------------------------------
LayoutTypeOK ==
  /\ pc \in { "allocate", "run", "call", "called", "done" }
  /\ address \in Aligned(memory) \cup {0} /\ room \in Nat /\ n \in Nat
  /\ bench \in Benchmarks(memory) \cup { "none" }
  /\ offs \in Displacements \X Displacements \cup { << 0, 0 >> }

(***************************************************************************)
(* Every buffer lies in the block, and none of those that are written in   *)
(* one that is read - although some reach past MAX_MEM, and the block      *)
(* begins up to 4095 bytes before mem.                                     *)
(***************************************************************************)
BuffersInside ==
  /\ pc # "allocate" => memory.max =< room    \* bench_memrand(mem, MAX_MEM)
  /\ pc = "called" =>
    LET M == memory.max
    IN  /\ Inside(Dest(bench, M, n, offs[1], offs[2]), room)
        /\ Inside(Source(bench, M, n, offs[1], offs[2]), room)
        /\ Apart(Dest(bench, M, n, offs[1], offs[2]), Source(bench, M, n, offs[1], offs[2]))
=============================================================================
