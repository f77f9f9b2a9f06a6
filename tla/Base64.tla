------------------------------- MODULE Base64 -------------------------------
(***************************************************************************)
(* The base64 kernels of bench/base64_encode.S: chunks of 3*vlenb bytes to *)
(* 4*vlenb characters, while there are 4*vlenb bytes left, and the rest by *)
(* b64_encode_scalar.                                                      *)
(*                                                                         *)
(*   LUT64, LUT16          four loads that overlap, a gather that puts the *)
(*                         bytes of a character in a 16-bit lane, and      *)
(*                         shifts of the lanes                             *)
(*   seg_LUT64, seg_LUT16  a segment load, shifts and additions            *)
(*                                                                         *)
(* The source is a stream of bits, and a character a sequence of six of    *)
(* them, the lowest first, or zero bits.  Its entry in the table of 64 is  *)
(* gathered from as many registers as the table needs; that of LUT16 is    *)
(* made with a table of 16 differences, which fits in one.                 *)
(***************************************************************************)
EXTENDS Integers

CONSTANTS
  Vlenb,      \* bytes of a register, a multiple of four
  MaxLength,
  Machines    \* what 64, the size of the table, and 256, the number of indices
              \* of 8 bits, may be in relation to Vlenb

VARIABLES
  kernel, table, range,
  len, pc,
  n,          \* length
  src, dest,
  access,     \* the bytes that were read in this step
  touched     \* the characters

cvars == << kernel, table, range, len, pc, n, src, dest, access, touched >>

EncodeKernels == { "scalar", "LUT64", "LUT16", "seg_LUT64", "seg_LUT16" }

NotStored == << -1 >>
Padding   == << -2 >>
ZeroBit   == -3

\* bit b of source byte i, counted from the lowest
Bit(i, b) == 8 * i + 7 - b

\* base64: character c is six bits of the stream
Character(c) == [b \in 0 .. 5 |-> 6 * c + 5 - b]

EncodeInit ==
  /\ kernel \in EncodeKernels
  /\ \E m \in Machines : table = m[1] /\ range = m[2]
  /\ len \in 0 .. MaxLength
  /\ pc = "enter" /\ n = len /\ src = 0 /\ dest = 0 /\ access = {}
  /\ touched = [c \in 0 .. 4 * ((MaxLength + 2) \div 3) - 1 |-> NotStored]

\* mutant: while there is a chunk to convert
MoreChunksOf3 == n >= 3 * Vlenb

MoreChunks == n >= 4 * Vlenb

Enter ==
  /\ pc = "enter"
  /\ pc' = IF kernel # "scalar" /\ MoreChunks THEN "loop" ELSE "scalar"
  /\ access' = {}
  /\ UNCHANGED << kernel, table, range, len, n, src, dest, touched >>

\* src of the load of register r, of four
Offset(r) == (3 * r * Vlenb) \div 4

\* the bytes of lanes 0 and 1 of three: 1, 0 and 2, 1
Indices == << 1, 0, 2, 1 >>
Index(e) == 3 * (e \div 4) + Indices[(e % 4) + 1]

\* 8-bit indices while they suffice, 16-bit ones (vrgatherei16) above
GatherIndex(e) == IF range < Vlenb THEN Index(e) ELSE Index(e) % range

\* byte e of the gathered group
Gathered(e) == src + Offset(e \div Vlenb) + GatherIndex(e % Vlenb)

\* bit b of the 16-bit lane with byte e; it is little endian
LaneBit(e, b) ==
  IF b \notin 0 .. 15 THEN ZeroBit
  ELSE Bit(Gathered(2 * (e \div 2) + b \div 8), b % 8)

\* vsrl by 10 or 6 makes the low bytes, vsll by 4 or 8 the high ones
Sextet(e) ==
  [b \in 0 .. 5 |->
     CASE e % 4 = 0 -> LaneBit(e, b + 10)
       [] e % 4 = 1 -> LaneBit(e, b + 8 - 4)
       [] e % 4 = 2 -> LaneBit(e, b + 6)
       [] e % 4 = 3 -> LaneBit(e, b + 8 - 8)]

\* vand, vsrl and vmacc of the bytes of three
SegmentSextet(e) ==
  LET i == src + 3 * (e \div 4)
  IN  [b \in 0 .. 5 |->
         CASE e % 4 = 0 -> Bit(i, b + 2)
           [] e % 4 = 1 -> IF b < 4 THEN Bit(i + 1, b + 4) ELSE Bit(i, b - 4)
           [] e % 4 = 2 -> IF b < 2 THEN Bit(i + 2, b + 6) ELSE Bit(i + 1, b - 2)
           [] e % 4 = 3 -> Bit(i + 2, b)]

Segments == kernel \in { "seg_LUT64", "seg_LUT16" }

\* registers the table is gathered from
Registers == IF Vlenb >= table THEN 1 ELSE IF 2 * Vlenb >= table THEN 2 ELSE 4

\* an index beyond the registers finds zero
Entry(sextet) ==
  IF kernel \in { "LUT16", "seg_LUT16" } \/ table =< Registers * Vlenb
    THEN sextet ELSE [b \in 0 .. 5 |-> ZeroBit]

Chunk ==
  /\ pc = "loop"
  /\ access' = IF Segments THEN src .. src + 3 * Vlenb - 1
               ELSE UNION { src + Offset(r) .. src + Offset(r) + Vlenb - 1 : r \in 0 .. 3 }
  /\ touched' = [c \in DOMAIN touched |->
                   IF c \in dest .. dest + 4 * Vlenb - 1
                     THEN Entry(IF Segments THEN SegmentSextet(c - dest)
                                            ELSE Sextet(c - dest))
                     ELSE touched[c]]
  /\ n' = n - 3 * Vlenb /\ src' = src + 3 * Vlenb /\ dest' = dest + 4 * Vlenb
  /\ pc' = IF MoreChunks' THEN "loop" ELSE "scalar"
  /\ UNCHANGED << kernel, table, range, len >>

\* the four characters of k bytes, of which three are a number of 24 bits
Quad(k) ==
  LET bit(i, b) == IF b < 0 THEN ZeroBit ELSE Bit(src + i, b)
  IN  << [b \in 0 .. 5 |-> bit(0, b + 2)],
         [b \in 0 .. 5 |-> IF b > 3 THEN bit(0, b - 4)
                           ELSE IF k > 1 THEN bit(1, b + 4) ELSE ZeroBit],
         IF k = 1 THEN Padding
         ELSE [b \in 0 .. 5 |-> IF b > 1 THEN bit(1, b - 2)
                                ELSE IF k > 2 THEN bit(2, b + 6) ELSE ZeroBit],
         IF k < 3 THEN Padding ELSE [b \in 0 .. 5 |-> bit(2, b)] >>

\* three bytes while there are as many, then the rest
ScalarStep ==
  /\ pc = "scalar" /\ n > 0
  /\ LET k == IF n >= 3 THEN 3 ELSE n
     IN  /\ access' = src .. src + k - 1
         /\ touched' = [c \in DOMAIN touched |->
                          IF c \in dest .. dest + 3 THEN Quad(k)[c - dest + 1]
                                                    ELSE touched[c]]
         /\ n' = n - k /\ src' = src + k /\ dest' = dest + 4
  /\ UNCHANGED << kernel, table, range, len, pc >>

\* the length that is returned is dest
Return ==
  /\ pc = "scalar" /\ n = 0
  /\ pc' = "done" /\ access' = {}
  /\ UNCHANGED << kernel, table, range, len, n, src, dest, touched >>

EncodeNext == \/ Enter \/ Chunk \/ ScalarStep \/ Return
              \/ pc = "done" /\ UNCHANGED cvars

-----------------------------------------------------------------------------
(* Properties.                                                             *)

\* Every variable holds what the code can put there: n never wraps.
EncodeTypeOK ==
  /\ kernel \in EncodeKernels /\ pc \in { "enter", "loop", "scalar", "done" }
  /\ n \in 0 .. len /\ src = len - n /\ dest =< 4 * ((len + 2) \div 3)

\* character c of the output: bits behind the end are zeros, and characters
\* without any bit are padding
Expected(c) ==
  IF 6 * c >= 8 * len THEN Padding
  ELSE [b \in 0 .. 5 |-> IF Character(c)[b] < 8 * len THEN Character(c)[b] ELSE ZeroBit]

(***************************************************************************)
(* What is stored are the characters of the source, in order, each once,   *)
(* with padding to a multiple of four; and nothing behind the source is    *)
(* read, although the last load of a chunk goes beyond what it converts.   *)
(***************************************************************************)
Encoded ==
  /\ access \subseteq 0 .. len - 1
  /\ \A c \in DOMAIN touched :
       touched[c] = IF c < dest THEN Expected(c) ELSE NotStored
  /\ pc = "done" => dest = 4 * ((len + 2) \div 3)

-----------------------------------------------------------------------------
(* The tables, in ASCII.                                                   *)

\* "A" to "Z", "a" to "z", "0" to "9", "+" and "/"
LUT64(x) == CASE x < 26 -> 65 + x
              [] x \in 26 .. 51 -> 97 + (x - 26)
              [] x \in 52 .. 61 -> 48 + (x - 52)
              [] x = 62 -> 43
              [] x = 63 -> 47

LUT16 == << 71, 252, 252, 252, 252, 252, 252, 252, 252, 252, 252, 237, 240, 65 >>

\* vmsltu, vssubu and vmerge: a subtraction that stops at zero
Difference(x) == IF x < 26 THEN 13 ELSE IF x < 51 THEN 0 ELSE x - 51
=============================================================================
