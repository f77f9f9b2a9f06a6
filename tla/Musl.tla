-------------------------------- MODULE Musl --------------------------------
(***************************************************************************)
(* memset_musl (bench/memset.c) and memcpy_musl (bench/memcpy.c), which    *)
(* the vector kernels are compared with.                                   *)
(*                                                                         *)
(* memset_musl stores bytes, then words, then double words, from both ends *)
(* to the middle, and lets its stores overlap to have few branches.  Its   *)
(* pointer s is p here, relative to dest.                                  *)
(*                                                                         *)
(* memcpy_musl aligns the source, and then copies words; if the            *)
(* destination is not aligned with it, the words it stores are made of the *)
(* end of one word of the source, which is kept in w, and the beginning of *)
(* the next.  The pointers s and d move together: p is what they have      *)
(* moved.  Source byte i is represented by i.                              *)
(***************************************************************************)
EXTENDS Integers

CONSTANTS MemsetMaxLen, MemcpyMaxLen

VARIABLES
  addr, saddr,  \* of dest and src, as far as they matter
  len,          \* the argument n
  pc,
  p, n,         \* what is left, p relative to dest (and src)
  tail,         \* w: the index of the first byte of the word
  vl,           \* the bit of n that is looked at
  touched,      \* the bytes that were set; what each byte of dest was set to
  access        \* the last accesses of more than a byte: << buffer, offset, size >>

\* what memset_musl and what memcpy_musl uses
svars == << addr, len, pc, p, n, touched, access >>
mvars == << addr, saddr, len, pc, p, n, tail, vl, touched, access >>

-----------------------------------------------------------------------------
(* memset_musl.                                                            *)

MemsetInit ==
  /\ addr \in 0 .. 7 /\ len \in 0 .. MemsetMaxLen
  /\ pc = "bytes"
  /\ p = 0 /\ n = len
  /\ touched = {} /\ access = {}

Bytes(offsets, size) == UNION { o .. o + size - 1 : o \in offsets }

\* lines 31 to 41: the bytes at either end, and an end of them each time
HeadAndTail ==
  CASE n = 0  -> {}
    [] n \in 1 .. 2 -> { 0, n - 1 }
    [] n \in 3 .. 6 -> { 0, n - 1, 1, 2, n - 2, n - 3 }
    [] OTHER -> { 0, n - 1, 1, 2, n - 2, n - 3, 3, n - 4 }

StoreBytes ==
  /\ pc = "bytes"
  /\ touched' = HeadAndTail
  /\ pc' = IF n =< 8 THEN "done" ELSE "align"
  /\ UNCHANGED << addr, len, p, n, access >>

ToWord == (-addr) % 4

Align ==
  /\ pc = "align"
  /\ p' = p + ToWord
  /\ n' = 4 * ((n - ToWord) \div 4)
  /\ pc' = "words"
  /\ UNCHANGED << addr, len, touched, access >>

WordOffsets ==
  { p, p + n - 4 }
    \cup (IF n > 8  THEN { p + 4, p + 8, p + n - 12, p + n - 8 } ELSE {})
    \cup (IF n > 24 THEN { p + 12, p + 16, p + 20, p + 24,
                           p + n - 28, p + n - 24, p + n - 20, p + n - 16 }
                    ELSE {})

StoreWords ==
  /\ pc = "words"
  /\ touched' = touched \cup Bytes(WordOffsets, 4)
  /\ access' = { "dest" } \X WordOffsets \X { 4 }
  /\ pc' = IF n =< 24 THEN "done" ELSE "align8"
  /\ UNCHANGED << addr, len, p, n >>

\* mutant: whether p is at a multiple of 8 is not looked at
FilledHeadOnly == 24

\* 24 + (p & 4)
FilledHead == 24 + 4 * (((addr + p) \div 4) % 2)

Align8 ==
  /\ pc = "align8"
  /\ p' = p + FilledHead
  /\ n' = n - FilledHead
  /\ pc' = "loop"
  /\ UNCHANGED << addr, len, touched, access >>

StoreDoubleWords ==
  /\ pc = "loop" /\ n >= 32
  /\ LET offsets == { p, p + 8, p + 16, p + 24 }
     IN  /\ touched' = touched \cup Bytes(offsets, 8)
         /\ access' = { "dest" } \X offsets \X { 8 }
  /\ p' = p + 32 /\ n' = n - 32
  /\ UNCHANGED << addr, len, pc >>

\* the remainder was stored by StoreWords
Return ==
  /\ pc = "loop" /\ n < 32
  /\ pc' = "done"
  /\ UNCHANGED << addr, len, p, n, touched, access >>

MemsetTerminating == pc = "done" /\ UNCHANGED svars

MemsetNext ==
  \/ StoreBytes \/ Align \/ StoreWords \/ Align8 \/ StoreDoubleWords
  \/ Return \/ MemsetTerminating

-----------------------------------------------------------------------------
(* memcpy_musl.                                                            *)

NotStored == -1

MemcpyInit ==
  /\ addr \in 0 .. 3 /\ saddr \in 0 .. 3 /\ len \in 0 .. MemcpyMaxLen
  /\ pc = "align" /\ p = 0 /\ n = len
  /\ tail = 0 /\ vl = 0
  /\ touched = [i \in 0 .. MemcpyMaxLen - 1 |-> NotStored]
  /\ access = {}

\* k bytes are copied, one by one
CopyBytes(k) ==
  touched' = [i \in DOMAIN touched |-> IF i \in p .. p + k - 1 THEN i ELSE touched[i]]

ByteToAlign ==
  /\ pc = "align" /\ (saddr + p) % 4 # 0 /\ n > 0
  /\ CopyBytes(1)
  /\ p' = p + 1 /\ n' = n - 1
  /\ UNCHANGED << addr, saddr, len, pc, tail, vl, access >>

\* how far the destination is from being aligned
Shift == (addr + p) % 4

Aligned ==
  /\ pc = "align" /\ ((saddr + p) % 4 = 0 \/ n = 0)
  /\ pc' = CASE Shift = 0             -> "quads"
             [] Shift # 0 /\ n >= 32  -> "shift"
             [] Shift # 0 /\ n < 32   -> "rest"
  /\ vl' = 16
  /\ UNCHANGED << addr, saddr, len, p, n, tail, touched, access >>

Quads == { 0, 4, 8, 12 }

\* k bytes are read and stored as words
WordAccesses(k) ==
  { "src", "dest" } \X { p + q : q \in { x \in Quads : x < k } } \X { 4 }

CopyQuads ==
  /\ pc = "quads" /\ n >= 16
  /\ CopyBytes(16)
  /\ access' = WordAccesses(16)
  /\ p' = p + 16 /\ n' = n - 16
  /\ UNCHANGED << addr, saddr, len, pc, tail, vl >>

QuadsDone ==
  /\ pc = "quads" /\ n < 16
  /\ pc' = "rest" /\ vl' = 8
  /\ UNCHANGED << addr, saddr, len, p, n, tail, touched, access >>

\* the bytes up to an aligned destination, before which w is read
EnterShift ==
  /\ pc = "shift"
  /\ tail' = p
  /\ access' = {<< "src", p, 4 >>}
  /\ CopyBytes(4 - Shift)
  /\ p' = p + 4 - Shift /\ n' = n - (4 - Shift)
  /\ pc' = CASE Shift = 1 -> "shift1" [] Shift = 2 -> "shift2" [] Shift = 3 -> "shift3"
  /\ UNCHANGED << addr, saddr, len, vl >>

\* bytes of each word that come from the word before
Kept == CASE pc = "shift1" -> 1 [] pc = "shift2" -> 2 [] pc = "shift3" -> 3

\* mutant: the last word that is read may end behind the source
RoundFits16 == n >= 16

RoundFits == n >= 16 + Kept

ShiftPc == { "shift1", "shift2", "shift3" }

\* the source byte that byte b of word q of a round is made of
Source(q, b) ==
  LET before == IF q = 0 THEN tail ELSE p + 4 * (q - 1) + Kept
      word   == p + 4 * q + Kept
  IN  IF b < Kept THEN before + (4 - Kept) + b ELSE word + (b - Kept)

ShiftRound ==
  /\ pc \in ShiftPc /\ RoundFits
  /\ touched' = [i \in DOMAIN touched |->
                   IF i \in p .. p + 15 THEN Source((i - p) \div 4, (i - p) % 4)
                                        ELSE touched[i]]
  /\ access' = { << "src", p + q + Kept, 4 >> : q \in Quads }
                 \cup { "dest" } \X { p + q : q \in Quads } \X { 4 }
  /\ tail' = p + 12 + Kept
  /\ p' = p + 16 /\ n' = n - 16
  /\ UNCHANGED << addr, saddr, len, pc, vl >>

ShiftDone ==
  /\ pc \in ShiftPc /\ ~RoundFits
  /\ pc' = "rest"
  /\ UNCHANGED << addr, saddr, len, p, n, tail, vl, touched, access >>

\* the bits of n say what is left; n itself stays
Rest ==
  /\ pc = "rest"
  /\ IF (n \div vl) % 2 = 1
       THEN /\ CopyBytes(vl)
            /\ p' = IF vl = 1 THEN p ELSE p + vl
            /\ access' = IF addr = saddr /\ vl \in { 4, 8 } THEN WordAccesses(vl) ELSE {}
       ELSE UNCHANGED << p, touched >> /\ access' = {}
  /\ vl' = vl \div 2
  /\ pc' = IF vl = 1 THEN "done" ELSE "rest"
  /\ UNCHANGED << addr, saddr, len, n, tail >>

MemcpyTerminating == pc = "done" /\ UNCHANGED mvars

MemcpyNext ==
  \/ ByteToAlign \/ Aligned
  \/ CopyQuads \/ QuadsDone
  \/ EnterShift \/ ShiftRound \/ ShiftDone
  \/ Rest \/ MemcpyTerminating

-----------------------------------------------------------------------------
(* Properties.                                                             *)

(***************************************************************************)
(* Every variable holds what the code can put there: the offsets are in    *)
(* the destination (memset.c:27-29, "Each conditional ensures that all the *)
(* subsequently used offsets are well-defined and in the dest region").    *)
(***************************************************************************)
MemsetTypeOK ==
  /\ addr \in 0 .. 7 /\ len \in 0 .. MemsetMaxLen
  /\ pc \in { "bytes", "align", "words", "align8", "loop", "done" }
  /\ p \in 0 .. len /\ n \in 0 .. len /\ p + n =< len
  /\ touched \subseteq 0 .. len - 1
  /\ access \subseteq { "dest" } \X (0 .. len - 1) \X { 4, 8 }

(***************************************************************************)
(* What lies before p, and the last bytes up to where the remainder of the *)
(* loop may begin, has been set, so that nothing is missing at the end     *)
(* (memset.c:91-93, "any remainder when n drops below 32 can be safely     *)
(* ignored").                                                              *)
(***************************************************************************)
RemainderStored ==
  /\ pc = "loop" => /\ 0 .. p - 1 \subseteq touched
                    /\ \A i \in 0 .. len - 1 : i >= p + 32 * (n \div 32) => i \in touched
  /\ pc = "done" => touched = 0 .. len - 1

\* Every variable holds what the code can put there; words are read and
\* stored inside the buffers.
MemcpyTypeOK ==
  /\ addr \in 0 .. 3 /\ saddr \in 0 .. 3 /\ len \in 0 .. MemcpyMaxLen
  /\ pc \in { "align", "quads", "shift", "rest", "done" } \cup ShiftPc
  /\ p \in 0 .. len /\ n \in 0 .. len /\ tail \in 0 .. len
  /\ vl \in { 0, 1, 2, 4, 8, 16 }
  /\ \A a \in access : a[2] \in 0 .. len - 4

\* Every byte that has been stored is the source byte of its place, none is
\* stored behind the end, and none is missing when the call returns.
CopiedInPlace ==
  \A i \in DOMAIN touched :
    /\ touched[i] \in { NotStored, i }
    /\ i >= len => touched[i] = NotStored
    /\ i < len /\ pc = "done" => touched[i] = i
=============================================================================
