---------------------------- MODULE Transcoders ----------------------------
(***************************************************************************)
(* The transcoders of vector-utf/ together: the vector transcoders         *)
(* utf8_to_utf16_rvv and utf8_to_utf32_rvv (8toN_gather.c) and             *)
(* utf16_to_utf8_rvv (16to8_gather.c), and the scalar ones (UtfScalar), to *)
(* which the former give the end of their input.                           *)
(***************************************************************************)
EXTENDS UtfScalar, Vsetvl

CONSTANTS
  VLMAX,        \* bytes of a register group (e8, m2)
  Vlmax16,      \* 16-bit words of a register group (e16, m2)
  BeforeOutput, \* what may be in memory before the output buffer
  Inputs        \* by encoding form: what the transcoders are called for

-----------------------------------------------------------------------------
(***************************************************************************)
(* UTF-8.  The first three bytes are validated by scalar code.  A chunk of *)
(* the loop validates, for each of its bytes, the pair of bytes two and    *)
(* three further on, by three tables, and decodes the characters that      *)
(* start in the chunk; it looks three bytes ahead of the chunk, and so the *)
(* loop ends three bytes before the input does.  What is left is given to  *)
(* the scalar function, from the start of the character it may be within.  *)
(***************************************************************************)
Rvv8Kernels == { "utf8_to_utf16_rvv", "utf8_to_utf32_rvv" }
TO_16       == To(kernel) = "utf16"

Utf8ToNInit ==
  /\ kernel \in Rvv8Kernels
  /\ pc = "enter"
  /\ end = count
  /\ src = 0 /\ dest = 0 /\ out = << >> /\ start = 0 /\ n = 0 /\ answer = 0

EnterShort ==
  /\ pc = "enter" /\ kernel \in Rvv8Kernels /\ count < 3
  /\ pc' = "scalar"
  /\ UNCHANGED << call, src, end, dest, out, start, n, answer >>

\* the end of the continuation bytes from the fourth byte on
FirstEnd ==
  CHOOSE idx \in 3 .. count :
    /\ \A i \in 3 .. idx - 1 : IsContinuation(Unit(i))
    /\ idx = count \/ ~IsContinuation(Unit(idx))

EnterLoop ==
  /\ pc = "enter" /\ kernel \in Rvv8Kernels /\ count >= 3
  /\ IF FirstEnd > 6 \/ ~Accepts8(FirstEnd)
       THEN pc' = "done" /\ UNCHANGED n
       ELSE pc' = "loop" /\ n' = count - 3
  /\ UNCHANGED << call, src, end, dest, out, start, answer >>

-----------------------------------------------------------------------------
(* Validation.  A byte of a table is the set of its bits.                  *)

\* by the high nibble of the first byte of a pair
Err1 == [x \in 0 .. 15 |->
          CASE x =< 7 -> {1} [] x \in 8 .. 11 -> {7} [] x = 12 -> {0, 5}
            [] x = 13 -> {0} [] x = 14 -> {0, 2, 4} [] x = 15 -> {0, 3, 6}]

\* by the low nibble of the first byte
Err2 == [x \in 0 .. 15 |->
          CASE x = 0 -> {0, 1, 2, 5, 6, 7} [] x = 1 -> {0, 1, 5, 7}
            [] x \in {2, 3} -> {0, 1, 7} [] x = 4 -> {0, 1, 3, 7}
            [] x = 13 -> {0, 1, 3, 4, 6, 7} [] OTHER -> {0, 1, 3, 6, 7}]

\* mutant: surrogates are not among the errors
Err3NoSurrogates == [x \in 0 .. 15 |->
          CASE x = 8 -> {1, 2, 5, 6, 7} [] x = 9 -> {1, 2, 3, 5, 7}
            [] x \in {10, 11} -> {1, 3, 5, 7} [] OTHER -> {0}]

\* by the high nibble of the second byte
Err3 == [x \in 0 .. 15 |->
          CASE x = 8 -> {1, 2, 5, 6, 7} [] x = 9 -> {1, 2, 3, 5, 7}
            [] x \in {10, 11} -> {1, 3, 4, 5, 7} [] OTHER -> {0}]

SlideDown(v, x) == Tail(v) \o << x >>

\* v0 to v3: the chunk, and the bytes one, two and three further on
Chunk(vl) ==
  LET v0 == [i \in 1 .. vl |-> Unit(src + i - 1)]
      v1 == SlideDown(v0, Unit(src + vl))
      v2 == SlideDown(v1, Unit(src + vl + 1))
  IN  << v0, v1, v2, SlideDown(v2, Unit(src + vl + 2)) >>

\* bit 7 is a second continuation byte: right after a byte that leads three
\* or four, and only there; any other bit is an error
IsError(v, i) ==
  LET errs == Err1[v[3][i] \div 16] \cap Err2[v[3][i] % 16]
                \cap Err3[v[4][i] \div 16]
  IN  \/ errs # {} /\ 7 \notin errs
      \/ (v[2][i] > \hDF \/ v[1][i] > \hEF) # (7 \in errs)

-----------------------------------------------------------------------------
(* Decoding.                                                               *)

MaxOf(s) == CHOOSE x \in ToSet(s) : \A y \in ToSet(s) : y =< x

Wide12(b1, b2) ==
  IF b1 > \hBF THEN (b1 % 64) * 64 + (b2 % 64) ELSE b1

Wide123(b1, b2, b3) ==
  IF b1 > \hDF THEN ((b1 % 16) * 64 + (b2 % 64)) * 64 + (b3 % 64) ELSE Wide12(b1, b2)

MonusOf(a, b) == IF a < b THEN 0 ELSE a - b

\* the bits of the prefix are shifted out and back, the missing bytes are
\* shifted out of the sum at the end
Wide1234(b1, b2, b3, b4) ==
  LET shift == IF b1 \div 16 = 12 THEN 3 ELSE MonusOf(b1 \div 16, 10)
      c1    == (((b1 * 2^shift) % 256) \div 2^shift)
      c12   == c1 * 64 + (b2 % 64)
      c34   == (b3 % 64) * 64 + (b4 % 64)
  IN  (c12 * 4096 + c34) \div 2^((3 - MonusOf(shift, 2)) * 6)

\* the 16-bit halves that are stored: a high half that is zero is not
Halves(c) == IF c > \hFFFF THEN Surrogates(c) ELSE << c >>

StoredUnits(c) == IF TO_16 THEN Halves(c) ELSE << c >>

\* what is decoded from the bytes of lane i, on the path for bytes up to max
Decode(v, i, max) ==
  CASE max < \hE0 -> << Wide12(v[1][i], v[2][i]) >>
    [] max \in \hE0 .. \hEF -> << Wide123(v[1][i], v[2][i], v[3][i]) >>
    [] max > \hEF -> StoredUnits(Wide1234(v[1][i], v[2][i], v[3][i], v[4][i]))

\* vcompress leaves the lanes that are not continuation bytes
Decoded(v, vl) ==
  FlattenSeq([i \in 1 .. vl |-> IF IsContinuation(v[1][i]) THEN << >>
                                ELSE Decode(v, i, MaxOf(v[1]))])

Advance8(vl, s) ==
  /\ src' = src + vl /\ n' = n - vl
  /\ dest' = dest + Len(s)
  /\ out' = Stored(s)
  /\ UNCHANGED << call, pc, end, start, answer >>

InLoop8 == pc = "loop" /\ kernel \in Rvv8Kernels /\ n > 0

\* the chunk and the bytes after it are ASCII
IsAscii(v, vl) == MaxOf(v[1]) < \h80 /\ \A k \in 2 .. 4 : v[k][vl] < \h80

AsciiChunk8 ==
  /\ InLoop8
  /\ \E vl \in LegalVl(n, VLMAX) : \E v \in { Chunk(vl) } :
       IsAscii(v, vl) /\ Advance8(vl, v[1])

Reject ==
  /\ InLoop8
  /\ \E vl \in LegalVl(n, VLMAX) : \E v \in { Chunk(vl) } :
       ~IsAscii(v, vl) /\ \E i \in 1 .. vl : IsError(v, i)
  /\ pc' = "done" /\ answer' = 0
  /\ UNCHANGED << call, src, end, dest, out, start, n >>

DecodeChunk ==
  /\ InLoop8
  /\ \E vl \in LegalVl(n, VLMAX) : \E v \in { Chunk(vl) } :
       /\ ~IsAscii(v, vl) /\ \A i \in 1 .. vl : ~IsError(v, i)
       /\ \E s \in { Decoded(v, vl) } : Advance8(vl, s)

-----------------------------------------------------------------------------
\* mutant: the first half of a surrogate pair stays
StepBackOne(word) == IF IsContinuation(Unit(src)) THEN 1 ELSE 0

\* how far dest goes back, with the word before the buffer
StepBack(word) ==
  LET one     == IF IsContinuation(Unit(src)) THEN 1 ELSE 0
      before  == IF dest = one THEN word ELSE out[dest - one]
  IN  IF TO_16 /\ before \in \hD800 .. \hDBFF THEN one + 1 ELSE one

\* where the character starts that byte src belongs to
Resumed == CHOOSE p \in 0 .. src : /\ p = 0 \/ ~IsContinuation(Unit(p))
                                   /\ \A i \in p + 1 .. src : IsContinuation(Unit(i))

LeaveLoop8 ==
  /\ pc = "loop" /\ kernel \in Rvv8Kernels /\ n = 0
  /\ IF count > 3
       THEN \E word \in BeforeOutput : src' = Resumed /\ dest' = dest - StepBack(word)
       ELSE UNCHANGED << src, dest >>
  /\ start' = dest'
  /\ pc' = "scalar"
  /\ UNCHANGED << call, end, out, n, answer >>

Utf8ToNNext ==
  \/ EnterShort \/ EnterLoop
  \/ AsciiChunk8 \/ Reject \/ DecodeChunk
  \/ LeaveLoop8

-----------------------------------------------------------------------------
(***************************************************************************)
(* UTF-16.  A chunk is converted as far as its first surrogate; then       *)
(* scalar code converts surrogate pairs for as long as there are any.      *)
(***************************************************************************)
Rvv16Kernels == { "utf16_to_utf8_rvv" }

Utf16To8Init ==
  /\ kernel \in Rvv16Kernels
  /\ pc = "loop"
  /\ n = count
  /\ end = count
  /\ src = 0 /\ dest = 0 /\ out = << >> /\ start = 0 /\ answer = 0

Words(vl)      == [i \in 1 .. vl |-> Unit(src + i - 1)]
AllBelow(s, w) == \A i \in DOMAIN s : s[i] < w

Advance16(k, s) ==
  /\ src' = src + k /\ n' = n - k
  /\ dest' = dest + Len(s)
  /\ out' = Stored(s)
  /\ UNCHANGED << call, end, start, answer >>

InLoop16 == pc = "loop" /\ kernel \in Rvv16Kernels /\ n > 0

AsciiChunk16 ==
  /\ InLoop16
  /\ \E vl \in LegalVl(n, Vlmax16) :
       AllBelow(Words(vl), \h80) /\ Advance16(vl, Words(vl))
  /\ UNCHANGED pc

\* the two bytes of a lane; a second byte that is zero is not stored
Lane2(w) == IF w < \h80 THEN << w >> ELSE Bytes2(w)

TwoByteChunk ==
  /\ InLoop16
  /\ \E vl \in LegalVl(n, Vlmax16) :
       LET s == Words(vl)
       IN  /\ ~AllBelow(s, \h80) /\ AllBelow(s, \h800)
           /\ Advance16(vl, FlattenSeq([i \in 1 .. vl |-> Lane2(s[i])]))
  /\ UNCHANGED pc

\* of the four bytes of a lane those that are not zero, and the third
Lane3(w) ==
  LET bytes == CASE w < \h80 -> << 0, 0, w, 0 >>
                 [] w \in \h80 .. \h7FF -> << 0 >> \o Bytes2(w) \o << 0 >>
                 [] OTHER -> Bytes3(w) \o << 0 >>
      kept(j) == IF bytes[j] # 0 \/ j = 3 THEN << bytes[j] >> ELSE << >>
  IN  kept(1) \o kept(2) \o kept(3) \o kept(4)

\* words before the first surrogate
Prefix(s) == IF \E i \in DOMAIN s : IsSurrogate(s[i])
               THEN (CHOOSE i \in DOMAIN s :
                       IsSurrogate(s[i]) /\ \A j \in 1 .. i - 1 : ~IsSurrogate(s[j])) - 1
               ELSE Len(s)

\* the pairs are looked for in any case: tail is vl - first, which is not 0
\* for a first of -1 either
PrefixChunk ==
  /\ InLoop16
  /\ \E vl \in LegalVl(n, Vlmax16) :
       LET s == Words(vl)
       IN  /\ ~AllBelow(s, \h800)
           /\ Advance16(Prefix(s), FlattenSeq([i \in 1 .. Prefix(s) |-> Lane3(s[i])]))
  /\ pc' = "pairs"

\* mutant: one word is taken for two at the end of the input
EndsWithinNever == FALSE

\* a high surrogate is the last word
EndsWithin == n =< 1

Pair ==
  /\ pc = "pairs" /\ n > 0 /\ IsSurrogate(Unit(src))
  /\ ~EndsWithin /\ IsPair(src)
  /\ Advance16(2, Bytes4(PairValue(src)))
  /\ UNCHANGED pc

BadPair ==
  /\ pc = "pairs" /\ n > 0 /\ IsSurrogate(Unit(src))
  /\ EndsWithin \/ ~IsPair(src)
  /\ pc' = "done" /\ answer' = 0
  /\ UNCHANGED << call, src, end, dest, out, start, n >>

NoMorePairs ==
  /\ pc = "pairs" /\ (n = 0 \/ ~IsSurrogate(Unit(src)))
  /\ pc' = "loop"
  /\ UNCHANGED << call, src, end, dest, out, start, n, answer >>

Return16 ==
  /\ pc = "loop" /\ kernel \in Rvv16Kernels /\ n = 0
  /\ pc' = "done" /\ answer' = dest
  /\ UNCHANGED << call, src, end, dest, out, start, n >>

Utf16To8Next ==
  \/ AsciiChunk16 \/ TwoByteChunk \/ PrefixChunk
  \/ Pair \/ BadPair \/ NoMorePairs
  \/ Return16

-----------------------------------------------------------------------------
(* Together.                                                               *)

Kernels == ScalarKernels \cup Rvv8Kernels \cup Rvv16Kernels

Init ==
  \E f \in Kernels :
    /\ kernel = f
    /\ input \in Inputs[From(f)]
    /\ ScalarInit \/ Utf8ToNInit \/ Utf16To8Init

Terminating == pc = "done" /\ UNCHANGED uvars

Next == ScalarNext \/ Utf8ToNNext \/ Utf16To8Next \/ Terminating

\* the only thread goes on
Spec == Init /\ [][Next]_uvars /\ WF_uvars(Next)

-----------------------------------------------------------------------------
(* Properties.                                                             *)

\* Every variable holds what the code can put there: neither dest nor n wraps.
TypeOK ==
  /\ kernel \in Kernels
  /\ pc \in { "enter", "scalar", "loop", "pairs", "done" }
  /\ src \in 0 .. count /\ end = count /\ n \in 0 .. count
  /\ dest \in 0 .. Len(out) /\ start \in 0 .. dest
  /\ answer \in { 0, dest }

(***************************************************************************)
(* Input and output keep in step, in every loop and across the call of     *)
(* scalar code at the end: what is in front of dest are the characters     *)
(* that start before src, no more and no fewer, and only a vector loop for *)
(* UTF-8 has src inside a character.                                       *)
(***************************************************************************)
DestMatchesSrc ==
  WellFormed(From(kernel), input) /\ pc \in { "scalar", "loop", "pairs" } =>
    LET starts == CHOOSE k \in src .. count :
                    /\ WellFormed(From(kernel), SubSeq(input, 1, k))
                    /\ \A j \in src .. k - 1 :
                         ~WellFormed(From(kernel), SubSeq(input, 1, j))
    IN  /\ SubSeq(out, 1, dest) =
             Transcoded(From(kernel), To(kernel), SubSeq(input, 1, starts))
        /\ ~(pc = "loop" /\ kernel \in Rvv8Kernels) => starts = src

ToBeWritten(f, u) == Transcoded(From(f), To(f), u)

\* an error shows by a length of 0 for an input that has some: it tells the
\* caller that a place is malformed, and nothing about what is before it
Visible ==
  IF pc # "done" THEN out
  ELSE IF answer # 0 \/ input = << >> THEN SubSeq(out, 1, answer)
  ELSE IF WellFormed(From(kernel), input) THEN << Malformed >>
  ELSE ToBeWritten(kernel, input)
=============================================================================
