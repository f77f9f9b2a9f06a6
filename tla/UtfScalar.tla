----------------------------- MODULE UtfScalar -----------------------------
(***************************************************************************)
(* The transcoders of vector-utf/scalar.h: what the vector transcoders are *)
(* compared to, and call for the end of the input.  A step is one round of *)
(* the loop: a block of ASCII, or one character.                           *)
(*                                                                         *)
(* A unit is the number it is.  The length returned is 0 for an error.     *)
(***************************************************************************)
EXTENDS Integers, Sequences, SequencesExt

CONSTANTS
  Block,    \* units looked at together: 16 bytes, 4 words, 2 double words
  Behind    \* what would be read behind the input

VARIABLES
  kernel,   \* the function that was called
  input,    \* the units it was called for
  pc,
  src,      \* index of the next unit to read
  end,      \* of the units scalar code is called for
  dest,     \* index of the next unit to write
  out,      \* what has been written to the output buffer
  start,    \* dest when scalar code was called
  n,        \* units the vector loops have to do
  answer    \* what is returned

-----------------------------------------------------------------------------
(***************************************************************************)
(* The three encoding forms of Unicode.  A character is a number, a text   *)
(* in an encoding form is a sequence of units.  Units are a character if   *)
(* they are what encoding some character gives: there is one way to write  *)
(* a character, and surrogates are none.  This is the standard's           *)
(* definition, by encoding; the code decodes and then looks at ranges.     *)
(***************************************************************************)
LastCharacter  == \h10FFFF
BeyondTwoBytes == \h10000   \* the first that does not fit in a 16-bit word

IsCharacter(c) == c \in 0 .. LastCharacter /\ c \notin \hD800 .. \hDFFF

Utf8(c) ==
  LET six(p) == 128 + ((c \div p) % 64)
  IN  CASE c < \h80 -> << c >>
        [] c >= \h80 /\ c < \h800 -> << 192 + c \div 64, six(1) >>
        [] c >= \h800 /\ c < BeyondTwoBytes -> << 224 + c \div 4096, six(64), six(1) >>
        [] c >= BeyondTwoBytes ->
             << 240 + c \div 262144, six(4096), six(64), six(1) >>

Utf16(c) ==
  IF c < BeyondTwoBytes THEN << c >>
  ELSE << \hD800 + (c - BeyondTwoBytes) \div 1024, \hDC00 + (c % 1024) >>

Encoded(form, c) == CASE form = "utf8"  -> Utf8(c)
                      [] form = "utf16" -> Utf16(c)
                      [] form = "utf32" -> << c >>

\* the number in the payload bits of units u
Payload(form, u) ==
  CASE Len(u) = 1 -> u[1]
    [] form = "utf16" /\ Len(u) = 2 ->
         BeyondTwoBytes + (u[1] - \hD800) * 1024 + (u[2] - \hDC00)
    [] form = "utf8" /\ Len(u) = 2 -> (u[1] % 32) * 64 + (u[2] % 64)
    [] form = "utf8" /\ Len(u) = 3 ->
         (u[1] % 16) * 4096 + (u[2] % 64) * 64 + (u[3] % 64)
    [] form = "utf8" /\ Len(u) = 4 ->
         (u[1] % 8) * 262144 + (u[2] % 64) * 4096 + (u[3] % 64) * 64 + (u[4] % 64)
    [] OTHER -> -1

Encodes(form, u) ==
  \E c \in { Payload(form, u) } : IsCharacter(c) /\ Encoded(form, c) = u

Malformed == -1

\* a text in another encoding form; Malformed in the place where it stops
\* being a text
Transcoded(from, to, u) ==
  LET rest[i \in 1 .. Len(u) + 1] ==
        LET fits == { k \in 1 .. 4 : i + k - 1 =< Len(u) /\
                                     Encodes(from, SubSeq(u, i, i + k - 1)) }
        IN  IF i > Len(u) THEN << >>
            ELSE CHOOSE s \in { Encoded(to, Payload(from, SubSeq(u, i, i + k - 1)))
                                  \o rest[i + k] : k \in fits }
                              \cup (IF fits = {} THEN {<< Malformed >>} ELSE {}) : TRUE
  IN  rest[1]

WellFormed(form, u) ==
  LET t == Transcoded(form, "utf32", u) IN \A i \in DOMAIN t : t[i] # Malformed

-----------------------------------------------------------------------------
(* The functions.                                                          *)

ScalarKernels == { "utf8_to_utf16_scalar", "utf8_to_utf32_scalar",
                   "utf16_to_utf8_scalar", "utf32_to_utf8_scalar",
                   "utf32_to_utf16_scalar" }

call  == << kernel, input >>
uvars == << kernel, input, pc, src, end, dest, out, start, n, answer >>

From(f) == CASE f \in { "utf8_to_utf16_scalar", "utf8_to_utf32_scalar",
                        "utf8_to_utf16_rvv", "utf8_to_utf32_rvv" } -> "utf8"
             [] f \in { "utf16_to_utf8_scalar", "utf16_to_utf8_rvv" } -> "utf16"
             [] OTHER -> "utf32"
To(f)   == CASE f \in { "utf8_to_utf32_scalar", "utf8_to_utf32_rvv" } -> "utf32"
             [] f \in { "utf8_to_utf16_scalar", "utf8_to_utf16_rvv",
                        "utf32_to_utf16_scalar" } -> "utf16"
             [] OTHER -> "utf8"

count == Len(input)
Unit(i) == IF i < count THEN input[i + 1] ELSE Behind

\* what is in the buffer after units s have been written to dest
Stored(s) == SubSeq(out, 1, dest) \o s \o SubSeq(out, dest + Len(s) + 1, Len(out))

ScalarInit ==
  /\ kernel \in ScalarKernels
  /\ pc = "scalar"
  /\ end = count
  /\ src = 0 /\ dest = 0 /\ out = << >> /\ start = 0 /\ n = 0 /\ answer = 0

-----------------------------------------------------------------------------
(* UTF-8.                                                                  *)

\* a whole block is left, and is ASCII
AsciiBlock(size) == /\ src + size =< end
                    /\ \A i \in src .. src + size - 1 : Unit(i) < \h80

IsContinuation(b) == b \in \h80 .. \hBF

\* the bytes a leading byte asks for; 0 for a byte that cannot lead
Length8(b) == CASE b < \h80           -> 1
                [] b \in \hC0 .. \hDF -> 2
                [] b \in \hE0 .. \hEF -> 3
                [] b \in \hF0 .. \hF7 -> 4
                [] OTHER              -> 0

CodePoint8(p) ==
  LET six(i) == (Unit(p + i) % 64)
  IN  CASE Length8(Unit(p)) = 1 -> Unit(p)
        [] Length8(Unit(p)) = 2 -> (Unit(p) % 32) * 64 + six(1)
        [] Length8(Unit(p)) = 3 -> (Unit(p) % 16) * 4096 + six(1) * 64 + six(2)
        [] OTHER -> (Unit(p) % 8) * 262144 + six(1) * 4096 + six(2) * 64 + six(3)

\* the code points that may be written in k bytes
Range8(k) == CASE k = 1 -> 0 .. \h7F
               [] k = 2 -> \h80 .. \h7FF
               [] k = 3 -> (\h800 .. BeyondTwoBytes - 1) \ (\hD800 .. \hDFFF)
               [] OTHER -> BeyondTwoBytes .. LastCharacter

\* bounds, continuation bytes and range of the character at p
Accepted8(p, limit) ==
  LET k == Length8(Unit(p))
  IN  /\ k > 0 /\ p + k =< limit
      /\ \A i \in 1 .. k - 1 : IsContinuation(Unit(p + i))
      /\ CodePoint8(p) \in Range8(k)

\* the scalar function would not return 0 for the bytes before limit
Accepts8(limit) ==
  LET from[p \in 0 .. limit] ==
        p >= limit \/ (Accepted8(p, limit) /\ from[p + Length8(Unit(p))])
  IN  from[0]

Surrogates(c) == << \hD800 + (c - BeyondTwoBytes) \div 1024,
                    \hDC00 + ((c - BeyondTwoBytes) % 1024) >>

Fail == pc' = "done" /\ answer' = 0 /\ UNCHANGED << src, dest, out >>

\* k units are read, s is written
Convert(k, s) ==
  /\ src' = src + k
  /\ dest' = dest + Len(s)
  /\ out' = Stored(s)
  /\ UNCHANGED << pc, answer >>

\* one round of a scalar loop that is for the forms from and to
Round(from, to) ==
  /\ pc = "scalar" /\ src < end
  /\ From(kernel) = from /\ To(kernel) = to
  /\ UNCHANGED << call, end, start, n >>

Copied(size) == [i \in 1 .. size |-> Unit(src + i - 1)]

Utf8ToUtf16 ==
  /\ Round("utf8", "utf16")
  /\ IF AsciiBlock(Block["utf8"])
       THEN Convert(Block["utf8"], Copied(Block["utf8"]))
     ELSE IF ~Accepted8(src, end) THEN Fail
     ELSE Convert(Length8(Unit(src)),
                  IF Length8(Unit(src)) = 4 THEN Surrogates(CodePoint8(src))
                                            ELSE << CodePoint8(src) >>)

Utf8ToUtf32 ==
  /\ Round("utf8", "utf32")
  /\ IF AsciiBlock(Block["utf8"])
       THEN Convert(Block["utf8"], Copied(Block["utf8"]))
     ELSE IF ~Accepted8(src, end) THEN Fail
     ELSE Convert(Length8(Unit(src)), << CodePoint8(src) >>)

-----------------------------------------------------------------------------
(* UTF-16 and UTF-32.                                                      *)

\* the bytes of a code point, by the bits that are set in it
Bytes1(w) == << w >>
Bytes2(w) == << 192 + w \div 64, 128 + (w % 64) >>
Bytes3(w) == << 224 + w \div 4096, 128 + ((w \div 64) % 64), 128 + (w % 64) >>
Bytes4(w) == << 240 + w \div 262144, 128 + ((w \div 4096) % 64),
                128 + ((w \div 64) % 64), 128 + (w % 64) >>

IsSurrogate(w) == w \in \hD800 .. \hDFFF

\* the offset is an unsigned 16-bit difference, which may wrap
Offset(w, base) == ((w - base) % \h10000)

\* a high surrogate at p, and a low one behind it
IsPair(p) == /\ Offset(Unit(p), \hD800) =< \h3FF
             /\ Offset(Unit(p + 1), \hDC00) =< \h3FF

PairValue(p) == Offset(Unit(p), \hD800) * 1024 + Offset(Unit(p + 1), \hDC00)
                + BeyondTwoBytes

Utf16ToUtf8 ==
  /\ Round("utf16", "utf8")
  /\ LET word == Unit(src)
     IN  CASE AsciiBlock(Block["utf16"]) ->
                Convert(Block["utf16"], Copied(Block["utf16"]))
           [] ~AsciiBlock(Block["utf16"]) /\ word < \h80 -> Convert(1, Bytes1(word))
           [] word \in \h80 .. \h7FF -> Convert(1, Bytes2(word))
           [] word >= \h800 /\ ~IsSurrogate(word) -> Convert(1, Bytes3(word))
           [] IsSurrogate(word) /\ src + 1 < end /\ IsPair(src) ->
                Convert(2, Bytes4(PairValue(src)))
           [] IsSurrogate(word) /\ ~(src + 1 < end /\ IsPair(src)) -> Fail

Utf32ToUtf8 ==
  /\ Round("utf32", "utf8")
  /\ LET word == Unit(src)
     IN  CASE AsciiBlock(Block["utf32"]) ->
                Convert(Block["utf32"], Copied(Block["utf32"]))
           [] ~AsciiBlock(Block["utf32"]) /\ word < \h80 -> Convert(1, Bytes1(word))
           [] word \in \h80 .. \h7FF -> Convert(1, Bytes2(word))
           [] word \in \h800 .. BeyondTwoBytes - 1 /\ ~IsSurrogate(word) ->
                Convert(1, Bytes3(word))
           [] word \in BeyondTwoBytes .. LastCharacter -> Convert(1, Bytes4(word))
           [] IsSurrogate(word) \/ word > LastCharacter -> Fail

Utf32ToUtf16 ==
  /\ Round("utf32", "utf16")
  /\ LET word == Unit(src)
     IN  CASE word < BeyondTwoBytes /\ ~IsSurrogate(word) -> Convert(1, << word >>)
           [] word \in BeyondTwoBytes .. LastCharacter -> Convert(1, Surrogates(word))
           [] IsSurrogate(word) \/ word > LastCharacter -> Fail

\* the length is returned; to a vector transcoder, which adds its own
ScalarReturn ==
  /\ pc = "scalar" /\ src >= end
  /\ answer' = IF dest = start THEN 0 ELSE dest
  /\ pc' = "done"
  /\ UNCHANGED << call, src, end, dest, out, start, n >>

ScalarNext ==
  \/ Utf8ToUtf16 \/ Utf8ToUtf32
  \/ Utf16ToUtf8 \/ Utf32ToUtf8 \/ Utf32ToUtf16
  \/ ScalarReturn
=============================================================================
