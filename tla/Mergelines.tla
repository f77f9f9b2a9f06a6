----------------------------- MODULE Mergelines -----------------------------
(***************************************************************************)
(* The kernels of bench/mergelines.S, which join the lines of a text that  *)
(* are continued by a backslash before the newline: they remove every      *)
(* backslash that is followed by a newline, and that newline, in place.    *)
(*                                                                         *)
(* A chunk of vl bytes is loaded, what is to be removed is found in masks, *)
(* and the rest is compressed and stored at dest, which is never ahead of  *)
(* src.  A pair may lie across two chunks.  The vslide kernels look one    *)
(* byte ahead and one behind; the mshift kernels work on the bytes         *)
(* src[-1] .. src[vl-2], decide by the bytes one further on, and skip the  *)
(* newline of a pair whose backslash ended a chunk.                        *)
(*                                                                         *)
(* Only three kinds of bytes matter: Backslash, Newline and any other.     *)
(***************************************************************************)
EXTENDS Vsetvl, Sequences, SequencesExt

CONSTANTS
  VLMAX,   \* bytes of a register group
  MaxLen   \* bound on the length of a text

Backslash == "backslash"
Newline   == "newline"
Bytes     == { Backslash, Newline, "other" }
Nothing   == "0"          \* the byte before the first and after the last

VslideVariants == { "vslide", "vslide_skip" }
MshiftVariants == { "mshift", "mshift_skip" }
SkipVariants   == { "vslide_skip", "mshift_skip" }

VARIABLES
  variant,  \* the kernel that was called
  text,     \* text[i]: byte i when it was called
  pc,
  mem,      \* the same memory now
  src,      \* index of the next byte to load
  dest,     \* index of the next byte to store
  len,      \* bytes from src on
  last      \* the byte before src

vars == << variant, text, pc, mem, src, dest, len, last >>

Length == Len(text)
Byte(m, i) == m[i + 1]

Init ==
  /\ variant \in VslideVariants \cup MshiftVariants
  /\ \E l \in 0 .. MaxLen : text \in [1 .. l -> Bytes]
  /\ pc = "entry"
  /\ mem = text
  /\ src = 0 /\ dest = 0 /\ len = Length
  /\ last = Nothing

-----------------------------------------------------------------------------
(* The two parts of a chunk: which of its bytes stay, and where they go.   *)

\* mutant: the store is one byte too far up
StoredOneUp(s) == [i \in DOMAIN mem |-> IF i \in dest + 2 .. dest + Len(s) + 1
                                          THEN s[i - dest - 1] ELSE mem[i]]

\* vse8.v of the bytes in s to where dest points
Stored(s) == [i \in DOMAIN mem |-> IF i - 1 \in dest .. dest + Len(s) - 1
                                     THEN s[i - dest] ELSE mem[i]]

\* v: the bytes loaded;  u: v moved up by one (vslide1up)
V(vl) == [i \in 1 .. vl |-> Byte(mem, src + i - 1)]
U(vl) == [i \in 1 .. vl |-> IF i = 1 THEN last ELSE V(vl)[i - 1]]
\* d: v moved down by one (vslide1down)
D(vl) == [i \in 1 .. vl |-> IF i < vl THEN V(vl)[i + 1]
                            ELSE IF vl < len THEN Byte(mem, src + vl) ELSE Nothing]

\* the lanes that are not the newline of a pair
NotSecond(vl) == { i \in 1 .. vl : ~(U(vl)[i] = Backslash /\ V(vl)[i] = Newline) }

\* the lanes that are not the backslash of a pair
NotFirst(vl) == { i \in 1 .. vl : ~(V(vl)[i] = Backslash /\ D(vl)[i] = Newline) }

\* slide1up, srl, add, or: the mask shifted up by one bit, over the bytes
\* it is made of, with a one shifted in at the bottom
ShiftedUp(mask, vl) == { i \in 1 .. vl : i = 1 \/ i - 1 \in mask }

\* vcompress.vm: the elements of s whose lanes are in mask, here from the
\* first lane on
Compress(s, mask) ==
  LET upTo[i \in 0 .. Len(s)] ==
        IF i = 0 THEN << >>
        ELSE IF i \in mask THEN Append(upTo[i - 1], s[i]) ELSE upTo[i - 1]
  IN  upTo[Len(s)]

-----------------------------------------------------------------------------
\* nothing of the chunk is removed, and nothing at its end may be
SkipVslide(vl) == NotSecond(vl) = 1 .. vl /\ D(vl)[vl] # Newline

\* what vslide keeps of a chunk
KeptVslide(vl) ==
  IF variant \in SkipVariants /\ SkipVslide(vl)
    THEN V(vl)
    ELSE Compress(V(vl), NotSecond(vl) \cap NotFirst(vl))

\* what mshift keeps of a chunk
KeptMshift(vl) ==
  IF variant \in SkipVariants /\ NotSecond(vl) = 1 .. vl
    THEN U(vl)
    ELSE Compress(U(vl), NotSecond(vl) \cap ShiftedUp(NotSecond(vl), vl))

\* xor, sltu, and: an odd number removed means that the last lane was the
\* newline of a pair, which the next chunk must not see as its first byte
Skipped(vl, kept) == IF vl < len THEN (vl - kept) % 2 ELSE 0

-----------------------------------------------------------------------------
EnterVslide ==
  /\ pc = "entry" /\ variant \in VslideVariants
  /\ pc' = IF len < 2 THEN "last" ELSE "loop"
  /\ UNCHANGED << variant, text, mem, src, dest, len, last >>

\* mshift starts with the first byte in last
EnterMshift ==
  /\ pc = "entry" /\ variant \in MshiftVariants /\ Length >= 2
  /\ src' = 1 /\ len' = Length - 1
  /\ last' = Byte(mem, 0)
  /\ pc' = "loop"
  /\ UNCHANGED << variant, text, mem, dest >>

EnterMshiftShort ==
  /\ pc = "entry" /\ variant \in MshiftVariants /\ Length < 2
  /\ dest' = Length
  /\ pc' = "done"
  /\ UNCHANGED << variant, text, mem, src, len, last >>

\* the store, the pointer updates and the reload of last from memory
AdvanceBy(step, kept) ==
  /\ mem' = Stored(kept)
  /\ dest' = dest + Len(kept)
  /\ src' = src + step
  /\ len' = len - step
  /\ last' = Byte(mem', src' - 1)
  /\ UNCHANGED << variant, text >>

ChunkVslide ==
  /\ pc = "loop" /\ variant \in VslideVariants
  /\ \E vl \in LegalVl(len, VLMAX) : AdvanceBy(vl, KeptVslide(vl))
  /\ pc' = IF len' > 1 THEN "loop" ELSE "last"

ChunkMshift ==
  /\ pc = "loop" /\ variant \in MshiftVariants
  /\ \E vl \in LegalVl(len, VLMAX) :
       AdvanceBy(vl + Skipped(vl, Len(KeptMshift(vl))), KeptMshift(vl))
  /\ pc' = IF len' > 0 THEN "loop" ELSE "last"

\* the byte vslide has left over, unless it ends a pair
LastVslide ==
  /\ pc = "last" /\ variant \in VslideVariants
  /\ IF len > 0 /\ ~(last = Backslash /\ Byte(mem, src) = Newline)
       THEN mem' = Stored(<< Byte(mem, src) >>) /\ dest' = dest + 1
       ELSE UNCHANGED << mem, dest >>
  /\ pc' = "done"
  /\ UNCHANGED << variant, text, src, len, last >>

\* the byte mshift has in last, unless the text ends with a pair
LastMshift ==
  /\ pc = "last" /\ variant \in MshiftVariants
  /\ IF Byte(mem, src - 2) = Backslash /\ Byte(mem, src - 1) = Newline
       THEN UNCHANGED << mem, dest >>
       ELSE mem' = Stored(<< last >>) /\ dest' = dest + 1
  /\ pc' = "done"
  /\ UNCHANGED << variant, text, src, len, last >>

Terminating == pc = "done" /\ UNCHANGED vars

Next ==
  \/ EnterVslide \/ EnterMshift \/ EnterMshiftShort
  \/ ChunkVslide \/ ChunkMshift
  \/ LastVslide \/ LastMshift
  \/ Terminating

\* one hart runs the kernel and nothing in it waits
Spec == Init /\ [][Next]_vars /\ WF_vars(Next)

-----------------------------------------------------------------------------
(* Properties.                                                             *)

\* mergelines_scalar (bench/mergelines.c), which the kernels are compared to
ScalarMerge(t) ==
  LET from[i \in 1 .. Len(t) + 1] ==
        IF i > Len(t) THEN << >>
        ELSE IF i < Len(t) /\ t[i] = Backslash /\ t[i + 1] = Newline
          THEN from[i + 2]
          ELSE << t[i] >> \o from[i + 1]
  IN  from[1]

\* Every variable holds what the code can put there, inside the text.
TypeOK ==
  /\ variant \in VslideVariants \cup MshiftVariants
  /\ text \in Seq(Bytes) /\ Length =< MaxLen
  /\ pc \in { "entry", "loop", "last", "done" }
  /\ mem \in Seq(Bytes) /\ Len(mem) = Length
  /\ src \in 0 .. Length /\ len = Length - src
  /\ dest \in 0 .. Length
  /\ last \in Bytes \cup { Nothing }

(***************************************************************************)
(* The text is merged in place, and what was loaded from it is partly read *)
(* a second time, after the store: whatever a kernel still reads - the     *)
(* bytes from src on, the byte before src, and for mshift in the end the   *)
(* one before that - is what the caller put there.                         *)
(***************************************************************************)
InputIntact ==
  pc \in { "loop", "last" } =>
    /\ \A i \in src .. Length - 1 : Byte(mem, i) = Byte(text, i)
    /\ src > 0 => last = Byte(text, src - 1)
    /\ pc = "last" /\ variant \in MshiftVariants =>
         \A i \in src - 2 .. src - 1 : Byte(mem, i) = Byte(text, i)
=============================================================================
