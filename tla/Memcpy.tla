------------------------------- MODULE Memcpy -------------------------------
(***************************************************************************)
(* The vector memcpy kernels of bench/memcpy.S.  All of them copy in       *)
(* chunks of vl bytes; they differ in how they choose the chunks:          *)
(*                                                                         *)
(*   rvv         vl is what vsetvli makes of the bytes that are left       *)
(*   align_dest  a short first chunk makes dest a multiple of VLMAX        *)
(*   align_src   the same for src                                          *)
(*   hybrid      align_dest, but only for copies of many register groups   *)
(*   vlmax       a short first chunk makes n a multiple of VLMAX           *)
(*   tail        equal chunks of the first vl, then the remainder          *)
(*   cap         (rvv_128) the same with the first vl limited to 128 bits  *)
(*                                                                         *)
(* One CopyChunk step is one pass through the load, the pointer updates    *)
(* and the store.  Source byte i is represented by its index i, so that    *)
(* dest[j] = i says which source byte was stored at destination byte j.    *)
(***************************************************************************)
EXTENDS Vsetvl

CONSTANTS
  VLMAX,        \* bytes of a register group; a power of two in every
                \* processor, which makes x & (VLMAX-1) equal to x % VLMAX
  MaxLen,       \* bound on the length of a copy
  CapBytes,     \* 128/8: limit on the chunks of rvv_128
  HybridGroups  \* 1 << 8: register groups from which hybrid aligns dest

ASSUME VLMAXAssumption  == VLMAX \in Nat \ {0}
ASSUME MaxLenAssumption == MaxLen \in Nat
ASSUME CapAssumption    == CapBytes \in Nat \ {0}
ASSUME HybridAssumption == HybridGroups \in Nat \ {0}

VARIABLES
  variant,  \* the kernel that was called
  daddr,    \* a0 % VLMAX: address of the destination, as far as it matters
  saddr,    \* a1 % VLMAX on entry: address of the source
  len,      \* a2 on entry: number of bytes to copy
  pc,       \* where in the kernel
  n,        \* bytes left (strip kernels), or in full chunks (block kernels)
  s,        \* source pointer, relative to the start of the source
  d,        \* destination pointer, relative to the start of dest
  vl,       \* the vector length in force, which is also t0
  tail,     \* a3: length of the last chunk (block kernels)
  dest      \* the destination bytes

call == << variant, daddr, saddr, len >>
vars == << call, pc, n, s, d, vl, tail, dest >>

AlignVariants == { "align_dest", "align_src", "hybrid" }
StripVariants == AlignVariants \cup { "rvv", "vlmax" }
BlockVariants == { "tail", "cap" }

Untouched == -1
Cells     == 0 .. MaxLen + VLMAX - 1  \* MaxLen bytes and room to overrun

(***************************************************************************)
(* vse8.v: the destination after v bytes, loaded from where s points, are  *)
(* stored where d points.                                                  *)
(***************************************************************************)
Stored(v) == [i \in Cells |-> IF i \in d .. d + v - 1 THEN s + (i - d)
                                                      ELSE dest[i]]

Init ==
  /\ variant \in StripVariants \cup BlockVariants
  /\ daddr \in 0 .. VLMAX - 1
  /\ saddr \in 0 .. VLMAX - 1
  /\ len \in 0 .. MaxLen
  /\ pc = "entry"
  /\ n = len
  /\ s = 0
  /\ d = 0
  /\ vl = 0
  /\ tail = 0
  /\ dest = [i \in Cells |-> Untouched]

-----------------------------------------------------------------------------
(* The code before each kernel's loop.                                     *)

\* the pointer the kernel aligns
AddrToAlign == IF variant = "align_src" THEN saddr ELSE daddr

\* mutant: the negation is forgotten
PastAligned == AddrToAlign % VLMAX

\* bytes from there to the next multiple of VLMAX
ToAligned == (-AddrToAlign) % VLMAX

\* copies shorter than this are not worth aligning
AlignFrom == IF variant = "hybrid" THEN VLMAX * HybridGroups ELSE VLMAX

EnterRvv ==
  /\ pc = "entry" /\ variant = "rvv"
  /\ vl' \in LegalVl(n, VLMAX)
  /\ pc' = "chunk"
  /\ UNCHANGED << call, n, s, d, tail, dest >>

EnterAligning ==
  /\ pc = "entry" /\ variant \in AlignVariants /\ n >= AlignFrom
  /\ vl' \in LegalVl(ToAligned, VLMAX)
  /\ pc' = "chunk"
  /\ UNCHANGED << call, n, s, d, tail, dest >>

EnterTooShortToAlign ==
  /\ pc = "entry" /\ variant \in AlignVariants /\ n < AlignFrom
  /\ vl' = VLMAX
  /\ pc' = "again"
  /\ UNCHANGED << call, n, s, d, tail, dest >>

\* mutant: the mask is not applied, the first chunk is what vsetvli gives
VlmaxFirstUnmasked == n

\* the first chunk of kernel vlmax, after which whole groups remain
VlmaxFirst == n % VLMAX

EnterVlmax ==
  /\ pc = "entry" /\ variant = "vlmax"
  /\ vl' \in LegalVl(VlmaxFirst, VLMAX)
  /\ pc' = "chunk"
  /\ UNCHANGED << call, n, s, d, tail, dest >>

\* what the block kernels ask vsetvli for
BlockAvl == IF variant = "cap" /\ n > CapBytes THEN CapBytes ELSE n

\* mutant: the remainder is not taken off n
FullBlocksAll(t) == n

\* bytes that are copied in whole chunks of t
FullBlocks(t) == n - Remu(n, t)

EnterBlocks ==
  /\ pc = "entry" /\ variant \in BlockVariants
  /\ vl' \in LegalVl(BlockAvl, VLMAX)
  /\ tail' = Remu(n, vl')
  /\ n' = FullBlocks(vl')
  /\ pc' = "chunk"
  /\ UNCHANGED << call, s, d, dest >>

-----------------------------------------------------------------------------
(* The loops.                                                              *)

\* mutant: the branch back is taken when the destination is full, too
MoreBlocksOrNone(dd) == dd =< n

\* bltu: the block kernels branch back while the destination is not full
MoreBlocks(dd) == dd < n

\* mutant: the strip kernels always branch back
AlwaysMore == TRUE

\* bnez: the strip kernels branch back while bytes are left
MoreToCopy == n # 0

\* vle8.v, vse8.v and the updates of the pointers and of n
CopyChunk ==
  /\ pc = "chunk"
  /\ dest' = Stored(vl)
  /\ s' = s + vl
  /\ d' = d + vl
  /\ IF variant \in StripVariants
       THEN n' = n - vl /\ pc' = "again"
       ELSE n' = n /\ pc' = (IF MoreBlocks(d') THEN "chunk" ELSE "tail")
  /\ UNCHANGED << call, vl, tail >>

\* vsetvli for the next chunk, and bnez back to the load
NextChunk ==
  /\ pc = "again" /\ MoreToCopy
  /\ vl' \in IF variant = "vlmax" THEN { VLMAX } ELSE LegalVl(n, VLMAX)
  /\ pc' = "chunk"
  /\ UNCHANGED << call, n, s, d, tail, dest >>

\* what vsetvli leaves in vl on the way out is nobody's business
Return ==
  /\ pc = "again" /\ ~MoreToCopy
  /\ pc' = "done"
  /\ UNCHANGED << call, n, s, d, vl, tail, dest >>

CopyTail ==
  /\ pc = "tail"
  /\ vl' \in LegalVl(tail, VLMAX)
  /\ dest' = Stored(vl')
  /\ pc' = "done"
  /\ UNCHANGED << call, n, s, d, tail >>

Terminating == pc = "done" /\ UNCHANGED vars

Next ==
  \/ EnterRvv \/ EnterAligning \/ EnterTooShortToAlign \/ EnterVlmax
  \/ EnterBlocks
  \/ CopyChunk \/ NextChunk \/ Return \/ CopyTail
  \/ Terminating

\* a kernel that can take a step takes it: nothing here waits for anyone
Spec == Init /\ [][Next]_vars /\ WF_vars(Next)

-----------------------------------------------------------------------------
(* Properties.                                                             *)

\* bytes of the destination that are in place
Copied == IF pc = "done" /\ variant \in BlockVariants THEN d + vl ELSE d

\* Every variable holds what the code can put there.
TypeOK ==
  /\ variant \in StripVariants \cup BlockVariants
  /\ daddr \in 0 .. VLMAX - 1 /\ saddr \in 0 .. VLMAX - 1
  /\ len \in 0 .. MaxLen
  /\ pc \in { "entry", "chunk", "again", "tail", "done" }
  /\ n \in 0 .. len /\ s \in 0 .. len /\ d \in 0 .. len
  /\ vl \in 0 .. VLMAX
  /\ tail \in 0 .. len
  /\ dest \in [Cells -> 0 .. len - 1 \cup { Untouched }]

(***************************************************************************)
(* No kernel loads a source byte or stores a destination byte beyond len,  *)
(* whatever vl the processor answers: the chunk about to be copied lies    *)
(* inside both buffers, and so does the tail.                              *)
(***************************************************************************)
InBounds ==
  /\ pc = "chunk" => s + vl =< len /\ d + vl =< len
  /\ pc = "tail"  => s + tail =< len /\ d + tail =< len

(***************************************************************************)
(* At every moment the destination holds a prefix of the source and, after *)
(* it, what the caller had there; when the kernel returns the prefix is    *)
(* the whole copy.  checksum() of bench/memcpy.c looks at the same bytes,  *)
(* and at nine more, but only once per call and for one vl policy.         *)
(***************************************************************************)
PrefixCopied ==
  /\ \A i \in Cells : dest[i] = IF i < Copied THEN i ELSE Untouched
  /\ pc = "done" => Copied = len

(***************************************************************************)
(* Why the align kernels align: once the first chunk is done every full    *)
(* register group is accessed at a multiple of VLMAX.  The processor may   *)
(* answer vsetvli with less than VLMAX before the end, but only when too   *)
(* little for one more full group remains.                                 *)
(***************************************************************************)
Aligned == (d + AddrToAlign) % VLMAX = 0

FullChunksAligned ==
  /\ pc = "chunk" /\ vl = VLMAX
  /\ variant \in AlignVariants /\ len >= AlignFrom
  => Aligned

(***************************************************************************)
(* The kernels are implementations of BlockCopy: the part that is copied   *)
(* only grows, no byte of it is given up again, and the call returns, for  *)
(* len = 0 too.                                                            *)
(***************************************************************************)
Abstract == INSTANCE BlockCopy WITH copied <- Copied, returned <- (pc = "done")
ImplementsBlockCopy == Abstract!Spec
=============================================================================
