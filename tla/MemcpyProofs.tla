---------------------------- MODULE MemcpyProofs ----------------------------
(***************************************************************************)
(* Proofs about the memcpy kernels, for every register group size, every   *)
(* length and every choice vsetvli may make.                               *)
(***************************************************************************)
EXTENDS Memcpy, TLAPS

\* names for single instructions, always read as what they stand for
USE DEF AddrToAlign, VlmaxFirst, FullBlocks, MoreBlocks, MoreToCopy

\* the kernels that took the first, aligning, chunk
Aligning == variant \in AlignVariants /\ len >= AlignFrom

\* the strip kernels: n counts the bytes between d and len down to zero
StripInv ==
  variant \in StripVariants =>
    /\ n = len - d
    /\ pc # "tail"
    /\ pc = "entry" => d = 0
    /\ pc = "chunk" => vl =< n
    /\ pc = "done" => n = 0

\* kernel vlmax: what is left when vsetvli is asked again is a number of
\* whole register groups
WholeGroupsLeft ==
  variant = "vlmax" =>
    /\ pc = "chunk" => \E q \in 0 .. len : n - vl = q * VLMAX
    /\ pc = "again" => \E q \in 0 .. len : n = q * VLMAX

\* the block kernels: whole chunks up to n, then a tail shorter than VLMAX
BlockInv ==
  variant \in BlockVariants =>
    /\ pc \in { "entry", "chunk", "tail", "done" }
    /\ pc = "entry" => n = len /\ d = 0
    /\ pc # "entry" => n + tail = len /\ tail =< VLMAX
    /\ pc = "chunk" => /\ vl =< n - d
                       /\ \E q \in 0 .. len : n - d = q * vl
    /\ pc \in { "tail", "done" } => d = n
    /\ pc = "done" => vl = tail

\* the align kernels: aligned, or less than a register group left
AlignInv ==
  Aligning =>
    /\ pc = "chunk" => \/ vl = ToAligned /\ d = 0
                       \/ Aligned /\ vl \in LegalVl(n, VLMAX)
                       \/ n < VLMAX
    /\ pc = "again" => Aligned \/ n < VLMAX

IInv ==
  /\ TypeOK
  /\ s = d
  /\ StripInv
  /\ WholeGroupsLeft
  /\ BlockInv
  /\ AlignInv
  /\ \A i \in Cells : dest[i] = IF i < Copied THEN i ELSE Untouched

-----------------------------------------------------------------------------
(* Arithmetic.                                                             *)

\* Division with remainder, for the vlmax and block kernels' chunks.
LEMMA Division ==
  ASSUME NEW a \in Nat, NEW t \in Nat \ {0}
  PROVE  /\ a % t \in 0 .. t - 1
         /\ a % t =< a
         /\ \E q \in 0 .. a : a - (a % t) = q * t
<1>1. a = (a \div t) * t + (a % t) /\ a % t \in 0 .. t - 1
  OBVIOUS
<1>2. a \div t \in Nat
  OBVIOUS
<1>3. a \div t =< (a \div t) * t /\ (a \div t) * t \in Nat
  BY <1>2
<1>4. a \div t \in 0 .. a /\ a - (a % t) = (a \div t) * t /\ a % t =< a
  BY <1>1, <1>2, <1>3
<1>. QED
  BY <1>1, <1>4

\* Taking one chunk off a number of chunks leaves a number of chunks.
LEMMA OneChunkLess ==
  ASSUME NEW t \in Nat \ {0}, NEW q \in Nat, NEW a \in Nat, a = q * t, a # 0
  PROVE  t =< a /\ q - 1 \in Nat /\ a - t = (q - 1) * t
<1>1. q >= 1
  OBVIOUS
<1>. QED
  BY <1>1

\* The block loop: after one more chunk either none or a whole one is left.
LEMMA BlocksLeft ==
  ASSUME NEW b \in Nat, NEW t \in Nat, NEW q \in Nat, b = q * t, t =< b
  PROVE  /\ b - t = 0 \/ t =< b - t
         /\ b - t > 0 => q - 1 \in 0 .. q /\ b - t = (q - 1) * t
<1>1. CASE t = 0
  BY <1>1
<1>2. CASE t # 0
  <2>1. q - 1 \in Nat /\ b - t = (q - 1) * t
    BY <1>2, OneChunkLess
  <2>2. b - t # 0 => t =< b - t
    BY <1>2, <2>1, OneChunkLess
  <2>. QED
    BY <2>1, <2>2
<1>. QED
  BY <1>1, <1>2

\* A multiple of t leaves no remainder.
LEMMA MultipleMod ==
  ASSUME NEW q \in Int, NEW t \in Nat \ {0}
  PROVE  (q * t) % t = 0
OBVIOUS

\* What remu leaves to the tail, and what is left to the block loop.
LEMMA RemuFacts ==
  ASSUME NEW a \in Nat, NEW t \in Nat, t =< a, a > 0 => t > 0
  PROVE  /\ Remu(a, t) \in 0 .. t /\ Remu(a, t) =< a
         /\ t =< a - Remu(a, t)
         /\ \E q \in 0 .. a : a - Remu(a, t) = q * t
<1>1. CASE t = 0
  BY <1>1 DEF Remu
<1>2. CASE t # 0
  <2>1. /\ Remu(a, t) = a % t /\ Remu(a, t) \in 0 .. t - 1
        /\ Remu(a, t) =< a
    BY <1>2, Division DEF Remu
  <2>2. PICK q \in 0 .. a : a - Remu(a, t) = q * t
    BY <1>2, <2>1, Division
  <2>3. a - Remu(a, t) \in Nat /\ a - Remu(a, t) # 0
    BY <1>2, <2>1
  <2>4. t =< a - Remu(a, t)
    BY <1>2, <2>2, <2>3, OneChunkLess
  <2>5. \E k \in 0 .. a : a - Remu(a, t) = k * t
    BY <2>2, Zenon
  <2>. QED
    BY <2>1, <2>4, <2>5
<1>. QED
  BY <1>1, <1>2

\* ToAligned really leads to a multiple of VLMAX.
LEMMA AddToAlign ==
  ASSUME NEW a \in Nat, NEW t \in Nat \ {0}
  PROVE  /\ (-a) % t \in 0 .. t - 1
         /\ (a + ((-a) % t)) % t = 0
<1>1. /\ -a = ((-a) \div t) * t + ((-a) % t)
      /\ (-a) % t \in 0 .. t - 1
      /\ (-a) \div t \in Int
  OBVIOUS
<1>2. a + ((-a) % t) = (-((-a) \div t)) * t
  BY <1>1
<1>3. -((-a) \div t) \in Int
  BY <1>1
<1>. QED
  BY <1>1, <1>2, <1>3, MultipleMod, Zenon

\* One register group further is as aligned as before.
LEMMA AlignedStep ==
  ASSUME NEW a \in Nat, NEW t \in Nat \ {0}, a % t = 0
  PROVE  (a + t) % t = 0
<1>1. a = (a \div t) * t /\ a \div t \in Int
  OBVIOUS
<1>2. a + t = ((a \div t) + 1) * t
  BY <1>1
<1>3. (a \div t) + 1 \in Int
  BY <1>1
<1>. QED
  BY <1>2, <1>3, MultipleMod, Zenon

\* What a program may rely on when it uses vsetvli.
LEMMA LegalVlFacts ==
  ASSUME NEW avl \in Nat, NEW vlmax \in Nat \ {0},
         NEW v \in LegalVl(avl, vlmax)
  PROVE  /\ v \in 0 .. vlmax
         /\ v =< avl
         /\ v = 0 <=> avl = 0
         /\ avl =< vlmax => v = avl
         /\ v = vlmax \/ avl - v < vlmax
BY DEF LegalVl

\* A kernel aligns only what is at least one register group long.
LEMMA AlignFromFact == AlignFrom \in Nat /\ AlignFrom >= VLMAX
BY VLMAXAssumption, HybridAssumption DEF AlignFrom

-----------------------------------------------------------------------------
(* The inductive invariant.                                                *)

\* A store that stays within len extends the copied prefix.
LEMMA StoreExtendsPrefix ==
  ASSUME IInv, pc # "done", NEW v \in Nat, d + v =< len
  PROVE  /\ Stored(v) \in [Cells -> 0 .. len - 1 \cup { Untouched }]
         /\ \A i \in Cells :
              Stored(v)[i] = IF i < d + v THEN i ELSE Untouched
<1>1. Copied = d /\ s = d /\ d \in Nat /\ len \in Nat
  BY MaxLenAssumption DEF IInv, TypeOK, Copied
<1>2. \A i \in Cells : i \in Nat
  BY DEF Cells
<1>3. ASSUME NEW i \in Cells
      PROVE  Stored(v)[i] = IF i < d + v THEN i ELSE Untouched
  <2>1. Stored(v)[i] = IF i \in d .. d + v - 1 THEN i ELSE dest[i]
    BY <1>1, <1>2 DEF Stored
  <2>2. dest[i] = IF i < d THEN i ELSE Untouched
    BY <1>1 DEF IInv
  <2>. QED
    BY <2>1, <2>2, <1>1, <1>2
<1>4. Stored(v) = [i \in Cells |-> Stored(v)[i]]
  BY DEF Stored
<1>5. \A i \in Cells : Stored(v)[i] \in 0 .. len - 1 \cup { Untouched }
  BY <1>1, <1>2, <1>3
<1>. QED
  BY <1>3, <1>4, <1>5

LEMMA InitInv == Init => IInv
<1>. SUFFICES ASSUME Init PROVE IInv
  OBVIOUS
<1>1. TypeOK
  BY VLMAXAssumption, MaxLenAssumption DEF Init, TypeOK, Untouched
<1>2. Copied = 0
  BY DEF Init, Copied
<1>3. \A i \in Cells : dest[i] = IF i < Copied THEN i ELSE Untouched
  BY <1>2 DEF Init, Cells
<1>. QED
  BY <1>1, <1>3
     DEF IInv, Init, StripInv, WholeGroupsLeft, BlockInv, AlignInv

\* Entering a loop: vl becomes the length of the first chunk.
LEMMA EnterInv ==
  ASSUME IInv, EnterRvv \/ EnterAligning \/ EnterTooShortToAlign
                        \/ EnterVlmax \/ EnterBlocks
  PROVE  IInv'
<1>. USE VLMAXAssumption, MaxLenAssumption DEF call
<1>1. /\ pc = "entry" /\ n = len /\ d = 0 /\ s = 0 /\ len \in Nat
      /\ variant \in StripVariants \cup BlockVariants
  BY DEF IInv, TypeOK, StripInv, BlockInv,
         EnterRvv, EnterAligning, EnterTooShortToAlign, EnterVlmax, EnterBlocks
<1>2. UNCHANGED << call, s, d, dest >> /\ pc' \in { "chunk", "again" }
  BY DEF EnterRvv, EnterAligning, EnterTooShortToAlign, EnterVlmax, EnterBlocks
<1>3. \A i \in Cells : dest'[i] = IF i < Copied' THEN i ELSE Untouched
  BY <1>1, <1>2 DEF IInv, Copied
<1>4. ToAligned \in 0 .. VLMAX - 1 /\ ToAligned' = ToAligned
  BY <1>2, AddToAlign DEF IInv, TypeOK, ToAligned
<1>5. CASE EnterRvv
  <2>1. vl' \in 0 .. VLMAX /\ vl' =< n
    BY <1>1, <1>5, LegalVlFacts DEF EnterRvv
  <2>. QED
    BY <1>1, <1>3, <1>5, <2>1
       DEF EnterRvv, IInv, TypeOK, StripInv, WholeGroupsLeft, BlockInv,
           AlignInv, Aligning, AlignVariants, StripVariants, BlockVariants
<1>6. CASE EnterAligning
  <2>1. vl' = ToAligned
    BY <1>4, <1>6, LegalVlFacts DEF EnterAligning
  <2>2. vl' =< n
    BY <1>1, <1>4, <1>6, <2>1, AlignFromFact DEF EnterAligning
  <2>3. AlignInv'
    BY <1>1, <1>2, <1>4, <1>6, <2>1 DEF EnterAligning, AlignInv
  <2>. QED
    BY <1>1, <1>3, <1>4, <1>6, <2>1, <2>2, <2>3
       DEF EnterAligning, IInv, TypeOK, StripInv, WholeGroupsLeft, BlockInv,
           AlignVariants, StripVariants, BlockVariants
<1>7. CASE EnterTooShortToAlign
  <2>1. ~Aligning'
    BY <1>1, <1>2, <1>7, AlignFromFact
       DEF EnterTooShortToAlign, Aligning, AlignFrom
  <2>. QED
    BY <1>1, <1>3, <1>7, <2>1
       DEF EnterTooShortToAlign, IInv, TypeOK, StripInv, WholeGroupsLeft,
           BlockInv, AlignInv, AlignVariants, StripVariants, BlockVariants
<1>8. CASE EnterVlmax
  <2>1. /\ n % VLMAX \in 0 .. VLMAX - 1 /\ n % VLMAX =< n
        /\ \E q \in 0 .. n : n - (n % VLMAX) = q * VLMAX
    BY <1>1, Division
  <2>2. vl' = n % VLMAX
    BY <1>8, <2>1, LegalVlFacts DEF EnterVlmax
  <2>3. WholeGroupsLeft'
    BY <1>1, <1>8, <2>1, <2>2 DEF EnterVlmax, WholeGroupsLeft
  <2>. QED
    BY <1>1, <1>3, <1>8, <2>1, <2>2, <2>3
       DEF EnterVlmax, IInv, TypeOK, StripInv, BlockInv, AlignInv, Aligning,
           AlignVariants, StripVariants, BlockVariants
<1>9. CASE EnterBlocks
  <2>1. BlockAvl \in Nat /\ BlockAvl =< n /\ (n > 0 => BlockAvl > 0)
    BY <1>1, CapAssumption DEF BlockAvl
  <2>2. PICK v \in LegalVl(BlockAvl, VLMAX) :
          vl' = v /\ tail' = Remu(n, v) /\ n' = n - Remu(n, v) /\ pc' = "chunk"
    BY <1>9, Zenon DEF EnterBlocks
  <2>3. v \in 0 .. VLMAX /\ v =< n /\ (n > 0 => v > 0)
    BY <1>1, <2>1, LegalVlFacts
  <2>4. /\ Remu(n, v) \in 0 .. v /\ Remu(n, v) =< n
        /\ v =< n - Remu(n, v)
        /\ \E q \in 0 .. n : n - Remu(n, v) = q * v
    <3>1. n \in Nat /\ v \in Nat
      BY <1>1, <2>3
    <3>. QED
      BY <2>3, <3>1, RemuFacts, Zenon
  <2>5. tail' \in 0 .. VLMAX /\ tail' =< n /\ n' = n - tail' /\ vl' =< n'
    BY <1>1, <2>2, <2>3, <2>4
  <2>6. \E q \in 0 .. len : n' = q * vl'
    BY <1>1, <2>2, <2>4
  <2>7. BlockInv'
    BY <1>1, <1>2, <2>2, <2>5, <2>6 DEF BlockInv
  <2>. QED
    BY <1>1, <1>2, <1>3, <1>9, <2>2, <2>3, <2>5, <2>7
       DEF EnterBlocks, IInv, TypeOK, StripInv, WholeGroupsLeft, AlignInv,
           Aligning, AlignVariants, StripVariants, BlockVariants
<1>. QED
  BY <1>5, <1>6, <1>7, <1>8, <1>9

\* One pass through a loop body.
LEMMA CopyChunkInv == ASSUME IInv, CopyChunk PROVE IInv'
<1>. USE VLMAXAssumption, MaxLenAssumption DEF call
<1>1. /\ pc = "chunk" /\ s = d /\ d \in Nat /\ vl \in 0 .. VLMAX
      /\ len \in 0 .. MaxLen /\ n \in 0 .. len /\ tail \in 0 .. len
      /\ variant \in StripVariants \cup BlockVariants
      /\ StripVariants \cap BlockVariants = {}
  BY DEF IInv, TypeOK, CopyChunk, StripVariants, BlockVariants, AlignVariants
<1>2. /\ UNCHANGED << call, vl, tail >> /\ dest' = Stored(vl)
      /\ s' = s + vl /\ d' = d + vl
  BY DEF CopyChunk
<1>3. d + vl =< len
  <2>1. CASE variant \in StripVariants
    BY <1>1, <2>1 DEF IInv, StripInv
  <2>2. CASE variant \in BlockVariants
    BY <1>1, <2>2 DEF IInv, BlockInv
  <2>. QED
    BY <1>1, <2>1, <2>2
<1>4. /\ dest' \in [Cells -> 0 .. len - 1 \cup { Untouched }]
      /\ \A i \in Cells : dest'[i] = IF i < d' THEN i ELSE Untouched
  BY <1>1, <1>2, <1>3, StoreExtendsPrefix
<1>5. CASE variant \in StripVariants
  <2>1. n' = n - vl /\ pc' = "again"
    BY <1>5 DEF CopyChunk
  <2>2. n = len - d /\ vl =< n
    BY <1>1, <1>5 DEF IInv, StripInv
  <2>3. Copied' = d'
    BY <2>1 DEF Copied
  <2>4. WholeGroupsLeft'
    BY <1>1, <1>2, <2>1 DEF IInv, WholeGroupsLeft
  <2>5. AlignInv'
    <3>. SUFFICES ASSUME Aligning' PROVE Aligned' \/ n' < VLMAX
      BY <2>1 DEF AlignInv
    <3>1. Aligning /\ UNCHANGED << variant, daddr, saddr >>
      BY <1>2 DEF Aligning, AlignFrom
    <3>. DEFINE base == AddrToAlign
    <3>2. base \in Nat /\ base' = base
      BY <3>1 DEF IInv, TypeOK
    <3>3. CASE vl = ToAligned /\ d = 0
      <4>1. (base + ((-base) % VLMAX)) % VLMAX = 0
        BY <3>2, AddToAlign
      <4>2. d' + base' = base + ((-base) % VLMAX)
        BY <1>1, <1>2, <3>2, <3>3, AddToAlign DEF ToAligned
      <4>3. Aligned'
        BY <4>1, <4>2 DEF Aligned
      <4>. QED
        BY <4>3
    <3>4. CASE Aligned /\ vl \in LegalVl(n, VLMAX)
      <4>1. vl = VLMAX \/ n - vl < VLMAX
        BY <1>1, <3>4, LegalVlFacts
      <4>2. CASE vl = VLMAX
        <5>1. d + base \in Nat /\ (d + base) % VLMAX = 0
          BY <1>1, <3>2, <3>4 DEF Aligned
        <5>2. ((d + base) + VLMAX) % VLMAX = 0
          BY <5>1, AlignedStep
        <5>3. d' + base' = (d + base) + VLMAX
          BY <1>1, <1>2, <3>2, <4>2
        <5>4. Aligned'
          BY <5>2, <5>3 DEF Aligned
        <5>. QED
          BY <5>4
      <4>. QED
        BY <2>1, <4>1, <4>2
    <3>5. CASE n < VLMAX
      BY <1>1, <2>1, <3>5
    <3>. QED
      BY <1>1, <3>1, <3>3, <3>4, <3>5 DEF IInv, AlignInv
  <2>. QED
    BY <1>1, <1>2, <1>3, <1>4, <1>5, <2>1, <2>2, <2>3, <2>4, <2>5
       DEF IInv, TypeOK, StripInv, BlockInv
<1>6. CASE variant \in BlockVariants
  <2>1. n' = n /\ pc' = IF d' < n THEN "chunk" ELSE "tail"
    BY <1>1, <1>6 DEF CopyChunk
  <2>2. PICK q \in 0 .. len : n - d = q * vl
    BY <1>1, <1>6 DEF IInv, BlockInv
  <2>3. n + tail = len /\ tail =< VLMAX /\ vl =< n - d
    BY <1>1, <1>6 DEF IInv, BlockInv
  <2>4. Copied' = d'
    BY <2>1 DEF Copied
  <2>5. d' = n \/ vl =< n - d'
    BY <1>1, <1>2, <2>2, <2>3, BlocksLeft
  <2>6. d' < n => \E k \in 0 .. len : n - d' = k * vl
    BY <1>1, <1>2, <2>2, <2>3, BlocksLeft
  <2>7. BlockInv'
    <3>1. d' =< n /\ d' \in Nat
      BY <1>1, <1>2, <2>3
    <3>2. CASE d' < n
      <4>1. pc' = "chunk" /\ vl' =< n' - d'
        BY <1>1, <1>2, <2>1, <2>5, <3>1, <3>2
      <4>2. \E k \in 0 .. len' : n' - d' = k * vl'
        BY <1>2, <2>1, <2>6, <3>2
      <4>. QED
        BY <1>1, <1>2, <2>1, <2>3, <4>1, <4>2 DEF BlockInv
    <3>3. CASE d' = n
      BY <1>1, <1>2, <2>1, <2>3, <3>3 DEF BlockInv
    <3>. QED
      BY <1>1, <3>1, <3>2, <3>3
  <2>. QED
    BY <1>1, <1>2, <1>3, <1>4, <1>6, <2>1, <2>3, <2>4, <2>7
       DEF IInv, TypeOK, StripInv, WholeGroupsLeft, AlignInv, Aligning,
           StripVariants, BlockVariants, AlignVariants
<1>. QED
  BY <1>1, <1>5, <1>6

\* vsetvli for the next chunk.
LEMMA NextChunkInv == ASSUME IInv, NextChunk PROVE IInv'
<1>. USE VLMAXAssumption, MaxLenAssumption DEF call
<1>1. /\ pc = "again" /\ n # 0 /\ pc' = "chunk"
      /\ UNCHANGED << call, n, s, d, tail, dest >>
      /\ len \in 0 .. MaxLen /\ n \in 0 .. len
      /\ variant \in StripVariants /\ variant \notin BlockVariants
  BY DEF NextChunk, IInv, TypeOK, BlockInv, StripVariants, BlockVariants,
         AlignVariants
<1>2. Copied = d /\ Copied' = d
  BY <1>1 DEF Copied
<1>3. CASE variant = "vlmax"
  <2>1. vl' = VLMAX
    BY <1>3 DEF NextChunk
  <2>2. PICK q \in 0 .. len : n = q * VLMAX
    BY <1>1, <1>3 DEF IInv, WholeGroupsLeft
  <2>3. VLMAX =< n /\ q - 1 \in 0 .. len /\ n - VLMAX = (q - 1) * VLMAX
    BY <1>1, <2>2, OneChunkLess
  <2>4. WholeGroupsLeft'
    BY <1>1, <2>1, <2>3 DEF WholeGroupsLeft
  <2>. QED
    BY <1>1, <1>2, <1>3, <2>1, <2>3, <2>4
       DEF IInv, TypeOK, StripInv, BlockInv, AlignInv, Aligning, AlignVariants
<1>4. CASE variant # "vlmax"
  <2>1. vl' \in LegalVl(n, VLMAX)
    BY <1>4 DEF NextChunk
  <2>2. vl' \in 0 .. VLMAX /\ vl' =< n
    BY <1>1, <2>1, LegalVlFacts
  <2>3. Aligned' = Aligned
    BY <1>1 DEF Aligned
  <2>4. AlignInv'
    BY <1>1, <2>1, <2>3 DEF IInv, AlignInv, Aligning, AlignFrom
  <2>. QED
    BY <1>1, <1>2, <1>4, <2>2, <2>4
       DEF IInv, TypeOK, StripInv, BlockInv, WholeGroupsLeft
<1>. QED
  BY <1>3, <1>4

LEMMA ReturnInv == ASSUME IInv, Return PROVE IInv'
<1>1. /\ variant \notin BlockVariants /\ pc' = "done" /\ n = 0
      /\ UNCHANGED << call, n, s, d, vl, tail, dest >>
  BY DEF Return, IInv, BlockInv
<1>2. Copied = d /\ Copied' = d
  BY <1>1 DEF Copied, call, Return
<1>. QED
  BY <1>1, <1>2 DEF IInv, TypeOK, StripInv, WholeGroupsLeft, BlockInv,
                    AlignInv, Aligning, call

\* The last chunk of the block kernels.
LEMMA CopyTailInv == ASSUME IInv, CopyTail PROVE IInv'
<1>. USE VLMAXAssumption, MaxLenAssumption DEF call
<1>1. /\ pc = "tail" /\ pc' = "done" /\ variant \in BlockVariants
      /\ variant \notin StripVariants
      /\ UNCHANGED << call, n, s, d, tail >> /\ dest' = Stored(vl')
      /\ len \in 0 .. MaxLen /\ tail \in 0 .. len /\ d \in Nat
  BY DEF CopyTail, IInv, TypeOK, StripInv, StripVariants, BlockVariants,
         AlignVariants
<1>2. d = n /\ n + tail = len /\ tail =< VLMAX
  BY <1>1 DEF IInv, BlockInv
<1>3. vl' = tail
  BY <1>1, <1>2, LegalVlFacts DEF CopyTail
<1>4. /\ dest' \in [Cells -> 0 .. len - 1 \cup { Untouched }]
      /\ \A i \in Cells : dest'[i] = IF i < d + tail THEN i ELSE Untouched
  BY <1>1, <1>2, <1>3, StoreExtendsPrefix
<1>5. Copied' = d + tail
  BY <1>1, <1>3 DEF Copied
<1>. QED
  BY <1>1, <1>2, <1>3, <1>4, <1>5
     DEF IInv, TypeOK, StripInv, WholeGroupsLeft, BlockInv, AlignInv,
         Aligning, StripVariants, BlockVariants, AlignVariants

LEMMA NextInv == IInv /\ [Next]_vars => IInv'
<1>. SUFFICES ASSUME IInv, [Next]_vars PROVE IInv'
  OBVIOUS
<1>1. CASE UNCHANGED vars
  BY <1>1 DEF vars, call, IInv, TypeOK, StripInv, WholeGroupsLeft, BlockInv,
              AlignInv, Aligning, Aligned, ToAligned, AlignFrom, Copied
<1>2. CASE Terminating
  BY <1>1, <1>2 DEF Terminating
<1>. QED
  BY <1>1, <1>2, EnterInv, CopyChunkInv, NextChunkInv, ReturnInv, CopyTailInv
     DEF Next

\* The copied prefix is no longer than the copy, and all of it on return.
LEMMA CopiedFacts ==
  IInv => Copied \in 0 .. len /\ (pc = "done" => Copied = len)
BY MaxLenAssumption, VLMAXAssumption
   DEF IInv, TypeOK, StripInv, BlockInv, Copied, StripVariants, BlockVariants,
       AlignVariants

LEMMA Invariance == Init /\ [][Next]_vars => []IInv
BY InitInv, NextInv, PTL
-----------------------------------------------------------------------------
(* Theorems.                                                               *)

\* Every variable stays within its type, for every size of register group:
\* no counter or pointer of a kernel ever leaves 0 .. len.
THEOREM TypeCorrect == Spec => []TypeOK
<1>1. IInv => TypeOK
  BY DEF IInv
<1>. QED
  BY <1>1, Invariance, PTL DEF Spec

\* No kernel ever loads or stores beyond byte len, whatever vsetvli answers.
THEOREM AccessesInBounds == Spec => []InBounds
<1>1. IInv => InBounds
  BY MaxLenAssumption, VLMAXAssumption
     DEF IInv, TypeOK, StripInv, BlockInv, InBounds
<1>. QED
  BY <1>1, Invariance, PTL DEF Spec

\* The destination always holds a prefix of the source, untouched after it,
\* and on return the whole of it.
THEOREM CopiesPrefix == Spec => []PrefixCopied
<1>1. IInv => PrefixCopied
  BY CopiedFacts DEF IInv, PrefixCopied
<1>. QED
  BY <1>1, Invariance, PTL DEF Spec

\* The align kernels access every full register group at a multiple of
\* VLMAX.
THEOREM FullChunksAreAligned == Spec => []FullChunksAligned
<1>1. ASSUME IInv, pc = "chunk", vl = VLMAX, Aligning PROVE Aligned
  <2>1. ToAligned \in 0 .. VLMAX - 1
    BY <1>1, VLMAXAssumption, AddToAlign DEF IInv, TypeOK, ToAligned
  <2>2. vl =< n /\ n \in Nat
    BY <1>1, MaxLenAssumption
       DEF IInv, TypeOK, StripInv, Aligning, StripVariants
  <2>. QED
    BY <1>1, <2>1, <2>2, VLMAXAssumption DEF IInv, AlignInv
<1>2. IInv => FullChunksAligned
  BY <1>1 DEF FullChunksAligned, Aligning
<1>. QED
  BY <1>2, Invariance, PTL DEF Spec

\* Every step of a kernel is a step BlockCopy allows, or none at all.
THEOREM RefinesBlockCopy == Spec => Abstract!SafeSpec
<1>1. Init => Abstract!Init
  BY MaxLenAssumption, VLMAXAssumption
     DEF Init, Copied, Cells, Abstract!Init, Abstract!FirstBytes
<1>2. ASSUME IInv, IInv', [Next]_vars
      PROVE  [Abstract!Next]_Abstract!vars
  <2>1. dest = Abstract!FirstBytes(Copied) /\ dest' = Abstract!FirstBytes(Copied')
    BY <1>2 DEF IInv, TypeOK, Abstract!FirstBytes
  <2>2. UNCHANGED len
    BY <1>2
       DEF Next, EnterRvv, EnterAligning, EnterTooShortToAlign, EnterVlmax,
           EnterBlocks, CopyChunk, NextChunk, Return, CopyTail, Terminating,
           vars, call
  <2>3. Copied \in 0 .. len
    BY <1>2, CopiedFacts
  <2>4. Copied' \in 0 .. len' /\ (pc' = "done" => Copied' = len')
    <3>1. (IInv => Copied \in 0 .. len /\ (pc = "done" => Copied = len))'
      BY CopiedFacts, PTL
    <3>. QED
      BY <1>2, <3>1
  <2>5. CASE pc = "done"
    <3>1. UNCHANGED vars
      BY <1>2, <2>5
         DEF Next, EnterRvv, EnterAligning, EnterTooShortToAlign, EnterVlmax,
             EnterBlocks, CopyChunk, NextChunk, Return, CopyTail, Terminating,
             vars, call
    <3>. QED
      BY <3>1 DEF vars, call, Copied, Abstract!vars
  <2>6. CASE pc # "done"
    <3>1. d \in Nat /\ vl \in Nat /\ vl' \in Nat /\ Copied = d
      BY <1>2, <2>6, MaxLenAssumption, VLMAXAssumption DEF IInv, TypeOK, Copied
    <3>2. d' = d \/ d' = d + vl
      BY <1>2
         DEF Next, EnterRvv, EnterAligning, EnterTooShortToAlign, EnterVlmax,
             EnterBlocks, CopyChunk, NextChunk, Return, CopyTail, Terminating,
             vars, call
    <3>3. Copied =< Copied'
      BY <3>1, <3>2 DEF Copied
    <3>4. Copied' \in Copied .. len
      BY <2>2, <2>3, <2>4, <3>3
    <3>5. CASE pc' = "done"
      <4>1. (pc' = "done") = (Copied' = len)
        BY <2>2, <2>4, <3>5
      <4>. QED
        BY <2>1, <2>2, <2>6, <3>4, <4>1, Zenon DEF Abstract!Next, Abstract!Copy
    <3>6. CASE pc' # "done"
      <4>1. (pc' = "done") = FALSE
        BY <3>6
      <4>. QED
        BY <2>1, <2>2, <2>6, <3>4, <4>1, Zenon DEF Abstract!Next, Abstract!Copy
    <3>. QED
      BY <3>5, <3>6
  <2>. QED
    BY <2>5, <2>6
<1>. QED
  BY <1>1, <1>2, Invariance, PTL DEF Spec, Abstract!SafeSpec
=============================================================================
