--------------------------- MODULE RoutinesProofs ---------------------------
(***************************************************************************)
(* Proofs about the small functions, for registers, pages, words and       *)
(* numbers of every size and arguments of every length.                    *)
(*                                                                         *)
(* First that lanes stay apart, that strlen reads no page too far, and     *)
(* that what works on strips does each byte once; then that the functions  *)
(* of musl, memreverse, the kernels that work with tables and b64_encode   *)
(* store every byte, the right one and none outside, and that accesses are *)
(* aligned; that the kernels of hist count right; and last that usqrt,     *)
(* uxtoa and ftoa return the right number.                                 *)
(***************************************************************************)
EXTENDS Routines, Division, FiniteSetTheorems, SequenceTheorems, TLAPS

(***************************************************************************)
(* What vsetvli answers: no more than it is asked for or than there is,    *)
(* all of it where there is room, and at least half if not a full group.   *)
(***************************************************************************)
LEMMA Grants ==
  ASSUME grant \in Strip!Processors, NEW a \in 0 .. MaxLen
  PROVE  /\ grant[a] \in 0 .. a /\ grant[a] =< VLMAX
         /\ a > 0 => grant[a] > 0
         /\ a =< VLMAX => grant[a] = a
         /\ grant[a] = VLMAX \/ a =< 2 * grant[a]
<1>. USE VLMAXAssumption, MaxLenAssumption
<1>1. PICK c \in [Strip!Choices -> 0 .. VLMAX] :
        /\ \A x \in Strip!Choices : c[x] \in Strip!LegalVl(x, VLMAX)
        /\ grant = [x \in 0 .. MaxLen |->
                      IF x \in Strip!Choices THEN c[x] ELSE IF x < VLMAX THEN x ELSE VLMAX]
  BY DEF Strip!Processors
<1>2. CASE a \in Strip!Choices
  <2>1. a \in Nat /\ a > VLMAX /\ a < 2 * VLMAX
    BY <1>2 DEF Strip!Choices
  <2>2. grant[a] \in Strip!LegalVl(a, VLMAX)
    BY <1>1, <1>2
  <2>. QED  BY <2>1, <2>2 DEF Strip!LegalVl
<1>3. CASE a \notin Strip!Choices
  <2>1. a =< VLMAX \/ a >= 2 * VLMAX
    BY <1>3 DEF Strip!Choices
  <2>. QED  BY <1>1, <1>3, <2>1
<1>. QED  BY <1>2, <1>3

-----------------------------------------------------------------------------
(* One function runs.                                                      *)

(***************************************************************************)
(* A step is a step of the function that was called, which stays the one.  *)
(***************************************************************************)
LEMMA OneRuns ==
  ASSUME Next
  PROVE  /\ function' = function
         /\ \/ function \in Strip!Functions /\ Strip!Next /\ UNCHANGED << saddr, access >>
            \/ function = "memset_musl" /\ Musl!MemsetNext
            \/ function = "memcpy_musl" /\ Musl!MemcpyNext
            \/ function = "memreverse" /\ Reverse!Next
            \/ function = "strlen" /\ Length!Next
            \/ function \in Number!Functions /\ Number!Next
            \/ function = "hist" /\ Histo!Next
            \/ function \in Table!Functions /\ Table!TablesNext
            \/ function = "b64_encode" /\ Encode!EncodeNext
<1>1. CASE function \in Strip!Functions /\ Strip!Next /\ UNCHANGED << saddr, access >>
  BY <1>1 DEF Strip!Next, Strip!call, Strip!vars, Strip!EnterLoop, Strip!EnterAlign,
     Strip!EnterVlmax, Strip!EnterTail, Strip!EnterTail4x, Strip!Enter4xTail,
     Strip!EnterSwar, Strip!Strip, Strip!Chunk, Strip!WholeRound, Strip!Tail,
     Strip!SwarHead, Strip!SwarWord, Strip!SwarTail, Strip!RandByte, Strip!RandWord,
     Strip!RandRest, Strip!ScalarByte, Strip!ScalarReturn, Strip!Terminating
<1>2. CASE function \in Number!Functions /\ Number!Next
  BY <1>2 DEF Number!Next, Number!qvars, Number!Halve, Number!Decimal, Number!Digit,
     Number!Return, Number!Terminating
<1>3. CASE function \in Table!Functions /\ Table!TablesNext
  BY <1>3 DEF Table!TablesNext, Table!bvars, Table!LookUp, Table!Swap, Table!Widen,
     Table!StoreZeros, Table!StoreBytes, Table!ScalarElement
<1>. QED  BY <1>1, <1>2, <1>3 DEF Next

-----------------------------------------------------------------------------
(* hist: the lanes of a scatter.                                           *)

\* the chunk is part of what is left, and what is left is at the end of dist
ChunkInv ==
  /\ kernel \in Variants
  /\ p \in Nat /\ n \in Nat /\ vl \in 0 .. n
  /\ grant \in [0 .. p + n - 1 -> 0 .. Last + 1]

HistInv == function = "hist" => ChunkInv

LEMMA HistInit == Init => HistInv
<1>. SUFFICES ASSUME Init, function = "hist" PROVE ChunkInv
  BY DEF HistInv
<1>. USE LanesAssumption, LastAssumption
<1>1. Histo!Init
  BY DEF Init, Start, Strip!Functions, Number!Functions, Table!Functions
<1>2. PICK l \in 0 .. HistMaxLen : grant \in [0 .. l - 1 -> 0 .. Last + 1]
  BY <1>1 DEF Histo!Init
<1>3. Histo!Cardinality(0 .. l - 1) = l
  <2>1. Histo!Cardinality(0 .. l - 1) = Cardinality(0 .. l - 1)
    BY DEF Histo!Cardinality, Cardinality
  <2>. QED  BY <1>2, <2>1, FS_Interval
<1>4. n = l
  BY <1>1, <1>2, <1>3 DEF Histo!Init
<1>. QED  BY <1>1, <1>2, <1>4 DEF Histo!Init, ChunkInv

\* whatever vsetvli answers, it is no more than was asked for
LEMMA VlAtMostAvl ==
  ASSUME NEW avl \in Nat, NEW vlmax, NEW v \in Histo!LegalVl(avl, vlmax), vlmax \in Nat
  PROVE  v \in 0 .. avl
BY DEF Histo!LegalVl

LEMMA HistStep == HistInv /\ [Next]_vars => HistInv'
<1>. SUFFICES ASSUME HistInv, [Next]_vars, function' = "hist" PROVE ChunkInv'
  BY DEF HistInv
<1>. USE LanesAssumption, LastAssumption, VariantsAssumption DEF ChunkInv
<1>1. CASE UNCHANGED vars
  BY <1>1 DEF vars, HistInv
<1>2. CASE Next
  <2>1. ChunkInv /\ Histo!Next
    BY <1>2, OneRuns DEF HistInv, Strip!Functions, Number!Functions, Table!Functions
  <2>2. CASE Histo!NextChunk
    <3>1. Histo!Group \in Nat
      BY <2>1 DEF Histo!Group, Histo!Registers, Histo!DupVariants
    <3>2. vl' \in 0 .. n
      BY <2>1, <2>2, <3>1, VlAtMostAvl DEF Histo!NextChunk
    <3>. QED  BY <2>1, <2>2, <3>2 DEF Histo!NextChunk
  <2>3. CASE Histo!Advanced
    <3>1. p' = p + vl /\ n' = n - vl /\ vl' = 0
      BY <2>3 DEF Histo!Advanced, Histo!Advance
    <3>2. p' \in Nat /\ n' \in Nat /\ p' + n' - 1 = p + n - 1
      BY <2>1, <3>1
    <3>3. kernel' = kernel /\ grant' = grant
      BY <2>3 DEF Histo!Advanced
    <3>. QED  BY <2>1, <3>1, <3>2, <3>3
  <2>4. CASE UNCHANGED << kernel, grant, p, n, vl >>
    BY <2>1, <2>4
  <2>. QED
    BY <2>1, <2>2, <2>3, <2>4 DEF Histo!Next, Histo!vars, Histo!EnterEmpty,
       Histo!CountGroup, Histo!CountElement, Histo!CountRegister, Histo!LeaveLoop,
       Histo!Reduce, Histo!Terminating
<1>. QED  BY <1>1, <1>2

(***************************************************************************)
(* The cell number b * Lanes + l determines the lane, and two elements of  *)
(* one register have different lanes.                                      *)
(***************************************************************************)
LEMMA ChunkLanes == ASSUME HistInv, kernel # "dup_m4" PROVE LanesApart
<1>. SUFFICES ASSUME function = "hist", pc = "count", kernel \in Histo!DupVariants,
                     NEW l \in Histo!InRegister(tail), NEW k \in Histo!InRegister(tail),
                     Histo!Cell(l) = Histo!Cell(k)
              PROVE  l = k
  BY DEF LanesApart, Histo!LanesApart
<1>. USE LanesAssumption, LastAssumption
<1>1. /\ l \in 0 .. vl - 1 /\ k \in 0 .. vl - 1
      /\ l \div Lanes = k \div Lanes
  BY DEF Histo!InRegister
<1>2. ChunkInv /\ kernel # "dup_m4"
  BY DEF HistInv, ChunkInv
<1>3. /\ Histo!Cell(l) = Histo!Bin(p + l) * Lanes + (l % Lanes)
      /\ Histo!Cell(k) = Histo!Bin(p + k) * Lanes + (k % Lanes)
  BY <1>2 DEF Histo!Cell, Histo!LaneOffset
<1>4. p + l \in 0 .. p + n - 1 /\ p + k \in 0 .. p + n - 1
  BY <1>1, <1>2 DEF ChunkInv
<1>5. PICK a \in Nat, b \in Nat : a = Histo!Bin(p + l) /\ b = Histo!Bin(p + k)
  BY <1>2, <1>4 DEF Histo!Bin, ChunkInv
<1>6. PICK x \in Nat, y \in Nat : x = l /\ y = k
  BY <1>1
<1>7. x % Lanes \in 0 .. Lanes - 1 /\ y % Lanes \in 0 .. Lanes - 1
  BY <1>6
<1>8. x % Lanes = y % Lanes
  <2>1. (a * Lanes + (x % Lanes)) % Lanes = x % Lanes
    BY ONLY <1>5, <1>7, LanesAssumption, QuotientUnique
  <2>2. (b * Lanes + (y % Lanes)) % Lanes = y % Lanes
    BY ONLY <1>5, <1>7, LanesAssumption, QuotientUnique
  <2>. QED  BY <1>3, <1>5, <1>6, <2>1, <2>2
<1>9. x = (x \div Lanes) * Lanes + (x % Lanes) /\ y = (y \div Lanes) * Lanes + (y % Lanes)
  BY ONLY <1>6, LanesAssumption, Quotient
<1>. QED  BY ONLY <1>1, <1>6, <1>8, <1>9

(***************************************************************************)
(* For registers of every size, every number of bins and all distances:    *)
(* the kernels dup_m1 and dup_m2 never let two lanes of a scatter meet.    *)
(* (dup_m4, whose mask is wrong, does.)                                    *)
(***************************************************************************)
THEOREM LanesStayApart == "dup_m4" \notin Variants /\ Spec => []LanesApart
<1>1. SUFFICES ASSUME "dup_m4" \notin Variants PROVE Spec => []LanesApart
  OBVIOUS
<1>2. HistInv => LanesApart
  <2>1. HistInv /\ function = "hist" => kernel # "dup_m4"
    BY <1>1 DEF HistInv, ChunkInv
  <2>2. function # "hist" => LanesApart
    BY DEF LanesApart
  <2>. QED  BY <2>1, <2>2, ChunkLanes
<1>. QED  BY <1>2, HistInit, HistStep, PTL DEF Spec

-----------------------------------------------------------------------------
(* strlen: what is read, and what is returned.                             *)

(***************************************************************************)
(* The zero has not been passed; while the first page is read its rest is  *)
(* n bytes, and afterwards reads begin at multiples of a register group.   *)
(***************************************************************************)
PlaceInv ==
  /\ grant \in Strip!Processors
  /\ saddr \in 0 .. PageSize - 1 /\ len \in Nat /\ p \in Nat /\ n \in Nat
  /\ pc # "done" => p =< len
  /\ pc = "enter" /\ kernel = "rvv_page_aligned" => p = 0
  /\ pc = "page" => n > 0 /\ saddr + p + n = PageSize
  /\ pc = "groups" => (saddr + p) % VLMAX = 0

StrlenInv == function = "strlen" => PlaceInv /\ Length!ReadsInPages /\ Length!LengthRight

LEMMA StrlenInit == Init => StrlenInv
<1>. SUFFICES ASSUME Init, function = "strlen"
              PROVE  PlaceInv /\ Length!ReadsInPages /\ Length!LengthRight
  BY DEF StrlenInv
<1>1. Length!Init /\ grant \in Strip!Processors
  BY DEF Init, Start, Strip!Functions, Number!Functions, Table!Functions
<1>. QED
  BY <1>1, ArgumentsAssumption
     DEF Length!Init, PlaceInv, Length!ReadsInPages, Length!LengthRight

\* later bytes are in later pages
LEMMA PagesGrow ==
  ASSUME saddr \in Nat, NEW i \in Nat, NEW j \in Nat, i =< j
  PROVE  Length!Page(i) =< Length!Page(j)
<1>1. PICK x \in Nat, y \in Nat : x = saddr + i /\ y = saddr + j
  OBVIOUS
<1>2. x =< y
  BY <1>1
<1>3. x \div PageSize =< y \div PageSize
  BY ONLY <1>1, <1>2, PageAssumption, QuotientsGrow
<1>. QED  BY <1>1, <1>3 DEF Length!Page

\* a read that begins at a multiple of its size, and pages are multiples of it
LEMMA SamePage ==
  ASSUME NEW w \in Nat \ {0}, PageSize % w = 0,
         NEW x \in Nat, x % w = 0, NEW y \in x .. x + w - 1
  PROVE  y \div PageSize = x \div PageSize
<1>1. PageSize \in Nat \ {0}
  BY PageAssumption
<1>2. PICK q \in Nat, r \in 0 .. PageSize - 1 : q = x \div PageSize /\ x = q * PageSize + r
  BY ONLY <1>1, Quotient
<1>3. PICK a \in Nat : PageSize = a * w
  BY ONLY <1>1, MultipleIs, PageSize % w = 0, w \in Nat \ {0}
<1>4. PICK e \in Nat : e = (q + 1) * PageSize
  BY <1>1
<1>5. e % w = 0
  <2>1. e = ((q + 1) * a) * w
    BY <1>3, <1>4
  <2>2. (q + 1) * a \in Nat
    OBVIOUS
  <2>. QED  BY <2>1, <2>2, Multiple
<1>6. x < e /\ e = q * PageSize + PageSize
  <2>1. (q + 1) * PageSize = q * PageSize + PageSize /\ q * PageSize \in Nat
    BY ONLY <1>1, q \in Nat
  <2>. QED  BY ONLY <1>1, <1>2, <1>4, <2>1
<1>7. x + w =< e
  BY <1>4, <1>5, <1>6, MultiplesApart
<1>8. q * PageSize \in Nat
  BY <1>1
<1>9. y - q * PageSize \in 0 .. PageSize - 1
  BY <1>1, <1>2, <1>6, <1>7, <1>8
<1>10. PICK b \in 0 .. PageSize - 1 : y = q * PageSize + b
  BY <1>8, <1>9
<1>. QED  BY ONLY <1>1, <1>2, <1>10, QuotientUnique

\* an aligned read that begins before the end of the string
LEMMA AlignedRead ==
  ASSUME saddr \in Nat, len \in Nat, p \in Nat, p =< len,
         NEW w \in Nat \ {0}, PageSize % w = 0, (saddr + p) % w = 0,
         NEW i \in p .. p + w - 1
  PROVE  Length!Readable(i)
<1>1. PICK x \in Nat : x = saddr + p
  OBVIOUS
<1>2. PICK y \in x .. x + w - 1 : y = saddr + i
  BY <1>1
<1>3. y \div PageSize = x \div PageSize
  BY ONLY <1>1, <1>2, SamePage, PageSize % w = 0, (saddr + p) % w = 0, w \in Nat \ {0}
<1>. QED  BY <1>1, <1>2, <1>3, PagesGrow DEF Length!Readable, Length!Page

LEMMA StrlenStep == StrlenInv /\ [Next]_vars => StrlenInv'
<1>. SUFFICES ASSUME StrlenInv, [Next]_vars, function' = "strlen"
              PROVE  (PlaceInv /\ Length!ReadsInPages /\ Length!LengthRight)'
  BY DEF StrlenInv
<1>. USE VLMAXAssumption, WordAssumption, PageAssumption, MaxLenAssumption
<1>1. CASE UNCHANGED vars
  BY <1>1 DEF vars, StrlenInv, PlaceInv, Length!ReadsInPages, Length!LengthRight,
     Length!Readable, Length!Page
<1>2. CASE Next
  <2>1. PlaceInv /\ Length!ReadsInPages /\ Length!LengthRight /\ Length!Next
    BY <1>2, OneRuns DEF StrlenInv, Strip!Functions, Number!Functions, Table!Functions
  <2>. USE <2>1 DEF PlaceInv
  \* what is read is readable
  <2>2. ASSUME NEW k \in Nat, Length!Read(k), UNCHANGED << saddr, len >>,
               \A i \in p .. p + k - 1 : Length!Readable(i)
        PROVE  Length!ReadsInPages'
    BY <2>2 DEF Length!ReadsInPages, Length!Read, Length!Readable, Length!Page
  \* a byte is looked at
  <2>3. ASSUME NEW more \in { "enter", "tail" }, Length!ByteStep(more), pc # "done",
               kernel # "rvv_page_aligned"
        PROVE  (PlaceInv /\ Length!ReadsInPages /\ Length!LengthRight)'
    <3>1. \A i \in p .. p + 1 - 1 : Length!Readable(i)
      BY <2>3, PagesGrow DEF Length!Readable
    <3>2. Length!ReadsInPages'
      BY <2>2, <2>3, <3>1 DEF Length!ByteStep
    <3>. QED  BY <2>3, <3>2 DEF Length!ByteStep, Length!Found, Length!LengthRight
  <2>4. CASE Length!FaultOnlyFirst
    <3>1. PICK k \in { v \in 1 .. VLMAX : Length!Readable(p + v - 1) } :
            /\ Length!Read(k)
            /\ p' = p + k
            /\ IF Length!Found(k) THEN tail' = (p' + (len - p)) - k /\ pc' = "done"
                                  ELSE pc' = "loop" /\ UNCHANGED tail
      BY <2>4 DEF Length!FaultOnlyFirst
    <3>2. kernel = "rvv" /\ pc # "done" /\ UNCHANGED << kernel, grant, saddr, len, n >>
      BY <2>4 DEF Length!FaultOnlyFirst
    <3>3. ASSUME NEW i \in p .. p + k - 1 PROVE Length!Readable(i)
      <4>1. Length!Page(i) =< Length!Page(p + k - 1) /\ Length!Page(p + k - 1) =< Length!Page(len)
        BY <3>1, PagesGrow DEF Length!Readable
      <4>2. Length!Page(i) \in Int /\ Length!Page(p + k - 1) \in Int /\ Length!Page(len) \in Int
        BY <3>1 DEF Length!Page
      <4>. QED  BY <4>1, <4>2 DEF Length!Readable
    <3>4. Length!ReadsInPages'
      BY <2>2, <3>1, <3>2, <3>3
    <3>. QED  BY <3>1, <3>2, <3>4 DEF Length!Found, Length!LengthRight
  <2>5. CASE Length!EnterPage
    <3>1. n' = PageSize - saddr /\ n' > 0 /\ p = 0
      BY <2>5 DEF Length!EnterPage, Length!PageRest
    <3>. QED
      BY <2>5, <3>1 DEF Length!EnterPage, Length!ReadsInPages, Length!LengthRight,
         Length!Readable, Length!Page
  <2>6. CASE Length!ScanPage
    <3>1. PICK k : k = grant[n]
      OBVIOUS
    <3>2. n \in 0 .. MaxLen /\ pc = "page" /\ UNCHANGED << kernel, grant, saddr, len >>
      BY <2>6 DEF Length!ScanPage
    <3>3. k \in 1 .. n
      BY <3>1, <3>2, Grants
    <3>4. /\ Length!Read(k) /\ p' = p + k
          /\ IF Length!Found(k) THEN tail' = p' - k + (len - p) /\ pc' = "done" /\ UNCHANGED n
             ELSE /\ n' = n - k /\ UNCHANGED tail
                  /\ pc' = IF n - k = 0 THEN "groups" ELSE "page"
      BY <2>6, <3>1 DEF Length!ScanPage
    <3>5. ASSUME NEW i \in p .. p + k - 1 PROVE Length!Readable(i)
      <4>1. PICK z \in 0 .. PageSize - 1 : z = saddr + i
        BY <3>2, <3>3
      <4>2. (0 * PageSize + z) \div PageSize = 0
        BY ONLY <4>1, PageAssumption, QuotientUnique, 0 \in Nat
      <4>3. Length!Page(i) = 0
        BY <4>1, <4>2 DEF Length!Page
      <4>4. Length!Page(len) \in Nat
        BY DEF Length!Page
      <4>. QED  BY <4>3, <4>4 DEF Length!Readable
    <3>6. Length!ReadsInPages'
      BY <2>2, <3>2, <3>3, <3>4, <3>5
    <3>7. CASE Length!Found(k)
      BY <3>2, <3>3, <3>4, <3>6, <3>7 DEF Length!Found, Length!LengthRight
    <3>8. CASE ~ Length!Found(k)
      <4>1. p' =< len /\ n' \in Nat /\ saddr + p' + n' = PageSize /\ p' \in Nat
        BY <3>2, <3>3, <3>4, <3>8 DEF Length!Found
      <4>2. n' = 0 => saddr + p' = PageSize
        <5>1. saddr \in Nat
          OBVIOUS
        <5>. QED  BY ONLY <4>1, <5>1
      <4>. QED  BY <3>2, <3>3, <3>4, <3>6, <3>8, <4>1, <4>2 DEF Length!LengthRight
    <3>. QED  BY <3>7, <3>8
  <2>7. CASE Length!ScanGroup
    <3>1. pc = "groups" /\ p' = p + VLMAX /\ UNCHANGED << kernel, grant, saddr, len, n >>
      BY <2>7 DEF Length!ScanGroup
    <3>2. \A i \in p .. p + VLMAX - 1 : Length!Readable(i)
      BY <3>1, AlignedRead
    <3>3. Length!ReadsInPages'
      BY <2>2, <2>7, <3>1, <3>2 DEF Length!ScanGroup
    <3>4. (saddr + p') % VLMAX = 0
      <4>1. PICK x \in Nat : x = saddr + p
        OBVIOUS
      <4>2. (x + VLMAX) % VLMAX = 0
        BY ONLY <3>1, <4>1, PlaceInv, VLMAXAssumption, NextMultiple DEF PlaceInv
      <4>. QED  BY <3>1, <4>1, <4>2
    <3>. QED
      BY <2>7, <3>1, <3>3, <3>4 DEF Length!ScanGroup, Length!Found, Length!LengthRight
  <2>8. CASE Length!MuslWord
    <3>1. /\ kernel = "musl" /\ pc # "done" /\ (saddr + p) % Word = 0
          /\ UNCHANGED << kernel, grant, saddr, len, n, tail >>
      BY <2>8 DEF Length!MuslWord, Length!AtWord
    <3>2. \A i \in p .. p + Word - 1 : Length!Readable(i)
      <4>1. saddr \in Nat /\ len \in Nat /\ p \in Nat /\ p =< len
        BY <3>1
      <4>. QED  BY ONLY <3>1, <4>1, WordAssumption, PageAssumption, AlignedRead
    <3>3. Length!ReadsInPages'
      BY <2>2, <2>8, <3>1, <3>2 DEF Length!MuslWord
    <3>. QED
      BY <2>8, <3>1, <3>3 DEF Length!MuslWord, Length!Found, Length!LengthRight
  <2>9. CASE Length!ScanBytes \/ Length!MuslHead \/ Length!MuslTail
    BY <2>3, <2>9 DEF Length!ScanBytes, Length!MuslHead, Length!MuslTail
  <2>10. CASE Length!Terminating
    BY <2>10 DEF Length!Terminating, Length!lvars, Length!ReadsInPages, Length!LengthRight,
       Length!Readable, Length!Page
  <2>. QED
    BY <2>4, <2>5, <2>6, <2>7, <2>8, <2>9, <2>10 DEF Length!Next
<1>. QED  BY <1>1, <1>2

(***************************************************************************)
(* For register groups, words and pages of every size (the page a multiple *)
(* of the other two) and every string: no strlen kernel reads a page after *)
(* the one the string ends in.                                             *)
(***************************************************************************)
THEOREM NoPageTooFar == Spec => []ReadsInPages
<1>1. StrlenInv => ReadsInPages
  BY DEF StrlenInv, ReadsInPages
<1>. QED  BY <1>1, StrlenInit, StrlenStep, PTL DEF Spec

(***************************************************************************)
(* And what they return is the length of the string.                       *)
(***************************************************************************)
THEOREM LengthIsRight == Spec => [](function = "strlen" => Length!LengthRight)
<1>1. StrlenInv => (function = "strlen" => Length!LengthRight)
  BY DEF StrlenInv
<1>. QED  BY <1>1, StrlenInit, StrlenStep, PTL DEF Spec

-----------------------------------------------------------------------------
(* memset, utf8_count and memrand: every byte once.                        *)

StripPcs == { "enter", "strip", "chunk", "round", "tail", "head", "words", "bytes", "done" }

\* the bytes before p have been handled once, and no others
TouchedInv ==
  /\ len \in 0 .. MaxLen /\ p \in 0 .. len
  /\ touched = [i \in Strip!Cells |-> IF i < p THEN 1 ELSE 0]

(***************************************************************************)
(* The chunk that is handled next is there.  A kernel that aligns comes to *)
(* an aligned address, or is about to finish; what vlmax has left after    *)
(* its chunk is whole groups.                                              *)
(***************************************************************************)
ChunkPlace ==
  /\ p + n = len /\ vl =< n /\ vl =< VLMAX
  /\ kernel = "align" => \/ p = 0 /\ vl = Strip!Aligning
                         \/ vl = grant[n] /\ ((addr + p) % VLMAX = 0 \/ n < VLMAX)
  /\ kernel # "align" => kernel = "vlmax" /\ (n - vl) % VLMAX = 0

(***************************************************************************)
(* A round is there, and for the kernels that count bytes in whole rounds  *)
(* p is at the beginning of one; all is zero if vl is.                     *)
(***************************************************************************)
RoundPlace ==
  IF kernel = "4x_tail"
    THEN function = "utf8_count" /\ vl = VLMAX /\ p + n = len /\ p + 4 * VLMAX =< len
    ELSE /\ kernel \in { "tail", "cap", "tail_4x" }
         /\ vl =< VLMAX /\ n + tail = len
         /\ IF vl = 0
              THEN n = 0 /\ tail = 0 /\ p = 0
              ELSE /\ n % Strip!Round(vl) = 0 /\ p % Strip!Round(vl) = 0
                   /\ p < n /\ tail < Strip!Round(vl)

PlacesInv ==
  /\ pc = "enter" => p + n = len /\ (kernel \notin { "scalar", "memrand" } => p = 0)
  /\ pc \in { "strip", "bytes" } => p + n = len
  /\ pc = "chunk" => ChunkPlace
  /\ pc = "round" => RoundPlace
  /\ pc = "tail"  => p + tail = len /\ tail =< VLMAX
  /\ pc = "head"  => /\ p = 0 /\ vl + n = len /\ tail = n % Word
                     /\ n > 0 => (addr + vl) % Word = 0
  /\ pc = "words" => p + n * Word + tail = len /\ (n > 0 => Strip!AtWord)
  /\ pc = "done"  => p = len

(***************************************************************************)
(* memset has enough elements filled: a full group, or as many as are left,*)
(* or what vsetvli has answered to the question that it is asked again.    *)
(***************************************************************************)
FilledInv ==
  function = "memset" =>
    /\ pc = "strip" => filled = VLMAX \/ n =< filled \/ filled = grant[n]
    /\ pc = "chunk" => filled = VLMAX
    /\ pc = "round" => filled = vl /\ (kernel = "tail_4x" => vl = VLMAX \/ tail =< vl)
    /\ pc = "tail"  => tail =< filled

StripTypes ==
  /\ function \in Strip!Functions /\ kernel \in Strip!Kernels(function)
  /\ grant \in Strip!Processors /\ addr \in Nat /\ pc \in StripPcs
  /\ n \in Nat /\ vl \in Nat /\ tail \in Nat /\ quarter \in 0 .. 3 /\ filled \in Nat

OnceInv == StripTypes /\ TouchedInv /\ PlacesInv /\ FilledInv

StripInv == function \in Strip!Functions => OnceInv

LEMMA StripInit == Init => StripInv
<1>. SUFFICES ASSUME Init, function \in Strip!Functions PROVE OnceInv
  BY DEF StripInv
<1>. USE VLMAXAssumption, MaxLenAssumption, WordAssumption
<1>1. Strip!Init
  BY DEF Init, Start, Strip!Functions, Number!Functions, Table!Functions
<1>2. addr \in Nat
  BY <1>1 DEF Strip!Init
<1>3. TouchedInv
  BY <1>1 DEF Strip!Init, TouchedInv, Strip!Cells
<1>. QED
  BY <1>1, <1>2, <1>3 DEF Strip!Init, OnceInv, StripTypes, PlacesInv, FilledInv, StripPcs, TouchedInv

\* k more bytes are handled
LEMMA Handled ==
  ASSUME TouchedInv, NEW k \in Nat, p + k =< len, Strip!Handle(k), len' = len
  PROVE  TouchedInv' /\ p' = p + k
<1>1. p' = p + k /\ p' \in 0 .. len
  BY DEF Strip!Handle, TouchedInv
<1>2. Strip!Cells \subseteq Nat
  BY VLMAXAssumption, MaxLenAssumption DEF Strip!Cells
<1>3. touched' = [i \in Strip!Cells |-> IF i < p' THEN 1 ELSE 0]
  <2>1. ASSUME NEW i \in Strip!Cells
        PROVE  (IF i \in p .. p + k - 1 THEN touched[i] + 1 ELSE touched[i])
                 = IF i < p' THEN 1 ELSE 0
    <3>1. i \in Nat /\ p \in Nat /\ touched[i] = IF i < p THEN 1 ELSE 0
      BY <1>2 DEF TouchedInv
    <3>. QED  BY <1>1, <3>1
  <2>. QED  BY <2>1 DEF Strip!Handle
<1>. QED  BY <1>1, <1>3 DEF TouchedInv, Strip!Cells

\* the answer to the first question
LEMMA FirstAnswer ==
  ASSUME StripTypes, n \in 0 .. MaxLen
  PROVE  /\ Strip!FirstVl \in 0 .. n /\ Strip!FirstVl =< VLMAX
         /\ n > 0 => Strip!FirstVl > 0
         /\ function = "memset" => Strip!FirstVl = grant[n]
<1>1. function = "memset" => kernel # "cap"
  BY DEF StripTypes, Strip!Kernels
<1>2. CASE kernel = "cap" /\ n > CapBytes
  <2>1. CapBytes \in 0 .. MaxLen /\ CapBytes \in Nat \ {0}
    BY <1>2, CapAssumption, MaxLenAssumption
  <2>2. grant[CapBytes] \in 0 .. CapBytes /\ grant[CapBytes] =< VLMAX /\ grant[CapBytes] > 0
    BY <2>1, Grants DEF StripTypes
  <2>. QED  BY <1>1, <1>2, <2>1, <2>2 DEF Strip!FirstVl
<1>3. CASE ~ (kernel = "cap" /\ n > CapBytes)
  <2>1. Strip!FirstVl = grant[n]
    BY <1>3 DEF Strip!FirstVl
  <2>. QED  BY <2>1, Grants DEF StripTypes
<1>. QED  BY <1>2, <1>3

\* the first address of which the remainder is zero
LEMMA UpToMultiple ==
  ASSUME NEW w \in Nat \ {0}, NEW x \in Nat
  PROVE  /\ (x + ((-x) % w)) % w = 0 /\ (-x) % w \in 0 .. w - 1
         /\ (x + (w - (x % w))) % w = 0 /\ w - (x % w) \in 1 .. w
<1>1. PICK q \in Nat, r \in 0 .. w - 1 : r = x % w /\ x = q * w + r
  BY Quotient
<1>2. PICK y \in Int : y = -x
  OBVIOUS
<1>3. y % w \in 0 .. w - 1 /\ y = w * (y \div w) + (y % w) /\ y \div w \in Int
  BY ONLY w \in Nat \ {0}, y \in Int
<1>4. PICK u \in Int, v \in 0 .. w - 1 : v = y % w /\ y = w * u + v
  BY <1>3
<1>5. q * w \in Int /\ w * u \in Int
  OBVIOUS
<1>6. x + v = (-u) * w
  BY <1>2, <1>4, <1>5
<1>7. -u \in Nat
  <2>1. ASSUME u > 0 PROVE w * u >= w
    <3>1. PICK k \in Nat : u = k + 1
      <4>1. u - 1 \in Nat /\ u = (u - 1) + 1
        BY <2>1
      <4>. QED  BY <4>1
    <3>2. w * u = w * k + w /\ w * k \in Nat
      BY <3>1
    <3>. QED  BY <3>2
  <2>. QED  BY <1>2, <1>4, <1>5, <2>1
<1>8. x + (w - r) = (q + 1) * w
  BY <1>1, <1>5
<1>9. (x + v) % w = 0 /\ (x + (w - r)) % w = 0
  <2>1. ((-u) * w) % w = 0 /\ ((q + 1) * w) % w = 0
    BY <1>7, Multiple
  <2>. QED  BY <1>6, <1>8, <2>1
<1>. QED  BY <1>1, <1>2, <1>4, <1>9

\* the kernels of each function
LEMMA KernelsOf ==
  ASSUME StripTypes
  PROVE  /\ function = "memset" => kernel \in { "rvv", "align", "vlmax", "tail", "tail_4x", "scalar" }
         /\ kernel = "memrand" => function = "memrand"
         /\ function = "memrand" => kernel = "memrand"
         /\ kernel \in { "cap", "4x", "4x_tail", "swar" } => function = "utf8_count"
BY DEF StripTypes, Strip!Functions, Strip!Kernels

\* nothing is handled
LEMMA NoneHandled == TouchedInv /\ UNCHANGED << len, p, touched >> => TouchedInv'
BY DEF TouchedInv, Strip!Cells

\* StripTypes for the next state, once the numbers are known
LEMMA TypesKept ==
  ASSUME StripTypes, UNCHANGED << function, kernel, grant, addr >>, pc' \in StripPcs,
         n' \in Nat, vl' \in Nat, tail' \in Nat, quarter' \in 0 .. 3, filled' \in Nat
  PROVE  StripTypes'
BY DEF StripTypes

LEMMA EnterKeeps ==
  ASSUME OnceInv, Strip!EnterLoop \/ Strip!EnterAlign \/ Strip!EnterVlmax
  PROVE  OnceInv'
<1>. USE VLMAXAssumption, MaxLenAssumption DEF OnceInv
<1>1. /\ pc = "enter" /\ n = len /\ p = 0 /\ n \in 0 .. MaxLen
      /\ UNCHANGED << function, kernel, grant, addr, len, n, p, tail, quarter, touched >>
      /\ Strip!Fill(VLMAX)
  <2>1. /\ pc = "enter" /\ kernel \in { "rvv", "4x", "align", "vlmax" }
        /\ UNCHANGED << function, kernel, grant, addr, len, n, p, tail, quarter, touched >>
        /\ Strip!Fill(VLMAX)
    BY DEF Strip!EnterLoop, Strip!EnterAlign, Strip!EnterVlmax, Strip!call
  <2>2. p + n = len /\ p = 0 /\ len \in 0 .. MaxLen /\ n \in Nat
    BY <2>1 DEF PlacesInv, TouchedInv, StripTypes
  <2>. QED  BY <2>1, <2>2
<1>2. TouchedInv'
  BY <1>1, NoneHandled
<1>3. filled' \in Nat /\ (function = "memset" => filled' = VLMAX)
  BY <1>1 DEF Strip!Fill
<1>4. CASE Strip!EnterLoop
  <2>1. pc' = "strip" /\ vl' = vl
    BY <1>4 DEF Strip!EnterLoop
  <2>2. StripTypes'
    BY <1>1, <1>3, <2>1, TypesKept DEF StripTypes, StripPcs
  <2>. QED  BY <1>1, <1>2, <1>3, <2>1, <2>2 DEF PlacesInv, FilledInv
<1>5. CASE Strip!EnterAlign
  <2>1. kernel = "align" /\ Strip!Aligning \in 0 .. VLMAX - 1
    BY <1>5, UpToMultiple DEF Strip!EnterAlign, Strip!Aligning, StripTypes
  <2>2. n < VLMAX => vl' = n /\ vl' = grant[n] /\ pc' = IF n = 0 THEN "done" ELSE "chunk"
    BY <1>1, <1>5, Grants DEF Strip!EnterAlign, StripTypes
  <2>3. ~ (n < VLMAX) => vl' = Strip!Aligning /\ pc' = "chunk"
    BY <1>1, <1>5, <2>1, Grants DEF Strip!EnterAlign, StripTypes
  <2>4. vl' \in Nat /\ pc' \in { "done", "chunk" } /\ vl' =< n /\ vl' =< VLMAX
    BY <1>1, <2>1, <2>2, <2>3
  <2>5. StripTypes'
    BY <1>1, <1>3, <2>4, TypesKept DEF StripTypes, StripPcs
  <2>6. pc' = "chunk" => ChunkPlace'
    BY <1>1, <2>1, <2>2, <2>3, <2>4 DEF ChunkPlace, Strip!Aligning
  <2>7. pc' = "done" => p' = len'
    BY <1>1, <2>2, <2>3
  <2>8. PlacesInv' /\ FilledInv'
    BY <1>1, <1>3, <2>4, <2>6, <2>7 DEF PlacesInv, FilledInv
  <2>. QED  BY <1>2, <2>5, <2>8
<1>6. CASE Strip!EnterVlmax
  <2>1. PICK m \in 0 .. VLMAX - 1, q \in Nat : m = n % VLMAX /\ n = q * VLMAX + m
    <3>1. n \in Nat
      BY <1>1
    <3>. QED  BY ONLY <3>1, VLMAXAssumption, Quotient
  <2>2. m =< n /\ n - m = q * VLMAX
    <3>1. q * VLMAX \in Nat
      OBVIOUS
    <3>. QED  BY <1>1, <2>1, <3>1
  <2>3. vl' = m /\ pc' = "chunk" /\ kernel = "vlmax"
    BY <1>1, <1>6, <2>1, <2>2, Grants DEF Strip!EnterVlmax, Strip!Masked, StripTypes
  <2>4. (n - m) % VLMAX = 0
    BY <2>2, Multiple
  <2>5. StripTypes'
    BY <1>1, <1>3, <2>3, TypesKept DEF StripTypes, StripPcs
  <2>6. ChunkPlace'
    BY <1>1, <2>1, <2>2, <2>3, <2>4 DEF ChunkPlace
  <2>. QED  BY <1>1, <1>2, <1>3, <2>3, <2>5, <2>6 DEF PlacesInv, FilledInv
<1>. QED  BY <1>4, <1>5, <1>6

\* whole rounds of r bytes, and the remainder
LEMMA Remainder ==
  ASSUME NEW x \in Nat, NEW r \in Nat
  PROVE  /\ Strip!Remu(x, r) \in 0 .. x
         /\ r > 0 => Strip!Remu(x, r) < r /\ (x - Strip!Remu(x, r)) % r = 0
         /\ r > 0 /\ x >= r => x - Strip!Remu(x, r) > 0
<1>1. CASE r = 0
  BY <1>1 DEF Strip!Remu
<1>2. CASE r > 0
  <2>1. r \in Nat \ {0}
    BY <1>2
  <2>2. PICK q \in Nat, m \in 0 .. r - 1 : m = x % r /\ x = q * r + m
    BY <2>1, Quotient
  <2>3. Strip!Remu(x, r) = m
    BY <1>2, <2>2 DEF Strip!Remu
  <2>4. q * r \in Nat /\ x - m = q * r
    BY <2>1, <2>2
  <2>5. (x - m) % r = 0
    BY <2>1, <2>4, Multiple
  <2>. QED  BY ONLY <1>2, <2>2, <2>3, <2>4, <2>5, x \in Nat, r \in Nat
<1>. QED  BY <1>1, <1>2

\* zero is at the beginning of a round
LEMMA ZeroRound == ASSUME NEW r \in Nat \ {0} PROVE 0 % r = 0
<1>1. (0 * r) % r = 0
  BY Multiple
<1>. QED  BY <1>1

LEMMA EnterRoundsKeeps ==
  ASSUME OnceInv, Strip!EnterTail \/ Strip!EnterTail4x \/ Strip!Enter4xTail
  PROVE  OnceInv'
<1>. USE VLMAXAssumption, MaxLenAssumption
<1>1. /\ pc = "enter" /\ n = len /\ p = 0 /\ n \in 0 .. MaxLen
      /\ UNCHANGED << function, kernel, grant, addr, len, p, quarter, touched >>
  <2>1. /\ pc = "enter" /\ kernel \in { "tail", "cap", "tail_4x", "4x_tail" }
        /\ UNCHANGED << function, kernel, grant, addr, len, p, quarter, touched >>
    BY DEF Strip!EnterTail, Strip!EnterTail4x, Strip!Enter4xTail, Strip!call
  <2>2. p + n = len /\ p = 0 /\ len \in 0 .. MaxLen /\ n \in Nat
    BY <2>1 DEF OnceInv, PlacesInv, TouchedInv, StripTypes
  <2>. QED  BY <2>1, <2>2
<1>2. TouchedInv'
  BY <1>1, NoneHandled DEF OnceInv
<1>3. StripTypes
  BY DEF OnceInv
<1>4. CASE Strip!EnterTail \/ Strip!EnterTail4x
  <2>1. PICK v \in Nat : v = Strip!FirstVl
    BY <1>1, <1>3, FirstAnswer
  <2>2. /\ v =< n /\ v =< VLMAX /\ (n > 0 => v > 0) /\ (function = "memset" => v = grant[n])
    BY <1>1, <1>3, <2>1, FirstAnswer
  <2>3. /\ vl' = v /\ filled' \in Nat /\ (function = "memset" => filled' = v)
    BY <1>4, <2>1 DEF Strip!EnterTail, Strip!EnterTail4x, Strip!Fill
  <2>4. PICK r \in Nat : r = Strip!Round(v) /\ r \in { v, 4 * v }
    BY DEF Strip!Round
  <2>5. PICK t \in 0 .. n : t = Strip!Remu(n, r)
    BY <1>1, Remainder
  <2>6. /\ r > 0 => t < r /\ (n - t) % r = 0
        /\ r > 0 /\ n >= r => n - t > 0
    BY <1>1, <2>5, Remainder
  <2>7. CASE pc' = "round"
    <3>1. /\ tail' = t /\ n' = n - t
          /\ kernel \in { "tail", "cap", "tail_4x" }
          /\ kernel # "tail_4x" => r = v
          /\ kernel = "tail_4x" => r = 4 * v /\ n >= r
      <4>1. CASE Strip!EnterTail
        <5>1. kernel \in { "tail", "cap" } /\ tail' = Strip!Remu(n, v) /\ n' = n - tail'
          BY <2>1, <4>1 DEF Strip!EnterTail
        <5>. QED  BY <2>4, <2>5, <5>1 DEF Strip!Round
      <4>2. CASE Strip!EnterTail4x
        <5>1. kernel = "tail_4x" /\ ~ (n < r) /\ tail' = Strip!Remu(n, r) /\ n' = n - tail'
          BY <2>1, <2>4, <2>7, <4>2 DEF Strip!EnterTail4x
        <5>2. r = 4 * v
          BY <2>4, <5>1 DEF Strip!Round
        <5>. QED  BY <1>1, <2>5, <5>1, <5>2
      <4>. QED  BY <1>4, <4>1, <4>2
    <3>2. n >= r /\ n' \in Nat /\ tail' \in Nat
      BY <1>1, <2>2, <3>1
    <3>3. v > 0 => 0 % r = 0
      BY <2>4, ZeroRound
    <3>4. Strip!Round(vl)' = r
      BY <1>1, <2>3, <2>4 DEF Strip!Round
    <3>5. RoundPlace'
      <4>1. v = 0 => n = 0 /\ t = 0
        BY <1>1, <2>2
      <4>2. v > 0 => (n - t) % r = 0 /\ t < r /\ 0 < n - t
        BY <2>4, <2>6, <3>2
      <4>. QED
        BY <1>1, <2>2, <2>3, <3>1, <3>3, <3>4, <4>1, <4>2 DEF RoundPlace
    <3>6. StripTypes'
      BY <1>1, <1>3, <2>3, <2>7, <3>2, TypesKept DEF StripTypes, StripPcs
    <3>7. function = "memset" /\ kernel = "tail_4x" => v = VLMAX \/ t =< v
      <4>1. n \in 0 .. MaxLen /\ grant \in Strip!Processors
        BY <1>1, <1>3 DEF StripTypes
      <4>2. grant[n] = VLMAX \/ n =< 2 * grant[n]
        BY ONLY <4>1, Grants
      <4>3. ASSUME function = "memset", kernel = "tail_4x" PROVE v = VLMAX \/ t =< v
        BY <1>1, <2>2, <3>1, <4>2, <4>3
      <4>. QED  BY <4>3
    <3>8. PlacesInv' /\ FilledInv'
      BY <1>1, <2>3, <2>7, <3>1, <3>5, <3>7 DEF PlacesInv, FilledInv
    <3>. QED  BY <1>2, <3>6, <3>8 DEF OnceInv
  <2>8. CASE pc' # "round"
    <3>1. pc' = "strip" /\ n' = n /\ tail' = tail
      BY <1>4, <2>8 DEF Strip!EnterTail, Strip!EnterTail4x
    <3>2. StripTypes'
      BY <1>1, <1>3, <2>3, <3>1, TypesKept DEF StripTypes, StripPcs
    <3>3. PlacesInv' /\ FilledInv'
      BY <1>1, <2>2, <2>3, <3>1 DEF PlacesInv, FilledInv
    <3>. QED  BY <1>2, <3>2, <3>3 DEF OnceInv
  <2>. QED  BY <2>7, <2>8
<1>5. CASE Strip!Enter4xTail
  <2>1. /\ kernel = "4x_tail" /\ function = "utf8_count"
        /\ vl' = VLMAX /\ n' = n /\ tail' = tail /\ filled' = filled
        /\ pc' = IF len >= 4 * VLMAX THEN "round" ELSE IF n = 0 THEN "done" ELSE "strip"
    BY <1>3, <1>5, KernelsOf
       DEF Strip!Enter4xTail, Strip!RoomForRound, Strip!Round
  <2>2. StripTypes'
    BY <1>1, <1>3, <2>1, TypesKept DEF StripTypes, StripPcs
  <2>3. PlacesInv' /\ FilledInv'
    BY <1>1, <2>1 DEF PlacesInv, FilledInv, RoundPlace
  <2>. QED  BY <1>2, <2>2, <2>3 DEF OnceInv
<1>. QED  BY <1>4, <1>5

\* n is no more than MaxLen
LEMMA Asked ==
  ASSUME TouchedInv, n \in Nat, p + n = len
  PROVE  n \in 0 .. MaxLen /\ p \in Nat /\ p =< len
BY MaxLenAssumption DEF TouchedInv

LEMMA StripKeeps == ASSUME OnceInv, Strip!Strip PROVE OnceInv'
<1>. USE VLMAXAssumption, MaxLenAssumption
<1>1. StripTypes /\ TouchedInv
  BY DEF OnceInv
<1>2. /\ pc = "strip" /\ UNCHANGED << function, kernel, grant, addr, len, tail, filled >>
      /\ vl' = grant[n] /\ Strip!Handle(vl') /\ n' = n - vl'
      /\ quarter' = IF kernel = "4x" THEN (quarter + 1) % 4 ELSE 0
      /\ pc' = IF quarter' = 0 /\ n' = 0 THEN "done" ELSE "strip"
  BY DEF Strip!Strip, Strip!call, Strip!Granted
<1>3. n \in 0 .. MaxLen /\ p + n = len /\ p \in Nat
  BY <1>1, <1>2, Asked DEF OnceInv, PlacesInv, StripTypes
<1>4. /\ vl' \in 0 .. n /\ vl' =< VLMAX
      /\ vl' = VLMAX \/ n =< 2 * vl'
  <2>1. grant \in Strip!Processors
    BY <1>1 DEF StripTypes
  <2>. QED  BY <1>2, <1>3, <2>1, Grants
<1>5. p + vl' =< len /\ vl' \in Nat /\ p \in Nat
  BY ONLY <1>3, <1>4, MaxLenAssumption
<1>6. TouchedInv' /\ p' = p + vl'
  <2>1. PICK k \in Nat : k = vl'
    BY <1>5
  <2>2. p + k =< len /\ Strip!Handle(k) /\ len' = len
    BY <1>2, <1>5, <2>1
  <2>3. TouchedInv' /\ p' = p + k
    BY ONLY <1>1, <2>1, <2>2, Handled
  <2>. QED  BY <2>1, <2>3
<1>7. quarter' \in 0 .. 3
  BY <1>1, <1>2 DEF StripTypes
<1>8. n' \in Nat /\ p' + n' = len /\ n' =< n
  BY <1>2, <1>3, <1>4, <1>5, <1>6
<1>9. StripTypes'
  BY <1>1, <1>2, <1>5, <1>7, <1>8, TypesKept DEF StripTypes, StripPcs
<1>10. PlacesInv'
  <2>1. pc' = "done" => p' = len'
    <3>1. p' \in Nat /\ len \in Nat
      <4>1. PICK k \in Nat : k = vl'
        BY <1>5
      <4>2. p' = p + k /\ p \in Nat
        BY <1>3, <1>6, <4>1
      <4>3. len \in Nat
        BY <1>3
      <4>. QED  BY <4>2, <4>3
    <3>2. pc' = "done" => n' = 0
      BY <1>2
    <3>. QED  BY ONLY <1>2, <1>8, <3>1, <3>2
  <2>. QED  BY <1>2, <1>8, <2>1 DEF PlacesInv
<1>11. FilledInv'
  <2>1. ASSUME function = "memset"
        PROVE  filled = VLMAX \/ n' =< filled
    <3>1. filled = VLMAX \/ n =< filled \/ filled = grant[n]
      BY <1>2, <2>1 DEF OnceInv, FilledInv
    <3>2. filled \in Nat
      BY <1>1 DEF StripTypes
    <3>3. CASE filled = grant[n]
      BY <1>2, <1>3, <1>4, <3>2, <3>3
    <3>. QED  BY <1>3, <1>8, <3>1, <3>2, <3>3
  <2>. QED  BY <1>2, <2>1 DEF FilledInv
<1>. QED  BY <1>6, <1>9, <1>10, <1>11 DEF OnceInv

LEMMA ChunkKeeps == ASSUME OnceInv, Strip!Chunk PROVE OnceInv'
<1>. USE VLMAXAssumption, MaxLenAssumption
<1>1. StripTypes /\ TouchedInv
  BY DEF OnceInv
<1>2. /\ pc = "chunk" /\ UNCHANGED << function, kernel, grant, addr, len, tail, quarter, filled >>
      /\ Strip!Handle(vl) /\ n' = n - vl
      /\ vl' = IF kernel = "align" THEN grant[n'] ELSE VLMAX
      /\ pc' = IF n' = 0 THEN "done" ELSE "chunk"
  BY DEF Strip!Chunk, Strip!call
<1>3. ChunkPlace
  BY <1>2 DEF OnceInv, PlacesInv
<1>4. n \in 0 .. MaxLen /\ p + n = len /\ p \in Nat /\ vl \in 0 .. n /\ vl =< VLMAX
  BY <1>1, <1>3, Asked DEF ChunkPlace, StripTypes
<1>5. TouchedInv' /\ p' = p + vl
  <2>1. vl \in Nat /\ p + vl =< len
    BY <1>4
  <2>. QED  BY <1>1, <1>2, <2>1, Handled
<1>6. n' \in 0 .. MaxLen /\ p' + n' = len
  BY <1>2, <1>4, <1>5
<1>7. ASSUME n' # 0 PROVE ChunkPlace' /\ vl' \in Nat
  <2>1. CASE kernel = "align"
    <3>1. PICK v \in 0 .. n' : v = grant[n'] /\ v =< VLMAX
      <4>1. grant \in Strip!Processors
        BY <1>1 DEF StripTypes
      <4>. QED  BY <1>6, <4>1, Grants
    <3>2. (addr + p') % VLMAX = 0 \/ n' < VLMAX
      <4>1. PICK a \in Nat : a = addr + p
        BY <1>1, <1>4 DEF StripTypes
      <4>2. addr + p' = a + vl
        BY <1>1, <1>4, <1>5, <4>1 DEF StripTypes
      <4>3. CASE p = 0 /\ vl = Strip!Aligning
        <5>1. addr \in Nat
          BY <1>1 DEF StripTypes
        <5>2. (addr + Strip!Aligning) % VLMAX = 0
          BY ONLY <5>1, VLMAXAssumption, UpToMultiple DEF Strip!Aligning
        <5>3. a = addr
          BY <4>1, <4>3, <5>1
        <5>. QED  BY <4>2, <4>3, <5>2, <5>3
      <4>4. CASE vl = grant[n] /\ a % VLMAX = 0
        <5>1. vl = VLMAX \/ n =< 2 * vl
          <6>1. grant \in Strip!Processors
            BY <1>1 DEF StripTypes
          <6>. QED  BY <1>4, <4>4, <6>1, Grants
        <5>2. (a + VLMAX) % VLMAX = 0
          BY ONLY <4>1, <4>4, VLMAXAssumption, NextMultiple
        <5>3. vl # VLMAX => n' < VLMAX
          BY <1>2, <1>4, <5>1
        <5>. QED  BY <4>2, <5>2, <5>3
      <4>5. CASE n < VLMAX
        BY <1>2, <1>4, <4>5
      <4>. QED  BY <1>3, <2>1, <4>1, <4>3, <4>4, <4>5 DEF ChunkPlace
    <3>. QED  BY <1>2, <1>6, <2>1, <3>1, <3>2 DEF ChunkPlace
  <2>2. CASE kernel # "align"
    <3>1. n' % VLMAX = 0 /\ n' \in Nat
      BY <1>2, <1>3, <1>6, <2>2 DEF ChunkPlace
    <3>2. PICK q \in Nat : n' = q * VLMAX
      BY ONLY <3>1, VLMAXAssumption, MultipleIs
    <3>3. PICK k \in Nat : q = k + 1
      <4>1. q # 0
        BY <1>7, <3>2
      <4>. QED  BY <4>1
    <3>4. n' - VLMAX = k * VLMAX /\ k * VLMAX \in Nat
      BY <3>2, <3>3
    <3>5. (n' - VLMAX) % VLMAX = 0
      BY <3>4, Multiple
    <3>6. VLMAX =< n'
      <4>1. PICK x \in Nat : x = k * VLMAX
        BY <3>4
      <4>2. n' \in Nat
        BY ONLY <1>6, MaxLenAssumption
      <4>3. n' = k * VLMAX + VLMAX
        BY <3>2, <3>3
      <4>4. n' = x + VLMAX
        BY <4>1, <4>3
      <4>. QED  BY <4>2, <4>4
    <3>7. vl' = VLMAX /\ kernel = "vlmax"
      BY <1>2, <1>3, <2>2 DEF ChunkPlace
    <3>8. p' + n' = len' /\ vl' =< n' /\ vl' =< VLMAX
      BY <1>2, <1>6, <3>6, <3>7
    <3>9. kernel' = "vlmax" /\ (n' - vl') % VLMAX = 0 /\ vl' \in Nat
      BY <1>2, <3>5, <3>7
    <3>. QED  BY ONLY <3>8, <3>9 DEF ChunkPlace
  <2>. QED  BY <2>1, <2>2
<1>8. vl' \in Nat
  <2>1. CASE n' = 0
    <3>1. grant[n'] \in Nat
      <4>1. grant \in Strip!Processors
        BY <1>1 DEF StripTypes
      <4>. QED  BY <1>6, <4>1, Grants
    <3>. QED  BY <1>2, <3>1
  <2>. QED  BY <1>7, <2>1
<1>9. StripTypes'
  BY <1>1, <1>2, <1>6, <1>8, TypesKept DEF StripTypes, StripPcs
<1>10. PlacesInv'
  <2>1. pc' = "done" => p' = len'
    BY <1>2, <1>4, <1>5, <1>6
  <2>2. pc' = "chunk" => ChunkPlace'
    BY <1>2, <1>7
  <2>. QED  BY <1>2, <2>1, <2>2 DEF PlacesInv
<1>11. FilledInv'
  BY <1>2 DEF OnceInv, FilledInv
<1>. QED  BY <1>5, <1>9, <1>10, <1>11 DEF OnceInv

LEMMA TailKeeps == ASSUME OnceInv, Strip!Tail PROVE OnceInv'
<1>. USE VLMAXAssumption, MaxLenAssumption
<1>1. StripTypes /\ TouchedInv
  BY DEF OnceInv
<1>2. /\ pc = "tail" /\ pc' = "done" /\ vl' = grant[tail] /\ Strip!Handle(vl')
      /\ UNCHANGED << function, kernel, grant, addr, len, n, tail, quarter, filled >>
  BY DEF Strip!Tail, Strip!call
<1>3. p + tail = len /\ tail =< VLMAX /\ tail \in 0 .. MaxLen /\ p \in Nat
  BY <1>1, <1>2 DEF OnceInv, PlacesInv, StripTypes, TouchedInv
<1>4. vl' = tail
  <2>1. grant \in Strip!Processors
    BY <1>1 DEF StripTypes
  <2>. QED  BY <1>2, <1>3, <2>1, Grants
<1>5. TouchedInv' /\ p' = p + tail
  <2>1. tail \in Nat /\ p + tail =< len /\ Strip!Handle(tail)
    BY <1>2, <1>3, <1>4
  <2>. QED  BY <1>1, <1>2, <2>1, Handled
<1>6. StripTypes'
  BY <1>1, <1>2, <1>3, <1>4, TypesKept DEF StripTypes, StripPcs
<1>. QED  BY <1>2, <1>3, <1>5, <1>6 DEF OnceInv, PlacesInv, FilledInv

\* what a round does to p, and what is true of it
LEMMA RoundHandled ==
  ASSUME OnceInv, Strip!WholeRound, NEW r \in Nat, r = Strip!Round(vl), p + r =< len
  PROVE  TouchedInv' /\ p' = p + r /\ p \in Nat /\ len \in Nat
<1>1. TouchedInv /\ Strip!Handle(r) /\ len' = len
  BY DEF OnceInv, Strip!WholeRound, Strip!call
<1>2. p \in Nat /\ len \in Nat
  BY <1>1 DEF TouchedInv
<1>. QED  BY <1>1, <1>2, Handled

LEMMA RoundKeeps4xTail ==
  ASSUME OnceInv, Strip!WholeRound, kernel = "4x_tail" PROVE OnceInv'
<1>. USE VLMAXAssumption, MaxLenAssumption
<1>1. StripTypes /\ TouchedInv
  BY DEF OnceInv
<1>2. /\ pc = "round"
      /\ UNCHANGED << function, kernel, grant, addr, len, vl, tail, quarter, filled >>
  BY DEF Strip!WholeRound, Strip!call
<1>3. /\ function = "utf8_count" /\ vl = VLMAX /\ p + n = len /\ p + 4 * VLMAX =< len
      /\ Strip!Round(vl) = 4 * VLMAX
  BY <1>2 DEF OnceInv, PlacesInv, RoundPlace, Strip!Round
<1>4. TouchedInv' /\ p' = p + 4 * VLMAX /\ p \in Nat /\ len \in Nat
  BY <1>3, RoundHandled
<1>5. /\ n' = n - 4 * VLMAX
      /\ pc' = IF len >= p' + 4 * VLMAX THEN "round" ELSE IF n' = 0 THEN "done" ELSE "strip"
  <2>1. Strip!MoreRounds <=> len >= p' + 4 * VLMAX
    BY <1>3 DEF Strip!MoreRounds, Strip!RoomForRound, Strip!Round
  <2>. QED  BY <1>3, <2>1 DEF Strip!WholeRound
<1>6. n' \in Nat /\ p' + n' = len /\ p' \in Nat
  <2>1. n \in Nat
    BY <1>1 DEF StripTypes
  <2>. QED  BY <1>3, <1>4, <1>5, <2>1
<1>7. StripTypes'
  <2>1. pc' \in StripPcs
    BY <1>5 DEF StripPcs
  <2>. QED  BY <1>1, <1>2, <1>6, <2>1, TypesKept DEF StripTypes
<1>8. pc' = "done" => p' = len'
  BY <1>2, <1>5, <1>6
<1>9. pc' = "round" => RoundPlace'
  <2>1. pc' = "round" => p' + 4 * VLMAX =< len
    BY <1>4, <1>5, <1>6
  <2>. QED  BY <1>2, <1>3, <1>6, <2>1 DEF RoundPlace
<1>10. PlacesInv'
  BY <1>2, <1>5, <1>6, <1>8, <1>9 DEF PlacesInv
<1>11. FilledInv'
  BY <1>2, <1>3 DEF FilledInv
<1>. QED  BY <1>4, <1>7, <1>10, <1>11 DEF OnceInv

LEMMA RoundKeeps ==
  ASSUME OnceInv, Strip!WholeRound, kernel # "4x_tail" PROVE OnceInv'
<1>. USE VLMAXAssumption, MaxLenAssumption
<1>1. StripTypes /\ TouchedInv
  BY DEF OnceInv
<1>2. /\ pc = "round"
      /\ UNCHANGED << function, kernel, grant, addr, len, vl, tail, quarter, filled >>
  BY DEF Strip!WholeRound, Strip!call
<1>3. /\ kernel \in { "tail", "cap", "tail_4x" } /\ vl =< VLMAX /\ n + tail = len
      /\ IF vl = 0
           THEN n = 0 /\ tail = 0 /\ p = 0
           ELSE /\ n % Strip!Round(vl) = 0 /\ p % Strip!Round(vl) = 0
                /\ p < n /\ tail < Strip!Round(vl)
  BY <1>2 DEF OnceInv, PlacesInv, RoundPlace
<1>4. p \in Nat /\ n \in Nat /\ tail \in Nat /\ vl \in Nat
  <2>1. p \in Nat
    BY <1>1 DEF TouchedInv
  <2>. QED  BY <1>1, <2>1 DEF StripTypes
<1>5. PICK r \in Nat : /\ r = Strip!Round(vl)
                       /\ kernel = "tail_4x" => r = 4 * vl
                       /\ kernel # "tail_4x" => r = vl
  BY <1>4 DEF Strip!Round
<1>6. vl > 0 => r > 0 /\ n % r = 0 /\ p % r = 0 /\ p < n /\ tail < r
  BY <1>3, <1>4, <1>5
<1>7. p + r =< n
  <2>1. CASE vl = 0
    BY <1>3, <1>5, <2>1
  <2>2. CASE vl > 0
    <3>1. r \in Nat \ {0} /\ n % r = 0 /\ p % r = 0 /\ p < n
      BY <1>6, <2>2
    <3>. QED  BY ONLY <1>4, <3>1, MultiplesApart
  <2>. QED  BY <1>4, <2>1, <2>2
<1>8. TouchedInv' /\ p' = p + r /\ len \in Nat
  <2>1. p + r =< len
    BY <1>3, <1>4, <1>7
  <2>. QED  BY <1>5, <2>1, RoundHandled
<1>9. /\ n' = IF kernel = "tail_4x" /\ ~ (p' < n) THEN tail ELSE n
      /\ pc' = IF p' < n THEN "round" ELSE IF kernel = "tail_4x" THEN "strip" ELSE "tail"
  <2>1. Strip!MoreRounds <=> p' < n
    BY <1>3 DEF Strip!MoreRounds
  <2>. QED  BY <1>3, <2>1 DEF Strip!WholeRound
<1>10. StripTypes'
  <2>1. pc' \in StripPcs /\ n' \in Nat
    BY <1>4, <1>9 DEF StripPcs
  <2>. QED  BY <1>1, <1>2, <1>4, <2>1, TypesKept DEF StripTypes
<1>11. CASE p' < n
  <2>1. pc' = "round" /\ n' = n /\ vl > 0
    <3>1. vl = 0 => r = 0 /\ p = 0 /\ n = 0
      BY <1>3, <1>5
    <3>. QED  BY <1>4, <1>8, <1>9, <1>11, <3>1
  <2>2. p' % r = 0
    <3>1. r \in Nat \ {0} /\ p % r = 0
      BY <1>6, <2>1
    <3>2. (p + r) % r = 0
      BY ONLY <1>4, <3>1, NextMultiple
    <3>. QED  BY <1>8, <3>2
  <2>3. Strip!Round(vl)' = r
    BY <1>2, <1>5 DEF Strip!Round
  <2>4. RoundPlace'
    BY <1>2, <1>3, <1>6, <1>11, <2>1, <2>2, <2>3 DEF RoundPlace
  <2>5. PlacesInv' /\ FilledInv'
    BY <1>2, <2>1, <2>4 DEF PlacesInv, FilledInv, OnceInv
  <2>. QED  BY <1>8, <1>10, <2>5 DEF OnceInv
<1>12. CASE ~ (p' < n)
  <2>1. p' = n
    <3>1. PICK q \in Nat : q = p'
      BY <1>4, <1>8
    <3>. QED  BY <1>4, <1>7, <1>8, <1>12, <3>1
  <2>2. p' + tail = len
    BY <1>3, <2>1
  <2>3. kernel = "tail_4x" => pc' = "strip" /\ n' = tail
    BY <1>9, <1>12
  <2>4. kernel # "tail_4x" => pc' = "tail" /\ tail =< vl
    BY <1>3, <1>4, <1>5, <1>6, <1>9, <1>12
  <2>5. PlacesInv'
    <3>1. tail =< vl => tail =< VLMAX
      BY <1>3, <1>4
    <3>. QED  BY <1>2, <2>2, <2>3, <2>4, <3>1 DEF PlacesInv
  <2>6. FilledInv'
    <3>1. function = "memset" => filled = vl /\ (kernel = "tail_4x" => vl = VLMAX \/ tail =< vl)
      BY <1>2 DEF OnceInv, FilledInv
    <3>. QED  BY <1>2, <2>3, <2>4, <3>1 DEF FilledInv
  <2>. QED  BY <1>8, <1>10, <2>5, <2>6 DEF OnceInv
<1>. QED  BY <1>11, <1>12

LEMMA EnterSwarKeeps == ASSUME OnceInv, Strip!EnterSwar PROVE OnceInv'
<1>. USE WordAssumption, MaxLenAssumption
<1>1. StripTypes /\ TouchedInv
  BY DEF OnceInv
<1>2. /\ pc = "enter" /\ kernel = "swar" /\ pc' = "head"
      /\ UNCHANGED << function, kernel, grant, addr, len, p, quarter, filled, touched >>
      /\ IF n < Word
           THEN vl' = n /\ n' = 0 /\ tail' = 0
           ELSE vl' = Strip!Head /\ n' = n - Strip!Head /\ tail' = (n - Strip!Head) % Word
  BY DEF Strip!EnterSwar, Strip!call
<1>3. p = 0 /\ n = len /\ n \in Nat /\ addr \in Nat
  <2>1. p = 0 /\ p + n = len /\ n \in Nat /\ addr \in Nat
    BY <1>1, <1>2 DEF OnceInv, PlacesInv, StripTypes
  <2>. QED  BY <2>1
<1>4. PICK h \in 1 .. Word : h = Strip!Head /\ (addr + h) % Word = 0
  <2>1. Strip!Head \in 1 .. Word /\ (addr + Strip!Head) % Word = 0
    BY ONLY <1>3, WordAssumption, UpToMultiple DEF Strip!Head
  <2>. QED  BY <2>1
<1>5. TouchedInv'
  BY <1>1, <1>2, NoneHandled
<1>6. /\ n' \in Nat /\ vl' \in Nat /\ vl' + n' = len /\ tail' = n' % Word /\ tail' \in Nat
      /\ n' > 0 => (addr + vl') % Word = 0
  <2>1. CASE n < Word
    <3>1. 0 % Word = 0
      BY ZeroRound
    <3>. QED  BY <1>2, <1>3, <2>1, <3>1
  <2>2. CASE ~ (n < Word)
    <3>1. vl' = h /\ n' = n - h /\ tail' = (n - h) % Word /\ n - h \in Nat
      BY <1>2, <1>3, <1>4, <2>2
    <3>2. (n - h) % Word \in Nat
      BY ONLY <3>1, WordAssumption, Quotient
    <3>. QED  BY <1>3, <1>4, <3>1, <3>2
  <2>. QED  BY <2>1, <2>2
<1>7. StripTypes'
  BY <1>1, <1>2, <1>6, TypesKept DEF StripTypes, StripPcs
<1>8. PlacesInv' /\ FilledInv'
  BY <1>2, <1>3, <1>6 DEF PlacesInv, FilledInv
<1>. QED  BY <1>5, <1>7, <1>8 DEF OnceInv

\* words begin at multiples of the word
LEMMA SwarKeeps ==
  ASSUME OnceInv, Strip!SwarHead \/ Strip!SwarWord \/ Strip!SwarTail
  PROVE  OnceInv'
<1>. USE WordAssumption, MaxLenAssumption
<1>1. StripTypes /\ TouchedInv
  BY DEF OnceInv
<1>2. UNCHANGED << function, kernel, grant, addr, len, vl, tail, quarter, filled >>
  BY DEF Strip!SwarHead, Strip!SwarWord, Strip!SwarTail, Strip!call
<1>3. p \in Nat /\ n \in Nat /\ vl \in Nat /\ tail \in Nat /\ addr \in Nat
  <2>1. p \in Nat
    BY <1>1 DEF TouchedInv
  <2>. QED  BY <1>1, <2>1 DEF StripTypes
<1>4. CASE Strip!SwarHead
  <2>1. /\ pc' = "words" /\ n' = n \div Word /\ Strip!Handle(vl)
        /\ p = 0 /\ vl + n = len /\ tail = n % Word /\ (n > 0 => (addr + vl) % Word = 0)
    BY <1>4 DEF Strip!SwarHead, OnceInv, PlacesInv
  <2>2. TouchedInv' /\ p' = vl
    <3>1. p + vl =< len
      BY <1>3, <2>1
    <3>2. TouchedInv' /\ p' = p + vl
      BY <1>1, <1>2, <1>3, <2>1, <3>1, Handled
    <3>. QED  BY <1>3, <2>1, <3>2
  <2>3. PICK q \in Nat : q = n \div Word /\ n = q * Word + tail
    BY ONLY <1>3, <2>1, WordAssumption, Quotient
  <2>4. n' > 0 => (addr + p') % Word = 0
    <3>1. CASE n = 0
      <4>1. (0 * Word + 0) \div Word = 0
        BY QuotientUnique
      <4>2. n' = 0
        BY <2>1, <3>1, <4>1
      <4>. QED  BY <4>2
    <3>. QED  BY <1>3, <2>1, <2>2, <3>1
  <2>5. p' + n' * Word + tail = len
    <3>1. PICK x \in Nat : x = q * Word
      BY <2>3
    <3>2. n' * Word = x /\ n = x + tail
      BY <2>1, <2>3, <3>1
    <3>. QED  BY <1>3, <2>1, <2>2, <3>1, <3>2
  <2>6. StripTypes'
    BY <1>1, <1>2, <1>3, <2>1, <2>3, TypesKept DEF StripTypes, StripPcs
  <2>. QED
    BY <1>2, <2>1, <2>2, <2>4, <2>5, <2>6 DEF OnceInv, PlacesInv, FilledInv, Strip!AtWord
<1>5. CASE Strip!SwarWord
  <2>1. /\ pc = "words" /\ pc' = pc /\ n > 0 /\ n' = n - 1 /\ Strip!Handle(Word)
        /\ p + n * Word + tail = len /\ (addr + p) % Word = 0
    BY <1>5 DEF Strip!SwarWord, OnceInv, PlacesInv, Strip!AtWord
  <2>2. PICK k \in Nat : n = k + 1 /\ n' = k
    <3>1. n - 1 \in Nat /\ n = (n - 1) + 1
      BY <1>3, <2>1
    <3>. QED  BY <2>1, <3>1
  <2>3. PICK x \in Nat : x = k * Word /\ n * Word = x + Word
    <3>1. k * Word \in Nat /\ (k + 1) * Word = k * Word + Word
      OBVIOUS
    <3>. QED  BY <2>2, <3>1
  <2>4. p + Word =< len
    BY <1>3, <2>1, <2>3
  <2>5. TouchedInv' /\ p' = p + Word
    BY <1>1, <1>2, <2>1, <2>4, Handled
  <2>6. p' + n' * Word + tail = len
    <3>1. n' * Word = x
      BY <2>2, <2>3
    <3>. QED  BY <1>3, <2>1, <2>3, <2>5, <3>1
  <2>7. (addr + p') % Word = 0
    <3>1. PICK a \in Nat : a = addr + p /\ a + Word = addr + p'
      BY <1>3, <2>5
    <3>2. (a + Word) % Word = 0
      BY <2>1, <3>1, NextMultiple
    <3>. QED  BY <3>1, <3>2
  <2>8. StripTypes'
    BY <1>1, <1>2, <1>3, <2>1, <2>2, TypesKept DEF StripTypes, StripPcs
  <2>. QED
    BY <1>2, <2>1, <2>5, <2>6, <2>7, <2>8 DEF OnceInv, PlacesInv, FilledInv, Strip!AtWord
<1>6. CASE Strip!SwarTail
  <2>1. /\ pc' = "done" /\ n' = n /\ n = 0 /\ Strip!Handle(tail) /\ p + n * Word + tail = len
    BY <1>6 DEF Strip!SwarTail, OnceInv, PlacesInv
  <2>2. p + tail = len
    <3>1. n * Word = 0
      BY <2>1
    <3>. QED  BY <1>3, <2>1, <3>1
  <2>3. TouchedInv' /\ p' = p + tail
    <3>1. p + tail =< len
      BY <1>3, <2>2
    <3>. QED  BY <1>1, <1>2, <1>3, <2>1, <3>1, Handled
  <2>4. StripTypes'
    BY <1>1, <1>2, <1>3, <2>1, TypesKept DEF StripTypes, StripPcs
  <2>. QED
    BY <1>2, <2>1, <2>2, <2>3, <2>4 DEF OnceInv, PlacesInv, FilledInv
<1>. QED  BY <1>4, <1>5, <1>6

\* k bytes that are there are handled, by memrand or the scalar loop
LEMMA BytesKeep ==
  ASSUME OnceInv, pc \in { "enter", "bytes" }, kernel \in { "memrand", "scalar" },
         NEW k \in Nat, k =< n, Strip!Handle(k), n' = n - k,
         UNCHANGED << function, kernel, grant, addr, len, pc, vl, tail, quarter, filled >>
  PROVE  OnceInv'
<1>1. StripTypes /\ TouchedInv /\ p + n = len
  BY DEF OnceInv, PlacesInv
<1>2. p \in Nat /\ n \in Nat
  BY <1>1 DEF TouchedInv, StripTypes
<1>3. TouchedInv' /\ p' = p + k
  <2>1. p + k =< len
    BY <1>1, <1>2
  <2>. QED  BY <1>1, <2>1, Handled
<1>4. n' \in Nat /\ p' + n' = len
  BY <1>1, <1>2, <1>3
<1>5. StripTypes'
  BY <1>1, <1>4, TypesKept DEF StripTypes
<1>6. PlacesInv' /\ FilledInv'
  BY <1>4 DEF PlacesInv, FilledInv
<1>. QED  BY <1>3, <1>5, <1>6 DEF OnceInv

LEMMA ByteLoopsKeep ==
  ASSUME OnceInv, \/ Strip!RandByte \/ Strip!RandWord \/ Strip!RandRest
                  \/ Strip!ScalarByte \/ Strip!ScalarReturn
  PROVE  OnceInv'
<1>. USE WordAssumption, MaxLenAssumption
<1>1. n \in Nat /\ StripTypes /\ TouchedInv
  BY DEF OnceInv, StripTypes
<1>2. CASE Strip!RandByte \/ Strip!ScalarByte
  BY <1>1, <1>2, BytesKeep DEF Strip!RandByte, Strip!ScalarByte, Strip!call
<1>3. CASE Strip!RandWord
  BY <1>1, <1>3, BytesKeep DEF Strip!RandWord, Strip!RandWordFits, Strip!call
<1>4. CASE Strip!RandRest \/ Strip!ScalarReturn
  <2>1. /\ UNCHANGED << function, kernel, grant, addr, len, n, p, vl, tail, quarter,
                        filled, touched >>
        /\ pc \in { "enter", "bytes" } /\ kernel \in { "memrand", "scalar" }
        /\ pc' = "bytes" \/ (pc' = "done" /\ n = 0)
    BY <1>4 DEF Strip!RandRest, Strip!ScalarReturn, Strip!call
  <2>2. TouchedInv' /\ p \in Nat /\ p + n = len
    BY <1>1, <2>1, NoneHandled DEF OnceInv, PlacesInv, TouchedInv
  <2>3. StripTypes'
    BY <1>1, <2>1, TypesKept DEF StripTypes, StripPcs
  <2>4. n = 0 => p = len
    BY <2>2
  <2>. QED  BY <2>1, <2>2, <2>3, <2>4 DEF OnceInv, PlacesInv, FilledInv
<1>. QED  BY <1>2, <1>3, <1>4

LEMMA StripStep == StripInv /\ [Next]_vars => StripInv'
<1>. SUFFICES ASSUME StripInv, [Next]_vars, function' \in Strip!Functions PROVE OnceInv'
  BY DEF StripInv
<1>1. CASE UNCHANGED vars
  BY <1>1 DEF vars, StripInv, OnceInv, StripTypes, TouchedInv, PlacesInv, FilledInv,
     ChunkPlace, RoundPlace, Strip!Round, Strip!AtWord, Strip!Aligning, Strip!Cells
<1>2. CASE Next
  <2>1. OnceInv /\ Strip!Next
    BY <1>2, OneRuns DEF StripInv, Strip!Functions, Number!Functions, Table!Functions
  <2>2. CASE Strip!Terminating
    BY <2>1, <2>2 DEF Strip!Terminating, Strip!vars, Strip!call, OnceInv, StripTypes,
       TouchedInv, PlacesInv, FilledInv, ChunkPlace, RoundPlace, Strip!Round,
       Strip!AtWord, Strip!Aligning, Strip!Cells
  <2>. QED
    BY <2>1, <2>2, EnterKeeps, EnterRoundsKeeps, EnterSwarKeeps, StripKeeps, ChunkKeeps,
       RoundKeeps, RoundKeeps4xTail, TailKeeps, SwarKeeps, ByteLoopsKeep DEF Strip!Next
<1>. QED  BY <1>1, <1>2

LEMMA Once == Spec => []StripInv
BY StripInit, StripStep, PTL DEF Spec

\* what is put at one of the pcs of the actions is no "done"
LEMMA DoneStays == Next /\ pc = "done" => pc' = "done"
<1>. SUFFICES ASSUME Next, pc = "done" PROVE pc' = "done"
  OBVIOUS
<1>1. CASE function \in Strip!Functions /\ Strip!Next
  BY <1>1 DEF Strip!Next, Strip!vars, Strip!EnterLoop, Strip!EnterAlign,
     Strip!EnterVlmax, Strip!EnterTail, Strip!EnterTail4x, Strip!Enter4xTail,
     Strip!EnterSwar, Strip!Strip, Strip!Chunk, Strip!WholeRound, Strip!Tail,
     Strip!SwarHead, Strip!SwarWord, Strip!SwarTail, Strip!RandByte, Strip!RandWord,
     Strip!RandRest, Strip!ScalarByte, Strip!ScalarReturn, Strip!Terminating
<1>2. CASE Musl!MemsetNext
  BY <1>2 DEF Musl!MemsetNext, Musl!svars, Musl!StoreBytes, Musl!Align, Musl!StoreWords,
     Musl!Align8, Musl!StoreDoubleWords, Musl!Return, Musl!MemsetTerminating
<1>3. CASE Musl!MemcpyNext
  BY <1>3 DEF Musl!MemcpyNext, Musl!mvars, Musl!ByteToAlign, Musl!Aligned, Musl!CopyQuads,
     Musl!QuadsDone, Musl!EnterShift, Musl!ShiftRound, Musl!ShiftDone, Musl!Rest,
     Musl!ShiftPc, Musl!MemcpyTerminating
<1>4. CASE Reverse!Next
  BY <1>4 DEF Reverse!Next, Reverse!wvars, Reverse!ScalarStep, Reverse!VsseStep,
     Reverse!VlseStep, Reverse!GatherStep, Reverse!GatherTail, Reverse!Terminating
<1>5. CASE Length!Next
  BY <1>5 DEF Length!Next, Length!lvars, Length!FaultOnlyFirst, Length!ScanBytes, Length!ByteStep,
     Length!EnterPage, Length!ScanPage, Length!ScanGroup, Length!MuslHead,
     Length!MuslWord, Length!MuslTail, Length!Terminating
<1>6. CASE Number!Next
  BY <1>6 DEF Number!Next, Number!qvars, Number!Halve, Number!Decimal, Number!Digit,
     Number!Return, Number!Terminating
<1>7. CASE Histo!Next
  BY <1>7 DEF Histo!Next, Histo!vars, Histo!EnterEmpty, Histo!NextChunk, Histo!Advanced,
       Histo!CountGroup, Histo!CountElement, Histo!CountRegister, Histo!LeaveLoop,
       Histo!Reduce, Histo!Terminating
<1>8. CASE Table!TablesNext
  BY <1>8 DEF Table!TablesNext, Table!bvars, Table!LookUp, Table!Swap, Table!Widen,
     Table!StoreZeros, Table!StoreBytes, Table!ScalarElement
<1>9. CASE Encode!EncodeNext
  BY <1>9 DEF Encode!EncodeNext, Encode!cvars, Encode!Enter, Encode!Chunk,
     Encode!ScalarStep, Encode!Return
<1>. QED  BY <1>1, <1>2, <1>3, <1>4, <1>5, <1>6, <1>7, <1>8, <1>9, OneRuns

\* what the steps have in common, and which there are at some pcs
LEMMA StripActions ==
  ASSUME Strip!Next
  PROVE  /\ len' = len
         /\ touched' = touched \/ \E k : Strip!Handle(k)
         /\ pc = "strip" => Strip!Strip
         /\ pc = "tail"  => Strip!Tail
         /\ pc = "done"  => UNCHANGED << touched, pc >>
BY DEF Strip!Next, Strip!vars, Strip!call, Strip!EnterLoop, Strip!EnterAlign,
   Strip!EnterVlmax, Strip!EnterTail, Strip!EnterTail4x, Strip!Enter4xTail,
   Strip!EnterSwar, Strip!Strip, Strip!Chunk, Strip!WholeRound, Strip!Tail,
   Strip!SwarHead, Strip!SwarWord, Strip!SwarTail, Strip!RandByte, Strip!RandWord,
   Strip!RandRest, Strip!ScalarByte, Strip!ScalarReturn, Strip!Terminating

LEMMA OnceStep ==
  ASSUME StripInv, StripInv', Next, function \in Strip!Functions, pc # "done"
  PROVE  Abstract!Handle
<1>. USE VLMAXAssumption, MaxLenAssumption
<1>1. /\ Strip!Next /\ function' = function
      /\ TouchedInv /\ TouchedInv' /\ PlacesInv'
  BY OneRuns DEF StripInv, OnceInv, Strip!Functions, Number!Functions, Table!Functions
<1>2. len' = len
  BY <1>1, StripActions
<1>3. Counted /\ Counted' /\ Strip!Cells \subseteq Nat
  BY <1>1 DEF Counted, Strip!Cells
<1>4. DOMAIN touched = Strip!Cells /\ DOMAIN touched' = Strip!Cells
  BY <1>1 DEF TouchedInv, Strip!Cells
<1>5. \A i \in Strip!Cells : touched'[i] \in { touched[i], touched[i] + 1 }
  BY <1>1, StripActions DEF Strip!Handle, TouchedInv
<1>6. \A i \in Strip!Cells : /\ touched[i] = IF i < p THEN 1 ELSE 0
                             /\ touched'[i] = IF i < p' THEN 1 ELSE 0
  BY <1>1 DEF TouchedInv, Strip!Cells
<1>7. p \in Nat /\ p' \in 0 .. len /\ len \in 0 .. MaxLen
  BY <1>1, <1>2 DEF TouchedInv
<1>8. ASSUME NEW i \in Strip!Cells
      PROVE  \/ touched'[i] = touched[i]
             \/ i \in 0 .. len - 1 /\ touched[i] = 0 /\ touched'[i] = 1
  <2>1. i \in Nat /\ touched[i] \in { 0, 1 } /\ touched'[i] \in { 0, 1 }
    BY <1>3, <1>6
  <2>2. touched'[i] # touched[i] => touched[i] = 0 /\ touched'[i] = 1
    BY <1>5, <2>1
  <2>3. touched'[i] = 1 => i < p'
    BY <1>6
  <2>. QED  BY <1>7, <2>1, <2>2, <2>3
<1>9. pc' = "done" => \A i \in 0 .. len - 1 : touched'[i] = 1
  <2>1. 0 .. len - 1 \subseteq Strip!Cells
    BY <1>7 DEF Strip!Cells
  <2>2. pc' = "done" => p' = len
    BY <1>1, <1>2 DEF PlacesInv
  <2>. QED  BY <1>6, <1>7, <2>1, <2>2
<1>. QED  BY <1>2, <1>3, <1>4, <1>8, <1>9 DEF Abstract!Handle

(***************************************************************************)
(* For register groups and words of every size, arguments of every length  *)
(* and whatever vsetvli answers: memset, utf8_count and memrand handle no  *)
(* byte twice and none beyond the last, and none is missing when they      *)
(* return (all that ImplementsEachOnce says, but that they return).        *)
(***************************************************************************)
THEOREM EveryByteOnce == Spec => Abstract!SafeSpec
<1>1. Init => Abstract!Init
  <2>. SUFFICES ASSUME Init PROVE Abstract!Init
    OBVIOUS
  <2>1. pc # "done"
    BY DEF Init, Start, Strip!Init, Musl!MemsetInit, Musl!MemcpyInit, Reverse!Init,
       Length!Init, Number!Init, Histo!Init, Table!TablesInit, Encode!EncodeInit
  <2>2. function \in Strip!Functions => touched = [i \in Strip!Cells |-> 0]
    BY DEF Init, Start, Strip!Init, Strip!Functions, Number!Functions, Table!Functions
  <2>3. DOMAIN None = {}
    BY DEF None
  <2>. QED  BY <2>1, <2>2, <2>3 DEF Abstract!Init, Counted
<1>2. StripInv /\ StripInv' /\ [Next]_vars => [Abstract!Handle]_(Abstract!vars)
  <2>. SUFFICES ASSUME StripInv, StripInv', [Next]_vars
                PROVE  [Abstract!Handle]_(Abstract!vars)
    OBVIOUS
  <2>1. CASE UNCHANGED vars
    BY <2>1 DEF vars, Abstract!vars, Counted
  <2>2. CASE Next /\ function \in Strip!Functions /\ pc # "done"
    BY <2>2, OnceStep
  <2>3. CASE Next /\ function \in Strip!Functions /\ pc = "done"
    <3>1. Strip!Next /\ function' = function
      BY <2>3, OneRuns DEF Strip!Functions, Number!Functions, Table!Functions
    <3>2. OnceInv /\ UNCHANGED << len, touched, pc >>
      BY <2>3, <3>1, StripActions DEF StripInv
    <3>. QED  BY <3>1, <3>2 DEF Abstract!vars, Counted
  <2>4. CASE Next /\ function \notin Strip!Functions
    <3>1. ~ Counted /\ ~ Counted'
      BY <2>4, OneRuns DEF Counted
    <3>2. pc = "done" => pc' = "done"
      BY <2>4, DoneStays
    <3>. QED  BY <3>1, <3>2 DEF Abstract!vars, Abstract!Handle, None
  <2>. QED  BY <2>1, <2>2, <2>3, <2>4
<1>. QED  BY <1>1, <1>2, Once, PTL DEF Spec, Abstract!SafeSpec

(***************************************************************************)
(* And memset stores no element that was not filled.                       *)
(***************************************************************************)
THEOREM OnlyFilledIsStored == Spec => StoresFilled
<1>1. StripInv /\ [Next]_vars => [function = "memset" => Strip!FilledOnly]_vars
  <2>. SUFFICES ASSUME StripInv, Next, function = "memset" PROVE Strip!FilledOnly
    OBVIOUS
  <2>1. OnceInv /\ Strip!Next
    BY OneRuns DEF StripInv, Strip!Functions, Number!Functions, Table!Functions
  <2>2. StripTypes /\ TouchedInv /\ PlacesInv /\ FilledInv
    BY <2>1 DEF OnceInv
  <2>3. pc = "strip" => Strip!Strip
    BY <2>1, StripActions
  <2>4. pc = "tail" => Strip!Tail
    BY <2>1, StripActions
  <2>5. grant \in Strip!Processors /\ filled \in Nat
    BY <2>2 DEF StripTypes
  <2>6. CASE pc = "strip"
    <3>1. n \in 0 .. MaxLen
      BY <2>2, <2>6, Asked DEF PlacesInv, StripTypes
    <3>2. vl' = grant[n] /\ vl' \in 0 .. n /\ vl' =< VLMAX
      BY <2>3, <2>5, <2>6, <3>1, Grants DEF Strip!Strip, Strip!Granted
    <3>3. filled = VLMAX \/ n =< filled \/ filled = grant[n]
      BY <2>2, <2>6 DEF FilledInv
    <3>. QED  BY <2>5, <2>6, <3>1, <3>2, <3>3, MaxLenAssumption DEF Strip!FilledOnly
  <2>7. CASE pc = "tail"
    <3>1. tail \in 0 .. MaxLen
      BY <2>2, <2>7, MaxLenAssumption DEF PlacesInv, StripTypes, TouchedInv
    <3>2. vl' = grant[tail] /\ vl' \in 0 .. tail
      BY <2>4, <2>5, <2>7, <3>1, Grants DEF Strip!Tail
    <3>3. tail =< filled
      BY <2>2, <2>7 DEF FilledInv
    <3>. QED  BY <2>5, <2>7, <3>1, <3>2, <3>3, MaxLenAssumption DEF Strip!FilledOnly
  <2>8. CASE pc \in { "chunk", "round" }
    <3>1. vl =< filled
      BY <2>2, <2>5, <2>8, VLMAXAssumption
         DEF FilledInv, PlacesInv, ChunkPlace, StripTypes
    <3>. QED  BY <2>8, <3>1 DEF Strip!FilledOnly
  <2>9. CASE pc \notin { "strip", "chunk", "round", "tail" }
    BY <2>9 DEF Strip!FilledOnly
  <2>. QED  BY <2>6, <2>7, <2>8, <2>9
<1>. QED  BY <1>1, Once, PTL DEF Spec, StoresFilled

-----------------------------------------------------------------------------
(* memset_musl.                                                            *)

(***************************************************************************)
(* Words and double words begin at multiples of their size.  What is left  *)
(* to the loop lies between bytes that are stored already: those before p, *)
(* and from 28 bytes before p + n on, which is less than 4 bytes before    *)
(* the end, or the end itself.                                             *)
(***************************************************************************)
MemsetBytes ==
  /\ pc = "bytes"  => p = 0 /\ n = len
  /\ pc = "align"  => /\ p = 0 /\ n = len /\ len > 8
                      /\ 0 .. 3 \cup len - 4 .. len - 1 \subseteq touched
  /\ pc = "words"  => /\ p =< 3 /\ (addr + p) % 4 = 0 /\ n % 4 = 0 /\ n >= 4
                      /\ p + n =< len /\ len < p + n + 4
                      /\ 0 .. 3 \cup len - 4 .. len - 1 \subseteq touched
  /\ pc = "align8" => /\ (addr + p) % 4 = 0 /\ n % 4 = 0 /\ n >= 28 /\ p + n =< len
                      /\ 0 .. p + 27 \cup p + n - 28 .. len - 1 \subseteq touched
  /\ pc = "loop"   => /\ (addr + p) % 8 = 0 /\ n % 4 = 0 /\ p + n =< len
                      /\ 0 .. p - 1 \cup p + n - 28 .. len - 1 \subseteq touched
  /\ pc = "done"   => 0 .. len - 1 \subseteq touched

MemsetInv ==
  function = "memset_musl" =>
    /\ addr \in Nat /\ len \in Nat /\ p \in Nat /\ n \in Nat
    /\ pc \in { "bytes", "align", "words", "align8", "loop", "done" }
    /\ touched \subseteq 0 .. len - 1
    /\ \A a \in access : a[1] = "dest" /\ (addr + a[2]) % a[3] = 0
    /\ MemsetBytes

LEMMA MemsetStart == Init => MemsetInv
<1>. SUFFICES ASSUME Init, function = "memset_musl" PROVE MemsetInv
  BY DEF MemsetInv
<1>1. Musl!MemsetInit
  BY DEF Init, Start, Strip!Functions, Number!Functions, Table!Functions
<1>. QED
  BY <1>1, ArgumentsAssumption DEF Musl!MemsetInit, MemsetInv, MemsetBytes

\* the bytes of stores of k bytes
LEMMA BytesOf ==
  ASSUME NEW S, NEW k, NEW i
  PROVE  i \in Musl!Bytes(S, k) <=> \E o \in S : i \in o .. o + k - 1
BY DEF Musl!Bytes

\* p moves to a multiple of 4, and then to one of 8
LEMMA NextWord ==
  ASSUME NEW a \in Nat
  PROVE  (-a) % 4 \in 0 .. 3 /\ (a + ((-a) % 4)) % 4 = 0
OBVIOUS

LEMMA NextDoubleWord ==
  ASSUME NEW a \in Nat, a % 4 = 0
  PROVE  LET f == 24 + 4 * ((a \div 4) % 2) IN f \in { 24, 28 } /\ (a + f) % 8 = 0
OBVIOUS

LEMMA MemsetStep == MemsetInv /\ [Next]_vars => MemsetInv'
<1>. SUFFICES ASSUME MemsetInv, [Next]_vars, function' = "memset_musl" PROVE MemsetInv'
  BY DEF MemsetInv
<1>1. CASE UNCHANGED vars
  BY <1>1 DEF vars, MemsetInv, MemsetBytes
<1>2. CASE Next
  <2>1. function = "memset_musl" /\ Musl!MemsetNext
    BY <1>2, OneRuns DEF Strip!Functions, Number!Functions, Table!Functions
  <2>2. /\ addr \in Nat /\ len \in Nat /\ p \in Nat /\ n \in Nat
        /\ touched \subseteq 0 .. len - 1
        /\ \A a \in access : a[1] = "dest" /\ (addr + a[2]) % a[3] = 0
        /\ MemsetBytes
    BY <2>1 DEF MemsetInv
  <2>. USE <2>2
  <2>3. CASE Musl!StoreBytes
    <3>1. /\ pc = "bytes" /\ p = 0 /\ n = len /\ touched' = Musl!HeadAndTail
          /\ pc' = IF n =< 8 THEN "done" ELSE "align"
          /\ UNCHANGED << addr, len, p, n, access >>
      BY <2>3 DEF Musl!StoreBytes, MemsetBytes
    <3>2. touched' \subseteq 0 .. len - 1
      BY <3>1 DEF Musl!HeadAndTail
    <3>3. n =< 8 => 0 .. len - 1 \subseteq touched'
      BY <3>1 DEF Musl!HeadAndTail
    <3>4. n > 8 => 0 .. 3 \cup len - 4 .. len - 1 \subseteq touched'
      BY <3>1 DEF Musl!HeadAndTail
    <3>5. MemsetBytes'
      BY <3>1, <3>3, <3>4 DEF MemsetBytes
    <3>. QED  BY <3>1, <3>2, <3>5 DEF MemsetInv
  <2>4. CASE Musl!Align
    <3>1. PICK w \in 0 .. 3 : w = Musl!ToWord /\ (addr + w) % 4 = 0
      BY NextWord DEF Musl!ToWord
    <3>2. /\ pc = "align" /\ p = 0 /\ n = len /\ len > 8 /\ pc' = "words"
          /\ 0 .. 3 \cup len - 4 .. len - 1 \subseteq touched
          /\ p' = w /\ n' = 4 * ((n - w) \div 4)
          /\ UNCHANGED << addr, len, touched, access >>
      BY <2>4, <3>1 DEF Musl!Align, MemsetBytes
    <3>3. /\ n' \in Nat /\ n' % 4 = 0 /\ n' >= 4 /\ p' + n' =< len /\ len < p' + n' + 4
      BY <3>1, <3>2
    <3>4. MemsetBytes'
      BY <3>1, <3>2, <3>3 DEF MemsetBytes
    <3>. QED  BY <3>1, <3>2, <3>3, <3>4 DEF MemsetInv
  <2>5. CASE Musl!StoreWords
    <3>1. /\ pc = "words" /\ pc' = IF n =< 24 THEN "done" ELSE "align8"
          /\ p =< 3 /\ (addr + p) % 4 = 0 /\ n % 4 = 0 /\ n >= 4
          /\ p + n =< len /\ len < p + n + 4
          /\ 0 .. 3 \cup len - 4 .. len - 1 \subseteq touched
          /\ touched' = touched \cup Musl!Bytes(Musl!WordOffsets, 4)
          /\ access' = { "dest" } \X Musl!WordOffsets \X { 4 }
          /\ UNCHANGED << addr, len, p, n >>
      BY <2>5 DEF Musl!StoreWords, MemsetBytes
    <3>2. \A o \in Musl!WordOffsets : o \in p .. p + n - 4 /\ (addr + o) % 4 = 0
      BY <3>1 DEF Musl!WordOffsets
    <3>3. touched' \subseteq 0 .. len - 1
      <4>1. SUFFICES ASSUME NEW i \in Musl!Bytes(Musl!WordOffsets, 4) PROVE i \in 0 .. len - 1
        BY <3>1
      <4>2. PICK o \in Musl!WordOffsets : i \in o .. o + 4 - 1
        BY BytesOf
      <4>3. o \in p .. p + n - 4
        BY <3>2
      <4>. QED  BY <3>1, <4>2, <4>3
    <3>4. \A a \in access' : a[1] = "dest" /\ (addr + a[2]) % a[3] = 0
      BY <3>1, <3>2
    <3>5. ASSUME NEW i \in p .. p + n - 1,
                 n =< 24 \/ i =< p + 27 \/ i >= p + n - 28
          PROVE  i \in touched'
      <4>1. ASSUME NEW o \in Musl!WordOffsets, o =< i, i =< o + 3, o \in Nat
            PROVE  i \in touched'
        BY <3>1, <4>1, BytesOf
      <4>2. p \in Musl!WordOffsets /\ p + n - 4 \in Musl!WordOffsets
        BY DEF Musl!WordOffsets
      <4>3. n > 8 => { p + 4, p + 8, p + n - 12, p + n - 8 } \subseteq Musl!WordOffsets
        BY DEF Musl!WordOffsets
      <4>4. n > 24 => { p + 12, p + 16, p + 20, p + 24, p + n - 28, p + n - 24,
                        p + n - 20, p + n - 16 } \subseteq Musl!WordOffsets
        BY DEF Musl!WordOffsets
      <4>5. CASE i =< p + 3 \/ i >= p + n - 4
        BY <3>1, <4>1, <4>2, <4>5
      <4>6. CASE i =< p + 11 \/ i >= p + n - 12
        <5>1. CASE n =< 8
          BY <3>1, <4>5, <5>1
        <5>2. CASE n > 8
          <6>1. n >= 12
            BY <3>1, <5>2
          <6>. QED  BY <4>1, <4>3, <4>5, <4>6, <5>2, <6>1
        <5>. QED  BY <5>1, <5>2
      <4>7. CASE n > 24 /\ (i =< p + 27 \/ i >= p + n - 28)
        <5>1. n >= 28
          BY <3>1, <4>7
        <5>2. i \in p + 12 .. p + 27 => i \in touched'
          BY <4>1, <4>4, <4>7
        <5>3. i \in p + n - 28 .. p + n - 13 => i \in touched'
          BY <4>1, <4>4, <4>7, <5>1
        <5>. QED  BY <4>6, <4>7, <5>2, <5>3
      <4>. QED  BY <3>1, <3>5, <4>6, <4>7
    <3>6. n > 24 => p .. p + 27 \cup p + n - 28 .. p + n - 1 \subseteq touched'
      <4>1. n > 24 => n >= 28
        BY <3>1
      <4>. QED  BY <3>5, <4>1
    <3>7. 0 .. p - 1 \cup p + n .. len - 1 \subseteq touched'
      BY <3>1
    <3>8. n =< 24 => 0 .. len - 1 \subseteq touched'
      BY <3>5, <3>7
    <3>9. n > 24 => n >= 28 /\ 0 .. p + 27 \cup p + n - 28 .. len - 1 \subseteq touched'
      BY <3>1, <3>6, <3>7
    <3>10. MemsetBytes'
      BY <3>1, <3>8, <3>9 DEF MemsetBytes
    <3>. QED  BY <3>1, <3>3, <3>4, <3>10 DEF MemsetInv
  <2>6. CASE Musl!Align8
    <3>1. PICK f \in { 24, 28 } : f = Musl!FilledHead /\ (addr + p + f) % 8 = 0
      <4>1. PICK a \in Nat : a = addr + p /\ a % 4 = 0
        BY <2>6 DEF Musl!Align8, MemsetBytes
      <4>. QED  BY <4>1, NextDoubleWord DEF Musl!FilledHead
    <3>2. /\ pc = "align8" /\ pc' = "loop" /\ p' = p + f /\ n' = n - f
          /\ n % 4 = 0 /\ n >= 28 /\ p + n =< len
          /\ 0 .. p + 27 \cup p + n - 28 .. len - 1 \subseteq touched
          /\ UNCHANGED << addr, len, touched, access >>
      BY <2>6, <3>1 DEF Musl!Align8, MemsetBytes
    <3>3. p' \in Nat /\ n' \in Nat /\ n' % 4 = 0 /\ p' + n' = p + n /\ (addr + p') % 8 = 0
      BY <3>1, <3>2
    <3>4. 0 .. p' - 1 \cup p' + n' - 28 .. len - 1 \subseteq touched
      BY <3>1, <3>2, <3>3
    <3>5. MemsetBytes'
      BY <3>2, <3>3, <3>4 DEF MemsetBytes
    <3>. QED  BY <3>2, <3>3, <3>5 DEF MemsetInv
  <2>7. CASE Musl!StoreDoubleWords
    <3>. DEFINE offsets == { p, p + 8, p + 16, p + 24 }
    <3>1. /\ pc = "loop" /\ pc' = pc /\ n >= 32 /\ p' = p + 32 /\ n' = n - 32
          /\ touched' = touched \cup Musl!Bytes(offsets, 8)
          /\ access' = { "dest" } \X offsets \X { 8 }
          /\ (addr + p) % 8 = 0 /\ n % 4 = 0 /\ p + n =< len
          /\ 0 .. p - 1 \cup p + n - 28 .. len - 1 \subseteq touched
          /\ UNCHANGED << addr, len >>
      BY <2>7 DEF Musl!StoreDoubleWords, MemsetBytes
    <3>2. \A o \in offsets : o \in p .. p + 24 /\ (addr + o) % 8 = 0
      BY <3>1
    <3>3. \A i \in p .. p + 31 : \E o \in offsets : i \in o .. o + 7
      OBVIOUS
    <3>4. touched' \subseteq 0 .. len - 1
      <4>1. SUFFICES ASSUME NEW i \in Musl!Bytes(offsets, 8) PROVE i \in 0 .. len - 1
        BY <3>1
      <4>2. PICK o \in offsets : i \in o .. o + 8 - 1
        BY BytesOf
      <4>3. o \in p .. p + 24
        BY <3>2
      <4>. QED  BY <3>1, <4>2, <4>3
    <3>5. \A a \in access' : a[1] = "dest" /\ (addr + a[2]) % a[3] = 0
      BY <3>1, <3>2
    <3>6. p .. p + 31 \subseteq touched'
      BY <3>1, <3>3, BytesOf
    <3>7. p' \in Nat /\ n' \in Nat /\ p' + n' = p + n /\ n' % 4 = 0 /\ (addr + p') % 8 = 0
      BY <3>1
    <3>8. 0 .. p' - 1 \cup p' + n' - 28 .. len - 1 \subseteq touched'
      <4>1. ASSUME NEW i \in 0 .. p' - 1 PROVE i \in touched'
        <5>1. i \in 0 .. p - 1 \/ i \in p .. p + 31
          BY <3>1
        <5>. QED  BY <3>1, <3>6, <5>1
      <4>2. p' + n' - 28 .. len - 1 \subseteq touched'
        BY <3>1, <3>7
      <4>. QED  BY <4>1, <4>2
    <3>9. MemsetBytes'
      BY <3>1, <3>7, <3>8 DEF MemsetBytes
    <3>. QED  BY <3>1, <3>4, <3>5, <3>7, <3>9 DEF MemsetInv
  <2>8. CASE Musl!Return
    <3>1. /\ pc = "loop" /\ pc' = "done" /\ n < 32 /\ n % 4 = 0 /\ p + n =< len
          /\ 0 .. p - 1 \cup p + n - 28 .. len - 1 \subseteq touched
          /\ UNCHANGED << addr, len, p, n, touched, access >>
      BY <2>8 DEF Musl!Return, MemsetBytes
    <3>2. n =< 28
      BY <3>1
    <3>3. 0 .. len - 1 \subseteq touched
      BY <3>1, <3>2
    <3>. QED  BY <3>1, <3>3 DEF MemsetInv, MemsetBytes
  <2>9. CASE Musl!MemsetTerminating
    BY <2>1, <2>9 DEF Musl!MemsetTerminating, Musl!svars, MemsetInv, MemsetBytes
  <2>. QED
    BY <2>1, <2>3, <2>4, <2>5, <2>6, <2>7, <2>8, <2>9 DEF Musl!MemsetNext
<1>. QED  BY <1>1, <1>2

-----------------------------------------------------------------------------
(* memcpy_musl.                                                            *)

\* bytes that are copied: the last step of all does not move p
Copied == IF pc = "done" THEN len ELSE p

MemcpyPlaces ==
  /\ pc \in { "align", "quads", "shift" } \cup Musl!ShiftPc => p + n = len
  /\ pc = "quads" => n = 0 \/ ((saddr + p) % 4 = 0 /\ (addr + p) % 4 = 0)
  /\ pc = "shift" => vl = 16 /\ n >= 32 /\ (saddr + p) % 4 = 0 /\ (addr + p) % 4 # 0
  /\ pc \in Musl!ShiftPc => /\ vl = 16 /\ (saddr + p + Musl!Kept) % 4 = 0 /\ (addr + p) % 4 = 0
                            /\ tail + 4 - Musl!Kept = p
  /\ pc = "rest" => /\ vl \in { 16, 8, 4, 2, 1 } /\ p + (n % (2 * vl)) = len
                    /\ n = 0 \/ addr # saddr \/ vl < 4 \/ (addr + p) % 4 = 0

MemcpyInv ==
  function = "memcpy_musl" =>
    /\ addr \in Nat /\ saddr \in Nat /\ len \in 0 .. MemcpyMaxLen
    /\ p \in 0 .. len /\ n \in Nat /\ tail \in Nat
    /\ pc \in { "align", "quads", "shift", "rest", "done" } \cup Musl!ShiftPc
    /\ touched = [i \in 0 .. MemcpyMaxLen - 1 |-> IF i < Copied THEN i ELSE Musl!NotStored]
    /\ \A a \in access : ((IF a[1] = "dest" THEN addr ELSE saddr) + a[2]) % a[3] = 0
    /\ MemcpyPlaces

LEMMA MemcpyStart == Init => MemcpyInv
<1>. SUFFICES ASSUME Init, function = "memcpy_musl" PROVE MemcpyInv
  BY DEF MemcpyInv
<1>1. Musl!MemcpyInit
  BY DEF Init, Start, Strip!Functions, Number!Functions, Table!Functions
<1>. QED
  BY <1>1, ArgumentsAssumption
     DEF Musl!MemcpyInit, MemcpyInv, MemcpyPlaces, Musl!ShiftPc, Copied

\* k more bytes are copied to their places
LEMMA CopiedMore ==
  ASSUME NEW k \in Nat, p \in Nat, len \in Nat, MemcpyMaxLen \in Nat,
         touched = [i \in 0 .. MemcpyMaxLen - 1 |-> IF i < p THEN i ELSE Musl!NotStored],
         Musl!CopyBytes(k)
  PROVE  touched' = [i \in 0 .. MemcpyMaxLen - 1 |-> IF i < p + k THEN i ELSE Musl!NotStored]
<1>1. DOMAIN touched = 0 .. MemcpyMaxLen - 1
  OBVIOUS
<1>2. touched' = [i \in 0 .. MemcpyMaxLen - 1 |->
                    IF i \in p .. p + k - 1 THEN i ELSE touched[i]]
  BY <1>1 DEF Musl!CopyBytes
<1>3. \A i \in 0 .. MemcpyMaxLen - 1 : touched[i] = IF i < p THEN i ELSE Musl!NotStored
  OBVIOUS
<1>4. \A i \in 0 .. MemcpyMaxLen - 1 : i \in p .. p + k - 1 <=> i >= p /\ i < p + k
  OBVIOUS
<1>5. \A i \in 0 .. MemcpyMaxLen - 1 :
        (IF i \in p .. p + k - 1 THEN i ELSE touched[i])
          = IF i < p + k THEN i ELSE Musl!NotStored
  <2>. SUFFICES ASSUME NEW i \in 0 .. MemcpyMaxLen - 1
                PROVE  (IF i \in p .. p + k - 1 THEN i ELSE touched[i])
                         = IF i < p + k THEN i ELSE Musl!NotStored
    OBVIOUS
  <2>1. i < p => i < p + k
    BY ONLY p \in Nat, k \in Nat, i \in 0 .. MemcpyMaxLen - 1, MemcpyMaxLen \in Nat
  <2>2. i >= p \/ i < p
    BY ONLY p \in Nat, i \in 0 .. MemcpyMaxLen - 1, MemcpyMaxLen \in Nat
  <2>. QED  BY <1>3, <1>4, <2>1, <2>2
<1>. QED  BY <1>2, <1>5

\* the accesses of a round begin at multiples of a word
LEMMA WordsAligned ==
  ASSUME NEW k, addr \in Nat, saddr \in Nat, p \in Nat,
         (addr + p) % 4 = 0, (saddr + p) % 4 = 0
  PROVE  \A a \in Musl!WordAccesses(k) :
           ((IF a[1] = "dest" THEN addr ELSE saddr) + a[2]) % a[3] = 0
BY DEF Musl!WordAccesses, Musl!Quads

\* byte j of a round is made of source byte j
LEMMA SourceIs ==
  ASSUME NEW i \in Nat, p \in Nat, i \in p .. p + 15, tail \in Nat,
         pc \in Musl!ShiftPc, tail + 4 - Musl!Kept = p
  PROVE  Musl!Source((i - p) \div 4, (i - p) % 4) = i
<1>1. PICK q \in 0 .. 3, b \in 0 .. 3 :
        q = (i - p) \div 4 /\ b = (i - p) % 4 /\ i - p = 4 * q + b
  OBVIOUS
<1>2. Musl!Kept \in 1 .. 3
  BY DEF Musl!ShiftPc, Musl!Kept
<1>. QED  BY <1>1, <1>2 DEF Musl!Source

\* the bits of n, and what is left
LEMMA Bits ==
  ASSUME NEW x \in Nat, NEW w \in { 16, 8, 4, 2, 1 }
  PROVE  /\ (x \div w) % 2 = 1 => x % (2 * w) = w + (x % w) /\ x >= w
         /\ (x \div w) % 2 # 1 => x % (2 * w) = x % w
         /\ w > 1 => w \div 2 \in { 16, 8, 4, 2, 1 } /\ 2 * (w \div 2) = w
         /\ x % w \in 0 .. w - 1
<1>1. CASE w = 16
  BY <1>1
<1>2. CASE w = 8
  BY <1>2
<1>3. CASE w = 4
  BY <1>3
<1>4. CASE w = 2
  BY <1>4
<1>5. CASE w = 1
  BY <1>5
<1>. QED  BY <1>1, <1>2, <1>3, <1>4, <1>5

LEMMA MemcpyStep == MemcpyInv /\ [Next]_vars => MemcpyInv'
<1>. SUFFICES ASSUME MemcpyInv, [Next]_vars, function' = "memcpy_musl" PROVE MemcpyInv'
  BY DEF MemcpyInv
<1>. USE ArgumentsAssumption
<1>1. CASE UNCHANGED vars
  BY <1>1 DEF vars, MemcpyInv, MemcpyPlaces, Copied, Musl!Kept, Musl!ShiftPc
<1>2. CASE Next
  <2>1. function = "memcpy_musl" /\ Musl!MemcpyNext
    BY <1>2, OneRuns DEF Strip!Functions, Number!Functions, Table!Functions
  <2>2. /\ addr \in Nat /\ saddr \in Nat /\ len \in Nat /\ len =< MemcpyMaxLen
        /\ p \in Nat /\ p =< len /\ n \in Nat /\ tail \in Nat
        /\ pc # "done" =>
             touched = [i \in 0 .. MemcpyMaxLen - 1 |-> IF i < p THEN i ELSE Musl!NotStored]
        /\ \A a \in access : ((IF a[1] = "dest" THEN addr ELSE saddr) + a[2]) % a[3] = 0
        /\ MemcpyPlaces
    BY <2>1 DEF MemcpyInv, Copied
  <2>. USE <2>2
  <2>3. CASE Musl!ByteToAlign
    <3>1. /\ pc = "align" /\ n > 0 /\ p + n = len /\ Musl!CopyBytes(1)
          /\ p' = p + 1 /\ n' = n - 1 /\ UNCHANGED << addr, saddr, len, pc, tail, access >>
      BY <2>3 DEF Musl!ByteToAlign, MemcpyPlaces
    <3>2. touched' = [i \in 0 .. MemcpyMaxLen - 1 |-> IF i < p + 1 THEN i ELSE Musl!NotStored]
      BY <3>1, CopiedMore
    <3>. QED  BY <3>1, <3>2 DEF MemcpyInv, MemcpyPlaces, Copied, Musl!ShiftPc
  <2>4. CASE Musl!Aligned
    <3>1. /\ pc = "align" /\ ((saddr + p) % 4 = 0 \/ n = 0) /\ p + n = len /\ vl' = 16
          /\ UNCHANGED << addr, saddr, len, p, n, tail, touched, access >>
      BY <2>4 DEF Musl!Aligned, MemcpyPlaces
    <3>2. \/ (addr + p) % 4 = 0 /\ pc' = "quads"
          \/ (addr + p) % 4 # 0 /\ n >= 32 /\ pc' = "shift"
          \/ (addr + p) % 4 # 0 /\ n < 32 /\ pc' = "rest"
      BY <2>4 DEF Musl!Aligned, Musl!Shift
    <3>3. n < 32 => n % 32 = n
      OBVIOUS
    <3>4. n = 0 \/ (saddr + p) % 4 = 0
      BY <3>1
    <3>5. pc' = "rest" => p + (n % (2 * 16)) = len /\ (n = 0 \/ addr # saddr)
      BY <3>1, <3>2, <3>3, <3>4
    <3>. QED  BY <3>1, <3>2, <3>4, <3>5 DEF MemcpyInv, MemcpyPlaces, Copied, Musl!ShiftPc
  <2>5. CASE Musl!CopyQuads
    <3>1. /\ pc = "quads" /\ n >= 16 /\ p + n = len /\ Musl!CopyBytes(16)
          /\ (saddr + p) % 4 = 0 /\ (addr + p) % 4 = 0
          /\ access' = Musl!WordAccesses(16)
          /\ p' = p + 16 /\ n' = n - 16 /\ UNCHANGED << addr, saddr, len, pc, tail >>
      BY <2>5 DEF Musl!CopyQuads, MemcpyPlaces
    <3>2. touched' = [i \in 0 .. MemcpyMaxLen - 1 |-> IF i < p + 16 THEN i ELSE Musl!NotStored]
      BY <3>1, CopiedMore
    <3>3. \A a \in access' : ((IF a[1] = "dest" THEN addr ELSE saddr) + a[2]) % a[3] = 0
      BY <3>1, WordsAligned
    <3>4. (saddr + p') % 4 = 0 /\ (addr + p') % 4 = 0
      BY <3>1
    <3>. QED  BY <3>1, <3>2, <3>3, <3>4 DEF MemcpyInv, MemcpyPlaces, Copied, Musl!ShiftPc
  <2>6. CASE Musl!QuadsDone
    <3>1. /\ pc = "quads" /\ n < 16 /\ p + n = len /\ pc' = "rest" /\ vl' = 8
          /\ n = 0 \/ (addr + p) % 4 = 0
          /\ UNCHANGED << addr, saddr, len, p, n, tail, touched, access >>
      BY <2>6 DEF Musl!QuadsDone, MemcpyPlaces
    <3>2. n % 16 = n
      <4>1. n \in Nat
        BY ONLY <2>2
      <4>2. n \in 0 .. 15
        BY ONLY <3>1, <4>1
      <4>. QED  BY ONLY <4>2
    <3>3. p + (n % (2 * 8)) = len
      BY <3>1, <3>2
    <3>. QED  BY <3>1, <3>3 DEF MemcpyInv, MemcpyPlaces, Copied, Musl!ShiftPc
  <2>7. CASE Musl!EnterShift
    <3>1. /\ pc = "shift" /\ vl = 16 /\ n >= 32 /\ p + n = len
          /\ (saddr + p) % 4 = 0 /\ (addr + p) % 4 # 0
      BY <2>7 DEF Musl!EnterShift, MemcpyPlaces
    <3>2. PICK s \in 1 .. 3 : s = Musl!Shift /\ s = (addr + p) % 4
      <4>1. PICK a \in Nat : a = addr + p
        OBVIOUS
      <4>2. a % 4 \in 0 .. 3
        OBVIOUS
      <4>. QED  BY <3>1, <4>1, <4>2 DEF Musl!Shift
    <3>3. PICK k \in 1 .. 3 : k = 4 - s
      OBVIOUS
    <3>4. /\ Musl!CopyBytes(k) /\ tail' = p /\ access' = {<< "src", p, 4 >>}
          /\ p' = p + 4 - s /\ n' = n - k /\ UNCHANGED << addr, saddr, len, vl >>
      BY <2>7, <3>2, <3>3 DEF Musl!EnterShift
    <3>5. pc' \in Musl!ShiftPc /\ Musl!Kept' = s
      BY <2>7, <3>2 DEF Musl!EnterShift, Musl!ShiftPc, Musl!Kept
    <3>6. p' = p + k
      BY <3>3, <3>4
    <3>7. pc # "done"
      BY <3>1
    <3>8. touched' = [i \in 0 .. MemcpyMaxLen - 1 |->
                        IF i < p + k THEN i ELSE Musl!NotStored]
      BY <3>4, <3>7, CopiedMore
    <3>9. (saddr + p + k + s) % 4 = 0 /\ (addr + p + k) % 4 = 0
      <4>1. PICK a \in Nat, b \in Nat : a = addr + p /\ b = saddr + p
        OBVIOUS
      <4>2. a % 4 = s /\ b % 4 = 0
        BY <3>1, <3>2, <4>1
      <4>3. (a + k) % 4 = 0 /\ (b + 4) % 4 = 0
        BY ONLY <3>3, <4>2
      <4>. QED  BY <3>3, <4>1, <4>3
    <3>10. /\ (saddr + p' + s) % 4 = 0 /\ (addr + p') % 4 = 0 /\ tail' + 4 - s = p'
           /\ p' + n' = len /\ p' \in Nat /\ n' \in Nat /\ p' =< len /\ tail' \in Nat
      BY <3>1, <3>3, <3>4, <3>6, <3>9
    <3>11. \A a \in access' : a = << "src", p, 4 >>
      BY <3>4
    <3>12. \A a \in access' : ((IF a[1] = "dest" THEN addr ELSE saddr) + a[2]) % a[3] = 0
      BY <3>1, <3>11
    <3>13. touched' = [i \in 0 .. MemcpyMaxLen - 1 |-> IF i < p' THEN i ELSE Musl!NotStored]
      BY <3>6, <3>8
    <3>14. pc' \in { "shift1", "shift2", "shift3" }
      BY <3>5 DEF Musl!ShiftPc
    <3>15. Copied' = p'
      BY <3>14 DEF Copied
    <3>16. MemcpyPlaces'
      BY <3>1, <3>4, <3>5, <3>10, <3>14 DEF MemcpyPlaces, Musl!ShiftPc
    <3>. QED
      BY <3>4, <3>5, <3>10, <3>12, <3>13, <3>15, <3>16 DEF MemcpyInv
  <2>8. CASE Musl!ShiftRound
    <3>1. PICK k \in 1 .. 3 : k = Musl!Kept
      BY <2>8 DEF Musl!ShiftRound, Musl!ShiftPc, Musl!Kept
    <3>2. /\ pc \in Musl!ShiftPc /\ vl = 16 /\ n >= 16 + k /\ p + n = len
          /\ (saddr + p + k) % 4 = 0 /\ (addr + p) % 4 = 0 /\ tail + 4 - k = p
          /\ access' = { << "src", p + q + k, 4 >> : q \in Musl!Quads }
                         \cup { "dest" } \X { p + q : q \in Musl!Quads } \X { 4 }
          /\ tail' = p + 12 + k /\ p' = p + 16 /\ n' = n - 16
          /\ UNCHANGED << addr, saddr, len, pc, vl >>
      BY <2>8, <3>1 DEF Musl!ShiftRound, Musl!RoundFits, MemcpyPlaces
    <3>3. touched' = [i \in 0 .. MemcpyMaxLen - 1 |->
                        IF i < p' THEN i ELSE Musl!NotStored]
      <4>1. DOMAIN touched = 0 .. MemcpyMaxLen - 1 /\ pc # "done"
        BY <3>2 DEF Musl!ShiftPc
      <4>2. touched' = [i \in 0 .. MemcpyMaxLen - 1 |->
                          IF i \in p .. p + 15
                            THEN Musl!Source((i - p) \div 4, (i - p) % 4) ELSE touched[i]]
        BY <2>8, <4>1 DEF Musl!ShiftRound
      <4>3. ASSUME NEW i \in 0 .. MemcpyMaxLen - 1, i \in p .. p + 15
            PROVE  Musl!Source((i - p) \div 4, (i - p) % 4) = i
        BY <3>1, <3>2, <4>3, SourceIs
      <4>4. \A i \in 0 .. MemcpyMaxLen - 1 : touched[i] = IF i < p THEN i ELSE Musl!NotStored
        BY <4>1
      <4>5. p' = p + 16
        BY <3>2
      <4>6. \A i \in 0 .. MemcpyMaxLen - 1 : i \in p .. p + 15 <=> i >= p /\ i < p'
        BY ONLY p \in Nat, MemcpyMaxLen \in Nat, <4>5
      <4>7. \A i \in 0 .. MemcpyMaxLen - 1 : i < p => i < p'
        BY ONLY p \in Nat, MemcpyMaxLen \in Nat, <4>5
      <4>8. \A i \in 0 .. MemcpyMaxLen - 1 :
              (IF i \in p .. p + 15 THEN Musl!Source((i - p) \div 4, (i - p) % 4)
                                    ELSE touched[i])
                = IF i < p' THEN i ELSE Musl!NotStored
        BY <4>3, <4>4, <4>6, <4>7
      <4>. QED  BY <4>2, <4>8
    <3>4. \A a \in access' : ((IF a[1] = "dest" THEN addr ELSE saddr) + a[2]) % a[3] = 0
      <4>1. \A q \in Musl!Quads : (saddr + (p + q + k)) % 4 = 0 /\ (addr + (p + q)) % 4 = 0
        BY <3>1, <3>2 DEF Musl!Quads
      <4>2. ASSUME NEW a \in access'
            PROVE  \E q \in Musl!Quads : a = << "src", p + q + k, 4 >> \/ a = << "dest", p + q, 4 >>
        BY <3>2, <4>2
      <4>. QED  BY <4>1, <4>2
    <3>5. /\ (saddr + p' + k) % 4 = 0 /\ (addr + p') % 4 = 0 /\ tail' + 4 - k = p'
          /\ p' + n' = len /\ p' \in Nat /\ n' \in Nat /\ tail' \in Nat
      BY <3>1, <3>2
    <3>6. Musl!Kept' = k
      BY <3>1, <3>2 DEF Musl!Kept
    <3>7. pc \in { "shift1", "shift2", "shift3" }
      BY <3>2 DEF Musl!ShiftPc
    <3>8. Copied' = p' /\ p' =< len
      BY <3>2, <3>5, <3>7 DEF Copied
    <3>9. MemcpyPlaces'
      BY <3>2, <3>5, <3>6, <3>7 DEF MemcpyPlaces
    <3>. QED
      BY <3>2, <3>3, <3>4, <3>5, <3>8, <3>9 DEF MemcpyInv
  <2>9. CASE Musl!ShiftDone
    <3>1. PICK k \in 1 .. 3 : k = Musl!Kept
      BY <2>9 DEF Musl!ShiftDone, Musl!ShiftPc, Musl!Kept
    <3>2. /\ pc \in Musl!ShiftPc /\ n < 16 + k /\ p + n = len /\ pc' = "rest"
          /\ (saddr + p + k) % 4 = 0 /\ (addr + p) % 4 = 0 /\ vl = 16
          /\ UNCHANGED << addr, saddr, len, p, n, tail, vl, touched, access >>
      <4>1. pc \in Musl!ShiftPc /\ pc' = "rest"
            /\ UNCHANGED << addr, saddr, len, p, n, tail, vl, touched, access >>
        BY <2>9 DEF Musl!ShiftDone
      <4>2. n < 16 + k
        BY <2>9, <3>1 DEF Musl!ShiftDone, Musl!RoundFits
      <4>. QED  BY <3>1, <4>1, <4>2 DEF MemcpyPlaces
    <3>3. n < 32
      BY <3>1, <3>2
    <3>4. n % 32 = n
      BY ONLY <2>2, <3>3
    <3>5. p + (n % (2 * 16)) = len
      BY <3>2, <3>4
    <3>6. addr # saddr
      <4>1. (addr + p) % 4 = 0 /\ (saddr + p + k) % 4 = 0
        BY <3>2
      <4>2. PICK a \in Nat : a = saddr + p
        OBVIOUS
      <4>3. (a + k) % 4 = 0
        BY <4>1, <4>2
      <4>4. a % 4 # 0
        BY ONLY <3>1, <4>2, <4>3
      <4>. QED  BY <4>1, <4>2, <4>4
    <3>7. pc \in { "shift1", "shift2", "shift3" }
      BY <3>2 DEF Musl!ShiftPc
    <3>8. Copied' = p
      BY <3>2, <3>7 DEF Copied
    <3>9. MemcpyPlaces'
      BY <3>2, <3>5, <3>6 DEF MemcpyPlaces, Musl!ShiftPc
    <3>10. touched' = [i \in 0 .. MemcpyMaxLen - 1 |-> IF i < p' THEN i ELSE Musl!NotStored]
      BY <3>2, <3>7
    <3>. QED  BY <3>2, <3>8, <3>9, <3>10 DEF MemcpyInv
  <2>10. CASE Musl!Rest
    <3>0. PICK w \in { 16, 8, 4, 2, 1 } : w = vl
      BY <2>10 DEF Musl!Rest, MemcpyPlaces
    <3>1. /\ pc = "rest" /\ p + (n % (2 * w)) = len
          /\ n = 0 \/ addr # saddr \/ w < 4 \/ (addr + p) % 4 = 0
          /\ vl' = w \div 2 /\ pc' = IF w = 1 THEN "done" ELSE "rest"
          /\ UNCHANGED << addr, saddr, len, n, tail >>
      BY <2>10, <3>0 DEF Musl!Rest, MemcpyPlaces
    <3>. PICK r \in Nat : r = n % w
      BY <3>0, Bits
    <3>4. w > 1 => vl' \in { 16, 8, 4, 2, 1 } /\ 2 * vl' = w
      BY <3>1, Bits
    <3>2. CASE (n \div w) % 2 = 1
      <4>1. /\ Musl!CopyBytes(w) /\ p' = IF w = 1 THEN p ELSE p + w
            /\ access' = IF addr = saddr /\ w \in { 4, 8 } THEN Musl!WordAccesses(w) ELSE {}
        BY <2>10, <3>0, <3>2 DEF Musl!Rest
      <4>2. p + (w + r) = len /\ n > 0 /\ r \in 0 .. w - 1
        BY <3>1, <3>2, Bits
      <4>3. touched' = [i \in 0 .. MemcpyMaxLen - 1 |->
                          IF i < p + w THEN i ELSE Musl!NotStored]
        <5>1. w \in Nat /\ pc # "done"
          BY <3>1
        <5>. QED  BY <4>1, <5>1, CopiedMore
      <4>4. \A a \in access' : ((IF a[1] = "dest" THEN addr ELSE saddr) + a[2]) % a[3] = 0
        <5>1. CASE addr = saddr /\ w \in { 4, 8 }
          <6>1. (addr + p) % 4 = 0 /\ (saddr + p) % 4 = 0
            BY <3>1, <4>2, <5>1
          <6>. QED  BY <4>1, <5>1, <6>1, WordsAligned
        <5>. QED  BY <4>1, <5>1
      <4>5. CASE w = 1
        <5>1. p + w = len
          BY <4>2, <4>5
        <5>2. pc' = "done" /\ Copied' = p + w
          BY <3>1, <4>5, <5>1 DEF Copied
        <5>3. MemcpyPlaces'
          BY <5>2 DEF MemcpyPlaces, Musl!ShiftPc
        <5>. QED
          BY <3>1, <4>1, <4>3, <4>4, <4>5, <5>2, <5>3 DEF MemcpyInv
      <4>6. CASE w > 1
        <5>0. p' = p + w
          BY <4>1, <4>6
        <5>1. p' = p + w /\ p' \in Nat /\ p' =< len /\ p' + r = len
          <6>1. w \in Nat /\ r \in Nat /\ p \in Nat /\ len \in Nat
            OBVIOUS
          <6>. QED  BY ONLY <4>2, <5>0, <6>1
        <5>2. p' + (n % (2 * vl')) = len
          BY <3>4, <4>6, <5>1
        <5>3. n = 0 \/ addr # saddr \/ vl' < 4 \/ (addr + p') % 4 = 0
          <6>1. CASE w < 8
            BY <3>1, <6>1
          <6>2. CASE w \in { 8, 16 } /\ (addr + p) % 4 = 0
            <7>1. (addr + p + w) % 4 = 0
              BY ONLY <2>2, <6>2
            <7>. QED  BY <5>0, <7>1
          <6>. QED  BY <3>1, <6>1, <6>2
        <5>4. pc' = "rest" /\ Copied' = p'
          BY <3>1, <4>6 DEF Copied
        <5>5. MemcpyPlaces'
          BY <3>1, <3>4, <4>6, <5>2, <5>3, <5>4 DEF MemcpyPlaces, Musl!ShiftPc
        <5>6. touched' = [i \in 0 .. MemcpyMaxLen - 1 |->
                            IF i < p' THEN i ELSE Musl!NotStored]
          BY <4>3, <5>1
        <5>. QED
          BY <3>1, <4>4, <5>1, <5>4, <5>5, <5>6 DEF MemcpyInv
      <4>. QED  BY <4>5, <4>6
    <3>3. CASE (n \div w) % 2 # 1
      <4>1. UNCHANGED << p, touched >> /\ access' = {}
        BY <2>10, <3>0, <3>3 DEF Musl!Rest
      <4>2. p + r = len /\ r \in 0 .. w - 1
        BY <3>1, <3>3, Bits
      <4>3. CASE w = 1
        <5>1. p = len
          BY <4>2, <4>3
        <5>2. pc' = "done" /\ Copied' = p
          BY <3>1, <4>3, <5>1 DEF Copied
        <5>3. MemcpyPlaces'
          BY <5>2 DEF MemcpyPlaces, Musl!ShiftPc
        <5>. QED
          BY <3>1, <4>1, <5>2, <5>3 DEF MemcpyInv
      <4>4. CASE w > 1
        <5>1. p + (n % (2 * vl')) = len
          BY <3>4, <4>2, <4>4
        <5>2. n = 0 \/ addr # saddr \/ vl' < 4 \/ (addr + p) % 4 = 0
          BY <3>1
        <5>3. pc' = "rest" /\ Copied' = p
          BY <3>1, <4>1, <4>4 DEF Copied
        <5>4. MemcpyPlaces'
          BY <3>1, <3>4, <4>1, <4>4, <5>1, <5>2, <5>3 DEF MemcpyPlaces, Musl!ShiftPc
        <5>. QED
          BY <3>1, <4>1, <5>3, <5>4 DEF MemcpyInv
      <4>. QED  BY <4>3, <4>4
    <3>. QED  BY <3>2, <3>3
  <2>11. CASE Musl!MemcpyTerminating
    BY <2>1, <2>11 DEF Musl!MemcpyTerminating, Musl!mvars, MemcpyInv, MemcpyPlaces,
       Copied, Musl!Kept, Musl!ShiftPc
  <2>. QED
    BY <2>1, <2>3, <2>4, <2>5, <2>6, <2>7, <2>8, <2>9, <2>10, <2>11 DEF Musl!MemcpyNext
<1>. QED  BY <1>1, <1>2

-----------------------------------------------------------------------------
(* memreverse.                                                             *)

\* the rest of a gather kernel does not move p
Reversed == IF pc = "done" THEN len ELSE p

ReverseInv ==
  function = "memreverse" =>
    /\ kernel \in Reverse!ReverseKernels /\ grant \in Strip!Processors
    /\ len \in 0 .. MaxLen /\ p \in Nat /\ n \in Nat /\ p + n = len
    /\ pc \in { "loop", "done" } /\ (pc = "done" /\ ~ Reverse!Gathers => n = 0)
    /\ touched = IF kernel \in { "scalar", "vlse" }
         THEN [i \in 0 .. MaxLen - 1 |-> IF i < len /\ i < Reversed
                                           THEN len - 1 - i ELSE Reverse!NotStored]
         ELSE [i \in 0 .. MaxLen - 1 |-> IF i < len /\ i >= len - Reversed
                                           THEN len - 1 - i ELSE Reverse!NotStored]


LEMMA ReverseStart == Init => ReverseInv
<1>. SUFFICES ASSUME Init, function = "memreverse" PROVE ReverseInv
  BY DEF ReverseInv
<1>1. Reverse!Init /\ grant \in Strip!Processors
  BY DEF Init, Start, Strip!Functions, Number!Functions, Table!Functions
<1>2. ASSUME NEW i \in 0 .. MaxLen - 1
      PROVE  ~ (i < len /\ i < 0) /\ ~ (i < len /\ i >= len - 0)
  BY <1>1, MaxLenAssumption DEF Reverse!Init
<1>3. Reversed = 0
  BY <1>1 DEF Reverse!Init, Reversed
<1>. QED
  BY <1>1, <1>2, <1>3, MaxLenAssumption DEF Reverse!Init, ReverseInv

\* k more bytes are stored before those at the end of dest, and after those
\* at its beginning
LEMMA StoredAtEnd ==
  ASSUME NEW k \in Nat, p \in Nat, len \in Nat, p + k =< len,
         touched = [i \in 0 .. MaxLen - 1 |->
                      IF i < len /\ i >= len - p THEN len - 1 - i ELSE Reverse!NotStored],
         touched' = [i \in DOMAIN touched |->
                       IF i \in len - p - k .. len - p - 1 THEN len - 1 - i ELSE touched[i]]
  PROVE  touched' = [i \in 0 .. MaxLen - 1 |->
                       IF i < len /\ i >= len - (p + k) THEN len - 1 - i
                                                        ELSE Reverse!NotStored]
<1>1. DOMAIN touched = 0 .. MaxLen - 1
  OBVIOUS
<1>2. ASSUME NEW i \in 0 .. MaxLen - 1
      PROVE  (IF i \in len - p - k .. len - p - 1 THEN len - 1 - i ELSE touched[i])
               = IF i < len /\ i >= len - (p + k) THEN len - 1 - i ELSE Reverse!NotStored
  <2>1. touched[i] = IF i < len /\ i >= len - p THEN len - 1 - i ELSE Reverse!NotStored
    OBVIOUS
  <2>2. i \in len - p - k .. len - p - 1 <=> i < len - p /\ i >= len - (p + k)
    BY MaxLenAssumption
  <2>3. /\ i < len - p => i < len
        /\ i >= len - p => i >= len - (p + k)
        /\ i < len - p \/ i >= len - p
    BY ONLY MaxLenAssumption, i \in 0 .. MaxLen - 1, p \in Nat, len \in Nat, k \in Nat
  <2>. QED  BY <2>1, <2>2, <2>3
<1>. QED  BY <1>1, <1>2

LEMMA StoredInFront ==
  ASSUME NEW k \in Nat, p \in Nat, len \in Nat, p + k =< len,
         touched = [i \in 0 .. MaxLen - 1 |->
                      IF i < len /\ i < p THEN len - 1 - i ELSE Reverse!NotStored],
         touched' = [i \in DOMAIN touched |->
                       IF i \in p .. p + k - 1 THEN len - 1 - i ELSE touched[i]]
  PROVE  touched' = [i \in 0 .. MaxLen - 1 |->
                       IF i < len /\ i < p + k THEN len - 1 - i ELSE Reverse!NotStored]
<1>1. DOMAIN touched = 0 .. MaxLen - 1
  OBVIOUS
<1>2. ASSUME NEW i \in 0 .. MaxLen - 1
      PROVE  (IF i \in p .. p + k - 1 THEN len - 1 - i ELSE touched[i])
               = IF i < len /\ i < p + k THEN len - 1 - i ELSE Reverse!NotStored
  <2>1. touched[i] = IF i < len /\ i < p THEN len - 1 - i ELSE Reverse!NotStored
    OBVIOUS
  <2>2. i \in p .. p + k - 1 <=> i >= p /\ i < p + k
    BY MaxLenAssumption
  <2>3. /\ i < p + k => i < len
        /\ i < p => i < p + k
        /\ i < p \/ i >= p
    BY MaxLenAssumption
  <2>. QED  BY <2>1, <2>2, <2>3
<1>. QED  BY <1>1, <1>2

\* the registers of a group from the last to the first, and each of them
\* reversed, is the group reversed
LEMMA GroupReversed ==
  ASSUME kernel \in { "vrgatherei16", "m1_vrgatherei16" }, NEW e \in 0 .. VLMAX - 1
  PROVE  Reverse!Register(e) * Reverse!GatherLen
           + (Reverse!GatherLen - 1 - (e % Reverse!GatherLen)) = VLMAX - 1 - e
<1>. USE VLMAXAssumption
<1>1. CASE kernel = "vrgatherei16"
  <2>1. Reverse!GatherLen = VLMAX
    BY <1>1 DEF Reverse!GatherLen
  <2>2. (1 * VLMAX + 0) \div VLMAX = 1 /\ (0 * VLMAX + e) \div VLMAX = 0
        /\ (0 * VLMAX + e) % VLMAX = e
    BY QuotientUnique
  <2>3. 1 * VLMAX + 0 = VLMAX /\ 0 * VLMAX + e = e
    OBVIOUS
  <2>4. VLMAX \div VLMAX = 1 /\ e \div VLMAX = 0 /\ e % VLMAX = e
    BY <2>2, <2>3
  <2>5. Reverse!Register(e) = 0
    BY <2>1, <2>4 DEF Reverse!Register
  <2>. QED  BY <2>1, <2>4, <2>5
<1>2. CASE kernel = "m1_vrgatherei16"
  <2>1. PICK h \in Nat \ {0} : h = VLMAX \div 2 /\ VLMAX = 2 * h
    BY TablesAssumption
  <2>2. Reverse!GatherLen = h
    BY <1>2, <2>1 DEF Reverse!GatherLen
  <2>3. (2 * h) \div h = 2
    BY Multiple
  <2>4. PICK q \in { 0, 1 }, r \in 0 .. h - 1 : q = e \div h /\ r = e % h /\ e = q * h + r
    <3>0. e \in Nat /\ e < 2 * h
      BY <2>1
    <3>1. PICK q \in Nat, r \in 0 .. h - 1 : q = e \div h /\ r = e % h /\ e = q * h + r
      BY <3>0, Quotient
    <3>2. 2 =< q => 2 * h =< q * h
      <4>1. 1 < q => 1 * h + h =< q * h
        BY OneMoreFits
      <4>. QED  BY <4>1
    <3>3. PICK x \in Nat : x = q * h
      OBVIOUS
    <3>4. ~ (2 =< q)
      BY ONLY h \in Nat, e \in Nat, r \in 0 .. h - 1, <3>0, <3>1, <3>2, <3>3
    <3>. QED  BY <3>1, <3>4
  <2>5. Reverse!Register(e) = 1 - q
    BY <2>1, <2>2, <2>3, <2>4 DEF Reverse!Register
  <2>6. (1 - q) * h + (h - 1 - r) = VLMAX - 1 - e
    BY <2>1, <2>4
  <2>. QED  BY <2>2, <2>4, <2>5, <2>6
<1>. QED  BY <1>1, <1>2

LEMMA ReverseStep == ReverseInv /\ [Next]_vars => ReverseInv'
<1>. SUFFICES ASSUME ReverseInv, [Next]_vars, function' = "memreverse" PROVE ReverseInv'
  BY DEF ReverseInv
<1>. USE MaxLenAssumption
<1>1. CASE UNCHANGED vars
  BY <1>1 DEF vars, ReverseInv, Reversed, Reverse!Gathers
<1>2. CASE Next
  <2>. DEFINE Front == kernel \in { "scalar", "vlse" }
              Placed(k) == IF Front
                THEN [i \in 0 .. MaxLen - 1 |-> IF i < len /\ i < k
                                                  THEN len - 1 - i ELSE Reverse!NotStored]
                ELSE [i \in 0 .. MaxLen - 1 |-> IF i < len /\ i >= len - k
                                                  THEN len - 1 - i ELSE Reverse!NotStored]
  <2>1. function = "memreverse" /\ Reverse!Next
    BY <1>2, OneRuns DEF Strip!Functions, Number!Functions, Table!Functions
  <2>2. /\ kernel \in Reverse!ReverseKernels /\ grant \in Strip!Processors
        /\ len \in Nat /\ len =< MaxLen /\ p \in Nat /\ n \in Nat /\ p + n = len
        /\ pc \in { "loop", "done" } /\ (pc = "done" /\ ~ Reverse!Gathers => n = 0)
        /\ touched = Placed(Reversed)
    BY <2>1 DEF ReverseInv
  <2>. PICK v \in Nat : v = grant[n] /\ v =< n /\ (n < VLMAX => v = n)
    BY <2>2, Grants, VLMAXAssumption
  <2>3. ASSUME NEW k \in Nat, p + k =< len, p' = p + k, n' = n - k, pc = "loop",
               touched' = Placed(p + k), UNCHANGED << kernel, grant, len >>,
               pc' = "loop" \/ (pc' = "done" /\ n' = 0)
        PROVE  ReverseInv'
    <3>1. p' \in Nat /\ n' \in Nat /\ p' + n' = len'
      BY <2>2, <2>3
    <3>2. Reversed' = p + k
      BY <2>2, <2>3, <3>1 DEF Reversed
    <3>. QED  BY <2>2, <2>3, <3>1, <3>2 DEF ReverseInv, Reverse!Gathers
  <2>4. CASE Reverse!ScalarStep
    <3>1. CASE n = 0
      <4>1. Reversed' = Reversed
        BY <2>2, <2>4, <3>1 DEF Reverse!ScalarStep, Reversed
      <4>. QED  BY <2>2, <2>4, <3>1, <4>1 DEF Reverse!ScalarStep, ReverseInv, Reverse!Gathers
    <3>2. CASE n # 0
      <4>1. /\ kernel = "scalar" /\ pc = "loop" /\ p' = p + 1 /\ n' = n - 1 /\ pc' = pc
            /\ touched' = [touched EXCEPT ![p] = len - p - 1]
            /\ UNCHANGED << kernel, grant, len >>
        BY <2>4, <3>2 DEF Reverse!ScalarStep
      <4>2. touched = Placed(p) /\ Front
        BY <2>2, <4>1 DEF Reversed
      <4>3. touched' = [i \in DOMAIN touched |-> IF i \in p .. p + 1 - 1 THEN len - 1 - i
                                                                       ELSE touched[i]]
        <5>1. DOMAIN touched = 0 .. MaxLen - 1
          BY <4>2
        <5>2. ASSUME NEW i \in 0 .. MaxLen - 1 PROVE i \in p .. p + 1 - 1 <=> i = p
          BY <2>2
        <5>3. len - p - 1 = len - 1 - p
          BY <2>2
        <5>. QED  BY <4>1, <5>1, <5>2, <5>3
      <4>4. p + 1 =< len
        BY <2>2, <3>2
      <4>5. touched' = Placed(p + 1)
        BY <2>2, <4>2, <4>3, <4>4, StoredInFront
      <4>. QED  BY <2>3, <4>1, <4>4, <4>5
    <3>. QED  BY <3>1, <3>2
  <2>5. CASE Reverse!VsseStep
    <3>1. /\ kernel = "vsse" /\ pc = "loop" /\ p' = p + v /\ n' = n - v
          /\ pc' = IF n' = 0 THEN "done" ELSE "loop"
          /\ UNCHANGED << kernel, grant, len >>
      BY <2>5 DEF Reverse!VsseStep
    <3>2. touched' = [i \in DOMAIN touched |->
                        IF i \in len - p - v .. len - p - 1
                          THEN p + (v - 1 - (i - (len - p - v))) ELSE touched[i]]
      BY <2>5 DEF Reverse!VsseStep, Reverse!Store
    <3>3. touched = Placed(p) /\ ~ Front
      BY <2>2, <3>1 DEF Reversed
    <3>4. touched' = [i \in DOMAIN touched |->
                        IF i \in len - p - v .. len - p - 1 THEN len - 1 - i ELSE touched[i]]
      <4>1. ASSUME NEW i \in len - p - v .. len - p - 1
            PROVE  p + (v - 1 - (i - (len - p - v))) = len - 1 - i
        BY <2>2
      <4>. QED  BY <3>2, <4>1
    <3>5. p + v =< len
      BY <2>2
    <3>6. touched' = Placed(p + v)
      BY <2>2, <3>3, <3>4, <3>5, StoredAtEnd
    <3>. QED  BY <2>3, <3>1, <3>5, <3>6
  <2>6. CASE Reverse!VlseStep
    <3>1. /\ kernel = "vlse" /\ pc = "loop" /\ p' = p + v /\ n' = n - v
          /\ pc' = IF n' = 0 THEN "done" ELSE "loop"
          /\ touched' = [i \in DOMAIN touched |->
                           IF i \in p .. p + v - 1 THEN n - 1 - (i - p) ELSE touched[i]]
          /\ UNCHANGED << kernel, grant, len >>
      BY <2>6 DEF Reverse!VlseStep
    <3>2. touched = Placed(p) /\ Front
      BY <2>2, <3>1 DEF Reversed
    <3>3. touched' = [i \in DOMAIN touched |->
                        IF i \in p .. p + v - 1 THEN len - 1 - i ELSE touched[i]]
      <4>1. ASSUME NEW i \in p .. p + v - 1 PROVE n - 1 - (i - p) = len - 1 - i
        BY <2>2
      <4>. QED  BY <3>1, <4>1
    <3>4. p + v =< len
      BY <2>2
    <3>5. touched' = Placed(p + v)
      BY <2>2, <3>2, <3>3, <3>4, StoredInFront
    <3>. QED  BY <2>3, <3>1, <3>4, <3>5
  <2>7. CASE Reverse!GatherStep
    <3>1. /\ kernel \in { "vrgatherei16", "m1_vrgatherei16" } /\ pc = "loop" /\ n >= VLMAX
          /\ p' = p + VLMAX /\ n' = n - VLMAX /\ pc' = pc
          /\ UNCHANGED << kernel, grant, len >>
      BY <2>7 DEF Reverse!GatherStep, Reverse!Gathers, Reverse!WholeGroup
    <3>2. touched' = [i \in DOMAIN touched |->
                        IF i \in len - p - VLMAX .. len - p - 1
                          THEN p + (Reverse!Register(i - (len - p - VLMAX)) * Reverse!GatherLen
                                    + (Reverse!GatherLen - 1
                                         - ((i - (len - p - VLMAX)) % Reverse!GatherLen)))
                          ELSE touched[i]]
      BY <2>7 DEF Reverse!GatherStep, Reverse!Store
    <3>3. touched = Placed(p) /\ ~ Front
      BY <2>2, <3>1 DEF Reversed
    <3>4. touched' = [i \in DOMAIN touched |->
                        IF i \in len - p - VLMAX .. len - p - 1 THEN len - 1 - i
                                                                ELSE touched[i]]
      <4>1. ASSUME NEW i \in len - p - VLMAX .. len - p - 1
            PROVE  p + (Reverse!Register(i - (len - p - VLMAX)) * Reverse!GatherLen
                         + (Reverse!GatherLen - 1
                              - ((i - (len - p - VLMAX)) % Reverse!GatherLen))) = len - 1 - i
        <5>1. PICK e \in 0 .. VLMAX - 1 : e = i - (len - p - VLMAX)
          BY <2>2, VLMAXAssumption
        <5>2. p + (VLMAX - 1 - e) = len - 1 - i
          BY <2>2, <5>1, VLMAXAssumption
        <5>. QED  BY <3>1, <5>1, <5>2, GroupReversed
      <4>. QED  BY <3>2, <4>1
    <3>5. p + VLMAX =< len
      BY <2>2, <3>1, VLMAXAssumption
    <3>6. touched' = Placed(p + VLMAX)
      BY <2>2, <3>3, <3>4, <3>5, StoredAtEnd, VLMAXAssumption
    <3>. QED  BY <2>2, <2>3, <3>1, <3>5, <3>6, VLMAXAssumption
  <2>8. CASE Reverse!GatherTail
    <3>1. /\ kernel \in { "vrgatherei16", "m1_vrgatherei16" } /\ pc = "loop" /\ v = n
          /\ pc' = "done" /\ UNCHANGED << kernel, grant, len, n, p >>
      <4>1. n < VLMAX /\ v = n
        <5>1. ~ (n >= VLMAX)
          BY <2>8 DEF Reverse!GatherTail, Reverse!WholeGroup
        <5>2. n < VLMAX
          BY <2>2, <5>1, VLMAXAssumption
        <5>. QED  BY <5>2
      <4>. QED  BY <2>8, <4>1 DEF Reverse!GatherTail, Reverse!Gathers
    <3>2. touched' = [i \in DOMAIN touched |->
                        IF i \in len - p - n .. len - p - 1
                          THEN p + (n - 1 - (i - (len - p - n))) ELSE touched[i]]
      BY <2>8, <3>1 DEF Reverse!GatherTail, Reverse!Store
    <3>3. touched = Placed(p) /\ ~ Front
      BY <2>2, <3>1 DEF Reversed
    <3>4. touched' = [i \in DOMAIN touched |->
                        IF i \in len - p - n .. len - p - 1 THEN len - 1 - i ELSE touched[i]]
      <4>1. ASSUME NEW i \in len - p - n .. len - p - 1
            PROVE  p + (n - 1 - (i - (len - p - n))) = len - 1 - i
        BY <2>2
      <4>. QED  BY <3>2, <4>1
    <3>5. touched' = Placed(p + n)
      <4>1. p + n =< len
        BY <2>2
      <4>. QED  BY <2>2, <3>3, <3>4, <4>1, StoredAtEnd
    <3>6. Reversed' = p + n
      BY <2>2, <3>1 DEF Reversed
    <3>. QED  BY <2>2, <3>1, <3>5, <3>6 DEF ReverseInv, Reverse!Gathers
  <2>9. CASE Reverse!Terminating
    BY <2>1, <2>2, <2>9 DEF Reverse!Terminating, Reverse!wvars, ReverseInv, Reversed,
       Reverse!Gathers
  <2>. QED
    BY <2>1, <2>4, <2>5, <2>6, <2>7, <2>8, <2>9 DEF Reverse!Next
<1>. QED  BY <1>1, <1>2

-----------------------------------------------------------------------------
(* The kernels of Tables.                                                  *)

\* what byte j is in the end, and in the beginning
Made(j) == CASE function \in { "LUT4", "LUT6" } -> Table!Entry(j)
             [] function = "byteswap32"         -> Table!Reversed(j)
             [] OTHER                           -> Table!Widened(j)
Given(j) == IF Table!InPlaceFunction THEN j ELSE Table!NotStored

\* the zeros of vss that are there and have no byte between them yet
Zeros == IF pc = "bytes" THEN grant[n] ELSE 0

\* k elements are done, and z after them are zero
TableBytes(k, z) ==
  [j \in 0 .. Table!Size * TablesMaxLen - 1 |->
     IF j < Table!Size * k THEN Made(j)
     ELSE IF j < Table!Size * (k + z) THEN Table!Zero ELSE Given(j)]

(***************************************************************************)
(* The registers that LUT6 gathers from hold the table, although t1 is not *)
(* the comparison any more after the first chunk.                          *)
(***************************************************************************)
TableFits ==
  /\ function = "LUT4" => kernel # "m1m2m4_vrgathers"
  /\ function \in { "LUT4", "LUT6" } =>
       /\ tail = 0 => saddr =< Table!Register
       /\ quarter = 0 => saddr =< 2 * Table!Register
       /\ saddr =< 4 * Table!Register

TablesInv ==
  function \in Table!Functions =>
    /\ kernel \in Table!Kernels(function) /\ grant \in Strip!Processors
    /\ len \in 0 .. TablesMaxLen /\ p \in Nat /\ n \in Nat /\ p + n = len
    /\ pc \in { "loop", "bytes", "done" }
    /\ pc = "bytes" => kernel = "vss" /\ ~ Table!InPlaceFunction /\ vl = grant[n]
    /\ pc = "done" => n = 0
    /\ saddr \in Nat /\ TableFits
    /\ touched = TableBytes(p, Zeros)


LEMMA Sizes ==
  ASSUME NEW a \in Nat, NEW b \in Nat
  PROVE  /\ Table!Size \in { 1, 2, 4 } /\ Table!Size * a \in Nat
         /\ Table!Size * (a + b) = Table!Size * a + Table!Size * b
         /\ Table!Size * (a + 0) = Table!Size * a
         /\ a =< b => Table!Size * a =< Table!Size * b
<1>1. Table!Size \in { 1, 2, 4 }
  BY DEF Table!Size
<1>. QED  BY <1>1

LEMMA TablesStart == Init => TablesInv
<1>. SUFFICES ASSUME Init, function \in Table!Functions PROVE TablesInv
  BY DEF TablesInv
<1>1. Table!TablesInit /\ grant \in Strip!Processors
  BY DEF Init, Start, Strip!Functions, Number!Functions, Table!Functions
<1>2. PICK r \in Nat : r = Table!Register
  <2>1. PICK s \in { 1, 2, 4 } : s = Table!Size
    BY Sizes
  <2>. QED  BY <2>1, VLMAXAssumption DEF Table!Register
<1>3. saddr \in Nat /\ TableFits
  BY <1>1, <1>2 DEF Table!TablesInit, Table!Kernels, TableFits
<1>4. touched = TableBytes(p, Zeros)
  <2>1. p = 0 /\ Zeros = 0 /\ Table!Size * 0 = 0 /\ Table!Size * (0 + 0) = 0
    BY <1>1, Sizes DEF Table!TablesInit, Zeros
  <2>2. touched = [j \in 0 .. Table!Size * TablesMaxLen - 1 |-> Given(j)]
    BY <1>1 DEF Table!TablesInit, Given
  <2>3. ASSUME NEW j \in 0 .. Table!Size * TablesMaxLen - 1 PROVE ~ (j < 0)
    BY Sizes, TablesAssumption
  <2>. QED  BY <2>1, <2>2, <2>3 DEF TableBytes
<1>5. len \in Nat /\ len =< TablesMaxLen /\ pc = "loop" /\ n = len /\ p = 0
  BY <1>1, TablesAssumption, MaxLenAssumption DEF Table!TablesInit
<1>. QED
  BY <1>1, <1>3, <1>4, <1>5 DEF Table!TablesInit, TablesInv

\* the next k elements are stored
LEMMA Advanced ==
  ASSUME NEW k \in Nat, NEW z \in 0 .. k, p \in Nat, touched = TableBytes(p, z),
         touched' = [j \in DOMAIN touched |->
                       IF j \in Table!Size * p .. Table!Size * (p + k) - 1
                         THEN Made(j) ELSE touched[j]]
  PROVE  touched' = TableBytes(p + k, 0)
<1>. DEFINE cells == 0 .. Table!Size * TablesMaxLen - 1
<1>1. PICK lo \in Nat, hi \in Nat, mid \in Nat, top \in Int :
        /\ lo = Table!Size * p /\ hi = Table!Size * (p + k) /\ mid = Table!Size * (p + z)
        /\ top = Table!Size * TablesMaxLen - 1
        /\ lo =< mid /\ mid =< hi
  <2>1. p + k \in Nat /\ p + z \in Nat /\ p =< p + z /\ p + z =< p + k /\ TablesMaxLen \in Nat
    BY TablesAssumption, MaxLenAssumption
  <2>2. /\ Table!Size * p \in Nat /\ Table!Size * (p + k) \in Nat
        /\ Table!Size * (p + z) \in Nat /\ Table!Size * TablesMaxLen \in Nat
    BY <2>1, Sizes
  <2>3. /\ Table!Size * p =< Table!Size * (p + z)
        /\ Table!Size * (p + z) =< Table!Size * (p + k)
    BY <2>1, Sizes
  <2>4. Table!Size * TablesMaxLen - 1 \in Int
    BY <2>2
  <2>. QED  BY <2>2, <2>3, <2>4
<1>2. Table!Size * ((p + k) + 0) = hi
  <2>1. p + k \in Nat
    OBVIOUS
  <2>. QED  BY <1>1, <2>1, Sizes
<1>3. touched = [j \in cells |-> IF j < lo THEN Made(j)
                                 ELSE IF j < mid THEN Table!Zero ELSE Given(j)]
  BY <1>1 DEF TableBytes
<1>4. ASSUME NEW j \in cells
      PROVE  (IF j \in lo .. hi - 1 THEN Made(j) ELSE touched[j])
               = IF j < hi THEN Made(j) ELSE IF j < hi THEN Table!Zero ELSE Given(j)
  <2>1. touched[j] = IF j < lo THEN Made(j) ELSE IF j < mid THEN Table!Zero ELSE Given(j)
    BY <1>3
  <2>2. j \in Nat
    BY <1>1
  <2>3. (j \in lo .. hi - 1 <=> j >= lo /\ j < hi) /\ (j < lo => j < hi) /\ (j < mid => j < hi)
        /\ (j < lo \/ j >= lo)
    BY ONLY <1>1, <2>2
  <2>. QED  BY <2>1, <2>3
<1>5. DOMAIN touched = cells
  BY <1>3
<1>6. touched' = [j \in cells |-> IF j \in lo .. hi - 1 THEN Made(j) ELSE touched[j]]
  BY <1>1, <1>5
<1>. QED  BY <1>1, <1>2, <1>4, <1>6 DEF TableBytes

\* the source byte of a byte of a word that is done is in the same word
LEMMA InItsWord ==
  ASSUME NEW j \in Nat, NEW a \in Nat, NEW b \in Nat, j \in 4 * a .. 4 * b - 1
  PROVE  Table!Reversed(j) \in 4 * a .. 4 * b - 1
BY DEF Table!Reversed

\* the byte that a gather takes from registers of so many bytes
LEMMA SameByte ==
  ASSUME NEW w \in Nat \ {0}, w % 4 = 0, NEW q \in Nat, NEW j \in Nat, j >= 4 * q
  PROVE  4 * q + ((j - 4 * q) \div w) * w + Table!Index((j - 4 * q) % w) = Table!Reversed(j)
<1>1. PICK e \in Nat : e = j - 4 * q /\ j = 4 * q + e
  OBVIOUS
<1>2. PICK x \in Nat, r \in 0 .. w - 1 : x = e \div w /\ r = e % w /\ e = x * w + r
  BY Quotient
<1>3. PICK v \in Nat : w = 4 * v
  BY MultipleIs
<1>4. PICK c \in Nat, d \in 0 .. 3 : c = r \div 4 /\ d = r % 4 /\ r = 4 * c + d
  OBVIOUS
<1>5. PICK y \in Nat : y = x * v /\ x * w = 4 * y
  BY <1>3
<1>6. Table!Index(r) = c * 4 + (3 - d)
  BY <1>4 DEF Table!Index
<1>7. j = 4 * (q + y + c) + d
  <2>1. e = 4 * y + r
    BY <1>2, <1>5
  <2>. QED
    BY ONLY <1>1, <1>4, <2>1, y \in Nat, c \in Nat, d \in 0 .. 3, q \in Nat, e \in Nat, j \in Nat
<1>8. j % 4 = d
  BY <1>7
<1>9. Table!Reversed(j) = j + 3 - 2 * d
  BY <1>8 DEF Table!Reversed
<1>10. 4 * q + x * w + Table!Index(r) = j + 3 - 2 * d
  BY <1>5, <1>6, <1>7
<1>. QED  BY <1>1, <1>2, <1>9, <1>10


LEMMA TablesStep == TablesInv /\ [Next]_vars => TablesInv'
<1>. SUFFICES ASSUME TablesInv, [Next]_vars, function' \in Table!Functions PROVE TablesInv'
  BY DEF TablesInv
<1>. USE MaxLenAssumption, TablesAssumption
<1>1. CASE UNCHANGED vars
  BY <1>1 DEF vars, TablesInv, TableFits, Table!Register, Table!Size, TableBytes, Zeros,
     Made, Given, Table!InPlaceFunction, Table!Entry, Table!Reversed, Table!Widened
<1>2. CASE Next
  <2>1. function \in Table!Functions /\ Table!TablesNext /\ function' = function
    BY <1>2, OneRuns DEF Strip!Functions, Number!Functions, Table!Functions
  <2>2. /\ kernel \in Table!Kernels(function) /\ grant \in Strip!Processors
        /\ len \in Nat /\ len =< TablesMaxLen /\ TablesMaxLen =< MaxLen
        /\ p \in Nat /\ n \in Nat /\ p + n = len
        /\ pc \in { "loop", "bytes", "done" } /\ (pc = "done" => n = 0)
        /\ pc = "bytes" => kernel = "vss" /\ ~ Table!InPlaceFunction /\ vl = grant[n]
        /\ saddr \in Nat /\ TableFits
        /\ touched = TableBytes(p, Zeros)
    BY <2>1 DEF TablesInv
  <2>. PICK v \in Nat : v = grant[n] /\ v =< n
    BY <2>2, Grants, VLMAXAssumption
  <2>. PICK s \in { 1, 2, 4 } : s = Table!Size
    BY Sizes
  <2>. PICK reg \in Nat \ {0} : reg = Table!Register /\ (s = 4 => reg = VLMAX)
    BY VLMAXAssumption, MultipleIs DEF Table!Register
  <2>. DEFINE cells == 0 .. s * TablesMaxLen - 1
  <2>3. \A a, b : TableBytes(a, b)' = TableBytes(a, b)
    BY <2>1 DEF TableBytes, Table!Size, Made, Given, Table!InPlaceFunction, Table!Entry,
       Table!Reversed, Table!Widened, Table!Zero, Table!NotStored
  <2>4. touched = [j \in cells |-> IF j < s * p THEN Made(j)
                                   ELSE IF j < s * (p + Zeros) THEN Table!Zero ELSE Given(j)]
    BY <2>2 DEF TableBytes
  <2>5. pc = "loop" => Zeros = 0 /\ \A j \in cells : j >= s * p => touched[j] = Given(j)
    <3>1. \A j \in cells : j \in Int
      OBVIOUS
    <3>. QED  BY <2>2, <2>4, <3>1 DEF Zeros
  <2>6. ASSUME NEW k \in Nat, k =< n, p' = p + k, n' = n - k, pc \in { "loop", "bytes" },
               touched' = [j \in DOMAIN touched |->
                             IF j \in s * p .. s * (p + k) - 1 THEN Made(j) ELSE touched[j]],
               pc = "bytes" => k = v, TableFits',
               UNCHANGED << kernel, grant, len, saddr >>,
               pc' = "loop" \/ (pc' = "done" /\ n' = 0)
        PROVE  TablesInv'
    <3>1. p' \in Nat /\ n' \in Nat /\ p' + n' = len'
      BY <2>2, <2>6
    <3>2. PICK z \in 0 .. k : z = Zeros
      BY <2>2, <2>6 DEF Zeros
    <3>3. touched' = TableBytes(p + k, 0)
      BY <2>2, <2>6, <3>2, Advanced
    <3>4. Zeros' = 0
      BY <2>6 DEF Zeros
    <3>5. touched' = TableBytes(p, Zeros)'
      BY <2>3, <2>6, <3>3, <3>4
    <3>. QED  BY <2>1, <2>2, <2>6, <3>1, <3>5 DEF TablesInv
  <2>7. ASSUME NEW k \in Nat, k =< n, NEW j \in s * p .. s * (p + k) - 1
        PROVE  /\ j \in cells /\ j >= s * p /\ j \in Nat
               /\ s = 4 => Table!Reversed(j) \in cells /\ Table!Reversed(j) >= s * p
    <3>1. s * p \in Nat /\ s * (p + k) \in Nat /\ s * (p + k) =< s * TablesMaxLen
      <4>1. p \in Nat /\ p + k \in Nat /\ TablesMaxLen \in Nat /\ p + k =< TablesMaxLen
        BY <2>2, <2>7
      <4>. QED  BY <4>1, Sizes
    <3>2. PICK lo \in Nat, hi \in Nat : lo = s * p /\ hi = s * (p + k)
      BY <3>1
    <3>3. PICK top \in Nat : top = s * TablesMaxLen
      BY Sizes
    <3>4. j \in Nat /\ j \in cells /\ j >= s * p
      BY <3>1, <3>2, <3>3
    <3>5. ASSUME s = 4 PROVE Table!Reversed(j) \in cells /\ Table!Reversed(j) >= s * p
      <4>1. p \in Nat /\ p + k \in Nat /\ j \in 4 * p .. 4 * (p + k) - 1
        BY <2>2, <2>7, <3>5
      <4>2. Table!Reversed(j) \in lo .. hi - 1
        BY <3>2, <3>4, <3>5, <4>1, InItsWord
      <4>. QED  BY <3>1, <3>2, <3>3, <4>2
    <3>. QED  BY <3>4, <3>5
  <2>8. UNCHANGED << function, kernel, saddr, tail, quarter >> => TableFits'
    BY <2>2 DEF TableFits, Table!Register, Table!Size
  <2>9. CASE Table!LookUp
    <3>1. /\ function \in { "LUT4", "LUT6" } /\ kernel # "scalar" /\ pc = "loop"
          /\ p' = p + v /\ n' = n - v /\ pc' = IF n' = 0 THEN "done" ELSE "loop"
          /\ tail' = tail \/ tail' = reg \/ tail' = 2 * reg
          /\ UNCHANGED << function, kernel, grant, saddr, len, quarter >>
      BY <2>9 DEF Table!LookUp, Table!Advance
    <3>2. touched' = [j \in DOMAIN touched |->
             IF j \in s * p .. s * (p + v) - 1 THEN Table!LookedUp(touched[j], Table!Reach)
                                              ELSE touched[j]]
      BY <2>9 DEF Table!LookUp, Table!Store
    <3>3. saddr =< Table!Reach
      BY <2>2, <3>1 DEF Table!Reach, TableFits
    <3>4. ASSUME NEW j \in s * p .. s * (p + v) - 1
          PROVE  Table!LookedUp(touched[j], Table!Reach) = Made(j)
      <4>1. touched[j] = j /\ j \in 0 .. TablesMaxLen - 1
        <5>1. s = 1
          BY <3>1 DEF Table!Size
        <5>2. j \in cells /\ j >= s * p
          BY <2>7
        <5>. QED  BY <2>5, <3>1, <5>1, <5>2 DEF Given, Table!InPlaceFunction
      <4>. QED  BY <3>1, <3>3, <4>1 DEF Table!LookedUp, Made
    <3>5. touched' = [j \in DOMAIN touched |->
                        IF j \in s * p .. s * (p + v) - 1 THEN Made(j) ELSE touched[j]]
      BY <3>2, <3>4
    <3>6. TableFits'
      <4>1. reg' = reg /\ Table!Register' = reg
        BY <3>1 DEF Table!Register, Table!Size
      <4>2. tail' = 0 => tail = 0
        BY <3>1
      <4>. QED  BY <2>2, <3>1, <4>1, <4>2 DEF TableFits
    <3>. QED  BY <2>6, <3>1, <3>5, <3>6
  <2>10. CASE Table!Swap
    <3>1. /\ function = "byteswap32" /\ kernel # "scalar" /\ pc = "loop" /\ p' = p + v
          /\ n' = n - v /\ pc' = IF n' = 0 THEN "done" ELSE "loop"
          /\ UNCHANGED << function, kernel, grant, saddr, len, tail, quarter >>
      BY <2>10 DEF Table!Swap, Table!Advance
    <3>2. s = 4
      BY <3>1 DEF Table!Size
    <3>3. touched' = [j \in DOMAIN touched |->
             IF j \in s * p .. s * (p + v) - 1
               THEN CASE kernel = "vrgatherei16"         -> Table!Gathered(j, 4 * VLMAX)
                      [] kernel = "m1_vrgatherei16s"     -> Table!Gathered(j, Table!Register)
                      [] kernel \in { "vrev8", "seg4" }  -> touched[Table!Reversed(j)]
               ELSE touched[j]]
      BY <2>10 DEF Table!Swap, Table!Store
    <3>4. ASSUME NEW j \in s * p .. s * (p + v) - 1
          PROVE  /\ touched[Table!Reversed(j)] = Made(j)
                 /\ Table!Gathered(j, 4 * VLMAX) = Made(j)
                 /\ Table!Gathered(j, Table!Register) = Made(j)
      <4>1. j \in Nat /\ j >= 4 * p /\ Table!Reversed(j) \in cells /\ Table!Reversed(j) >= s * p
        BY <2>7, <3>2
      <4>2. touched[Table!Reversed(j)] = Made(j)
        BY <2>5, <3>1, <4>1 DEF Made, Given, Table!InPlaceFunction
      <4>3. ASSUME NEW w \in Nat \ {0}, w % 4 = 0
            PROVE  Table!Gathered(j, w) = touched[Table!Reversed(j)]
        <5>1. 4 * p + ((j - 4 * p) \div w) * w + Table!Index((j - 4 * p) % w)
                = Table!Reversed(j)
          BY <2>2, <4>1, <4>3, SameByte
        <5>. QED  BY <3>2, <5>1 DEF Table!Gathered
      <4>4. 4 * VLMAX \in Nat \ {0} /\ (4 * VLMAX) % 4 = 0 /\ reg % 4 = 0
        BY <3>2, VLMAXAssumption
      <4>. QED  BY <4>2, <4>3, <4>4
    <3>5. kernel \in { "vrev8", "seg4", "vrgatherei16", "m1_vrgatherei16s" }
      BY <2>2, <3>1 DEF Table!Kernels
    <3>6. touched' = [j \in DOMAIN touched |->
                        IF j \in s * p .. s * (p + v) - 1 THEN Made(j) ELSE touched[j]]
      BY <3>3, <3>4, <3>5
    <3>. QED  BY <2>6, <2>8, <3>1, <3>6
  <2>11. CASE Table!Widen
    <3>1. /\ ~ Table!InPlaceFunction /\ pc = "loop" /\ p' = p + v
          /\ n' = n - v /\ pc' = IF n' = 0 THEN "done" ELSE "loop"
          /\ UNCHANGED << function, kernel, grant, saddr, len, tail, quarter >>
      BY <2>11 DEF Table!Widen, Table!Advance
    <3>2. touched' = [j \in DOMAIN touched |->
             IF j \in s * p .. s * (p + v) - 1 THEN Table!Widened(j) ELSE touched[j]]
      BY <2>11 DEF Table!Widen, Table!Store
    <3>3. \A j : Table!Widened(j) = Made(j)
      BY <3>1 DEF Made, Table!InPlaceFunction
    <3>4. touched' = [j \in DOMAIN touched |->
                        IF j \in s * p .. s * (p + v) - 1 THEN Made(j) ELSE touched[j]]
      BY <3>2, <3>3
    <3>. QED  BY <2>6, <2>8, <3>1, <3>4
  <2>12. CASE Table!StoreZeros
    <3>1. /\ ~ Table!InPlaceFunction /\ kernel = "vss" /\ pc = "loop" /\ pc' = "bytes"
          /\ vl' = v
          /\ UNCHANGED << function, kernel, grant, saddr, len, n, p, tail, quarter >>
      BY <2>12 DEF Table!StoreZeros
    <3>2. touched' = [j \in DOMAIN touched |->
             IF j \in s * p .. s * (p + v) - 1 THEN Table!Zero ELSE touched[j]]
      BY <2>12 DEF Table!StoreZeros, Table!Store
    <3>3. PICK lo \in Nat, hi \in Nat : lo = s * p /\ hi = s * (p + v) /\ lo =< hi
      <4>1. p \in Nat /\ p + v \in Nat /\ p =< p + v
        BY <2>2
      <4>. QED  BY <4>1, Sizes
    <3>4. ASSUME NEW j \in cells
          PROVE  (IF j \in lo .. hi - 1 THEN Table!Zero ELSE touched[j])
                   = IF j < lo THEN Made(j) ELSE IF j < hi THEN Table!Zero ELSE Given(j)
      <4>1. touched[j] = IF j < lo THEN Made(j) ELSE Given(j)
        <5>1. Zeros = 0 /\ s * (p + 0) = lo
          BY <2>2, <2>5, <3>1, <3>3
        <5>. QED  BY <2>4, <3>3, <5>1
      <4>2. j \in Int
        OBVIOUS
      <4>3. (j \in lo .. hi - 1 <=> ~ (j < lo) /\ j < hi) /\ (j < lo => j < hi)
        BY ONLY <4>2, <3>3, lo \in Nat, hi \in Nat
      <4>. QED  BY <4>1, <4>3
    <3>5. DOMAIN touched = cells
      BY <2>4
    <3>6. touched' = TableBytes(p, v)
      BY <3>2, <3>3, <3>4, <3>5 DEF TableBytes
    <3>7. Zeros' = v
      BY <3>1 DEF Zeros
    <3>8. touched' = TableBytes(p, Zeros)'
      BY <2>3, <3>1, <3>6, <3>7
    <3>9. ~ Table!InPlaceFunction' /\ vl' = grant'[n']
      BY <3>1 DEF Table!InPlaceFunction
    <3>. QED  BY <2>1, <2>2, <2>8, <3>1, <3>8, <3>9 DEF TablesInv
  <2>13. CASE Table!StoreBytes
    <3>1. /\ pc = "bytes" /\ p' = p + v /\ n' = n - v /\ ~ Table!InPlaceFunction
          /\ pc' = IF n' = 0 THEN "done" ELSE "loop"
          /\ UNCHANGED << function, kernel, grant, saddr, len, tail, quarter >>
      BY <2>2, <2>13 DEF Table!StoreBytes, Table!Advance
    <3>2. touched' = [j \in DOMAIN touched |->
             IF j \in s * p .. s * (p + v) - 1
               THEN IF j % s = 0 THEN j \div s ELSE touched[j] ELSE touched[j]]
      BY <2>13 DEF Table!StoreBytes, Table!Store
    <3>3. ASSUME NEW j \in s * p .. s * (p + v) - 1
          PROVE  (IF j % s = 0 THEN j \div s ELSE touched[j]) = Made(j)
      <4>1. touched[j] = Table!Zero
        <5>1. j \in cells /\ j >= s * p /\ Zeros = v
          BY <2>7, <3>1 DEF Zeros
        <5>2. PICK lo \in Nat, hi \in Nat : lo = s * p /\ hi = s * (p + v)
          <6>1. p \in Nat /\ p + v \in Nat
            BY <2>2
          <6>. QED  BY <6>1, Sizes
        <5>3. ~ (j < lo) /\ j < hi
          BY <5>1, <5>2
        <5>. QED  BY <2>4, <5>1, <5>2, <5>3
      <4>. QED  BY <3>1, <4>1 DEF Made, Table!InPlaceFunction, Table!Widened
    <3>4. touched' = [j \in DOMAIN touched |->
                        IF j \in s * p .. s * (p + v) - 1 THEN Made(j) ELSE touched[j]]
      BY <3>2, <3>3
    <3>. QED  BY <2>6, <2>8, <3>1, <3>4
  <2>14. CASE Table!ScalarElement
    <3>1. /\ kernel = "scalar" /\ pc = "loop"
          /\ UNCHANGED << function, kernel, grant, saddr, len, tail, quarter >>
      BY <2>14 DEF Table!ScalarElement
    <3>2. CASE n = 0
      <4>1. pc' = "done" /\ UNCHANGED << n, p, touched >> /\ Zeros' = 0 /\ Zeros = 0
        BY <2>5, <2>14, <3>1, <3>2 DEF Table!ScalarElement, Zeros
      <4>2. touched' = TableBytes(p, Zeros)'
        BY <2>2, <2>3, <4>1
      <4>. QED  BY <2>1, <2>2, <2>8, <3>1, <3>2, <4>1, <4>2 DEF TablesInv
    <3>3. CASE n # 0
      <4>1. p' = p + 1 /\ n' = n - 1 /\ pc' = pc
        BY <2>14, <3>3 DEF Table!ScalarElement
      <4>2. touched' = [j \in DOMAIN touched |->
               IF j \in s * p .. s * (p + 1) - 1
                 THEN CASE function \in { "LUT4", "LUT6" } -> Table!LookedUp(touched[j], saddr)
                        [] function = "byteswap32" -> touched[Table!Reversed(j)]
                        [] OTHER                   -> Table!Widened(j)
                 ELSE touched[j]]
        BY <2>14, <3>3 DEF Table!ScalarElement, Table!Store
      <4>3. 1 =< n
        BY <2>2, <3>3
      <4>4. ASSUME NEW j \in s * p .. s * (p + 1) - 1
            PROVE  (CASE function \in { "LUT4", "LUT6" } -> Table!LookedUp(touched[j], saddr)
                      [] function = "byteswap32" -> touched[Table!Reversed(j)]
                      [] OTHER                   -> Table!Widened(j)) = Made(j)
        <5>1. /\ j \in cells /\ j >= s * p
              /\ s = 4 => Table!Reversed(j) \in cells /\ Table!Reversed(j) >= s * p
          BY <2>7, <4>3
        <5>2. CASE function \in { "LUT4", "LUT6" }
          <6>1. s = 1
            BY <5>2 DEF Table!Size
          <6>2. touched[j] = j /\ j \in 0 .. TablesMaxLen - 1
            BY <2>5, <3>1, <5>1, <5>2, <6>1 DEF Given, Table!InPlaceFunction
          <6>. QED  BY <2>2, <5>2, <6>2 DEF Table!LookedUp, Made
        <5>3. CASE function = "byteswap32"
          <6>1. s = 4
            BY <5>3 DEF Table!Size
          <6>2. touched[Table!Reversed(j)] = Table!Reversed(j)
            BY <2>5, <3>1, <5>1, <5>3, <6>1 DEF Given, Table!InPlaceFunction
          <6>. QED  BY <5>3, <6>2 DEF Made
        <5>4. CASE function \notin { "LUT4", "LUT6", "byteswap32" }
          BY <5>4 DEF Made
        <5>. QED  BY <5>2, <5>3, <5>4
      <4>5. touched' = [j \in DOMAIN touched |->
                          IF j \in s * p .. s * (p + 1) - 1 THEN Made(j) ELSE touched[j]]
        BY <4>2, <4>4
      <4>. QED  BY <2>6, <2>8, <3>1, <4>1, <4>3, <4>5
    <3>. QED  BY <3>2, <3>3
  <2>15. CASE pc = "done" /\ UNCHANGED Table!bvars
    <3>1. Zeros' = Zeros
      BY <2>15 DEF Table!bvars, Zeros
    <3>2. touched' = TableBytes(p, Zeros)'
      BY <2>2, <2>3, <2>15, <3>1 DEF Table!bvars
    <3>3. Table!InPlaceFunction' = Table!InPlaceFunction
      BY <2>1 DEF Table!InPlaceFunction
    <3>. QED  BY <2>1, <2>2, <2>8, <2>15, <3>2, <3>3 DEF Table!bvars, TablesInv
  <2>. QED
    BY <2>1, <2>9, <2>10, <2>11, <2>12, <2>13, <2>14, <2>15 DEF Table!TablesNext
<1>. QED  BY <1>1, <1>2

-----------------------------------------------------------------------------
(* b64_encode.                                                             *)

(***************************************************************************)
(* Three bytes have become four characters, and what is left begins with   *)
(* the first of three, unless nothing is.                                  *)
(***************************************************************************)
EncodeInv ==
  function = "b64_encode" =>
    /\ kernel \in Encode!EncodeKernels
    /\ \E m \in Machines : saddr = m[1] /\ addr = m[2]
    /\ len \in 0 .. EncodeMaxLen /\ n \in Nat /\ p \in Nat /\ p + n = len
    /\ pc \in { "enter", "loop", "scalar", "done" }
    /\ pc = "loop" => kernel # "scalar" /\ n >= 4 * VLMAX
    /\ pc = "done" => n = 0
    /\ filled = 4 * ((p + 2) \div 3) /\ (n > 0 => p % 3 = 0)
    /\ access \subseteq 0 .. len - 1
    /\ touched = [c \in 0 .. 4 * ((EncodeMaxLen + 2) \div 3) - 1 |->
                    IF c < filled THEN Encode!Expected(c) ELSE Encode!NotStored]

LEMMA EncodeStart == Init => EncodeInv
<1>. SUFFICES ASSUME Init, function = "b64_encode" PROVE EncodeInv
  BY DEF EncodeInv
<1>1. Encode!EncodeInit
  BY DEF Init, Start, Strip!Functions, Number!Functions, Table!Functions
<1>2. \A c \in 0 .. 4 * ((EncodeMaxLen + 2) \div 3) - 1 : ~ (c < 0)
  BY MachinesAssumption
<1>3. 4 * ((0 + 2) \div 3) = 0 /\ 0 % 3 = 0
  OBVIOUS
<1>4. len \in Nat /\ len + 0 = len /\ 0 + len = len
  BY <1>1, MachinesAssumption DEF Encode!EncodeInit
<1>. QED
  BY <1>1, <1>2, <1>3, <1>4, MachinesAssumption DEF Encode!EncodeInit, EncodeInv

\* the bits of character d of four, which are made of byte i and the next two
Bits6(i, d) == [b \in 0 .. 5 |-> 8 * i + 6 * d + 5 - b]

LEMMA ExpectedIs ==
  ASSUME NEW m \in Nat, NEW d \in 0 .. 3, len \in Nat, 3 * m + 3 =< len
  PROVE  Encode!Expected(4 * m + d) = Bits6(3 * m, d)
<1>1. ~ (6 * (4 * m + d) >= 8 * len)
  OBVIOUS
<1>2. ASSUME NEW b \in 0 .. 5
      PROVE  /\ Encode!Character(4 * m + d)[b] = 8 * (3 * m) + 6 * d + 5 - b
             /\ 8 * (3 * m) + 6 * d + 5 - b < 8 * len
  BY DEF Encode!Character
<1>. QED  BY <1>1, <1>2 DEF Encode!Expected, Bits6

\* what is gathered for byte f of four: one of three bytes
LEMMA GatheredIs ==
  ASSUME p \in Nat, addr \in Nat \ {0}, NEW t \in Nat, t < VLMAX, NEW f \in 0 .. 3
  PROVE  Encode!Gathered(4 * t + f) = p + 3 * t + Encode!Indices[f + 1]
<1>1. PICK v \in Nat \ {0} : VLMAX = 4 * v
  BY MultipleIs, VLMAXAssumption, TablesAssumption
<1>2. PICK r \in Nat, u \in 0 .. v - 1 : t = r * v + u
  BY Quotient
<1>3. r \in 0 .. 3
  <2>1. 4 =< r => 4 * v =< r * v
    <3>1. 3 < r => 3 * v + v =< r * v
      BY OneMoreFits
    <3>. QED  BY <3>1
  <2>2. PICK x \in Nat : x = r * v
    OBVIOUS
  <2>3. ~ (4 =< r)
    BY ONLY <1>1, <1>2, <2>1, <2>2, t < VLMAX, v \in Nat, t \in Nat, u \in 0 .. v - 1
  <2>. QED  BY <2>3
<1>4. PICK a \in 0 .. VLMAX - 1 : a = 4 * u + f
  BY <1>1
<1>5. 4 * t + f = r * VLMAX + a
  <2>1. r * VLMAX = 4 * (r * v)
    BY <1>1, <1>3
  <2>2. PICK x \in Nat : x = r * v
    OBVIOUS
  <2>. QED
    BY ONLY <1>2, <1>4, <2>1, <2>2, u \in 0 .. v - 1, v \in Nat, f \in 0 .. 3
<1>6. (4 * t + f) \div VLMAX = r /\ (4 * t + f) % VLMAX = a
  BY <1>5, QuotientUnique, VLMAXAssumption
<1>7. Encode!Offset(r) = 3 * (r * v)
  BY <1>1, <1>3 DEF Encode!Offset
<1>8. PICK x \in 0 .. VLMAX - 1 : x = 3 * u + Encode!Indices[f + 1] /\ x = Encode!Index(a)
  <2>1. a \div 4 = u /\ a % 4 = f
    BY <1>4
  <2>2. Encode!Indices[f + 1] \in 0 .. 2
    BY DEF Encode!Indices
  <2>3. 3 * u + Encode!Indices[f + 1] \in 0 .. VLMAX - 1
    BY <1>1, <2>2
  <2>. QED  BY <2>1, <2>3 DEF Encode!Index
<1>9. Encode!GatherIndex(a) = x
  <2>1. CASE addr < VLMAX
    BY <1>8, <2>1 DEF Encode!GatherIndex
  <2>2. CASE ~ (addr < VLMAX)
    <3>1. x \in 0 .. addr - 1
      BY <2>2, VLMAXAssumption
    <3>2. (0 * addr + x) % addr = x /\ 0 * addr + x = x
      BY <3>1, QuotientUnique
    <3>. QED  BY <1>8, <2>2, <3>2 DEF Encode!GatherIndex
  <2>. QED  BY <2>1, <2>2
<1>10. Encode!Gathered(4 * t + f) = p + 3 * (r * v) + x
  BY <1>6, <1>7, <1>9 DEF Encode!Gathered
<1>11. Encode!Indices[f + 1] \in Nat
  BY DEF Encode!Indices
<1>12. PICK y \in Nat : y = r * v
  OBVIOUS
<1>. QED
  BY ONLY <1>2, <1>8, <1>10, <1>11, <1>12, p \in Nat, t \in Nat, u \in 0 .. v - 1, v \in Nat

LEMMA SextetIs ==
  ASSUME p \in Nat, addr \in Nat \ {0}, NEW t \in Nat, t < VLMAX, NEW d \in 0 .. 3
  PROVE  Encode!Sextet(4 * t + d) = Bits6(p + 3 * t, d)
<1>. DEFINE e == 4 * t + d
<1>1. /\ Encode!Gathered(4 * t) = p + 3 * t + 1
      /\ Encode!Gathered(4 * t + 1) = p + 3 * t
      /\ Encode!Gathered(4 * t + 2) = p + 3 * t + 2
      /\ Encode!Gathered(4 * t + 3) = p + 3 * t + 1
  <2>1. \A f \in 0 .. 3 : Encode!Gathered(4 * t + f) = p + 3 * t + Encode!Indices[f + 1]
    BY GatheredIs
  <2>2. 4 * t + 0 = 4 * t
    OBVIOUS
  <2>3. /\ Encode!Indices[0 + 1] = 1 /\ Encode!Indices[1 + 1] = 0
        /\ Encode!Indices[2 + 1] = 2 /\ Encode!Indices[3 + 1] = 1
    BY DEF Encode!Indices
  <2>4. p + 3 * t + 0 = p + 3 * t
    OBVIOUS
  <2>. QED  BY <2>1, <2>2, <2>3, <2>4
<1>2. e % 4 = d /\ 2 * (e \div 2) = (IF d \in { 0, 1 } THEN 4 * t ELSE 4 * t + 2)
  OBVIOUS
<1>3. ASSUME NEW b \in 0 .. 15
      PROVE  /\ d \in { 0, 1 } => Encode!LaneBit(e, b) =
                  IF b < 8 THEN 8 * (p + 3 * t + 1) + 7 - b ELSE 8 * (p + 3 * t) + 15 - b
             /\ d \in { 2, 3 } => Encode!LaneBit(e, b) =
                  IF b < 8 THEN 8 * (p + 3 * t + 2) + 7 - b ELSE 8 * (p + 3 * t + 1) + 15 - b
  <2>1. CASE b < 8
    <3>1. b \div 8 = 0 /\ b % 8 = b
      BY <2>1
    <3>2. 4 * t + 0 = 4 * t /\ 4 * t + 2 + 0 = 4 * t + 2
      OBVIOUS
    <3>. QED  BY <1>1, <1>2, <2>1, <3>1, <3>2 DEF Encode!LaneBit, Encode!Bit
  <2>2. CASE ~ (b < 8)
    <3>1. b \div 8 = 1 /\ b % 8 = b - 8
      BY <2>2
    <3>2. 4 * t + 2 + 1 = 4 * t + 3
      OBVIOUS
    <3>3. /\ 8 * (p + 3 * t) + 7 - (b - 8) = 8 * (p + 3 * t) + 15 - b
          /\ 8 * (p + 3 * t + 1) + 7 - (b - 8) = 8 * (p + 3 * t + 1) + 15 - b
      OBVIOUS
    <3>. QED  BY <1>1, <1>2, <2>2, <3>1, <3>2, <3>3 DEF Encode!LaneBit, Encode!Bit
  <2>. QED  BY <2>1, <2>2
<1>4. ASSUME NEW b \in 0 .. 5
      PROVE  (CASE e % 4 = 0 -> Encode!LaneBit(e, b + 10)
                [] e % 4 = 1 -> Encode!LaneBit(e, b + 8 - 4)
                [] e % 4 = 2 -> Encode!LaneBit(e, b + 6)
                [] e % 4 = 3 -> Encode!LaneBit(e, b + 8 - 8))
               = 8 * (p + 3 * t) + 6 * d + 5 - b
  <2>1. b + 10 \in 0 .. 15 /\ b + 8 - 4 \in 0 .. 15 /\ b + 6 \in 0 .. 15 /\ b + 8 - 8 \in 0 .. 15
    OBVIOUS
  <2>2. CASE d = 0
    BY <1>2, <1>3, <2>1, <2>2
  <2>3. CASE d = 1
    BY <1>2, <1>3, <2>1, <2>3
  <2>4. CASE d = 2
    BY <1>2, <1>3, <2>1, <2>4
  <2>5. CASE d = 3
    BY <1>2, <1>3, <2>1, <2>5
  <2>. QED  BY <2>2, <2>3, <2>4, <2>5
<1>. QED  BY <1>4 DEF Encode!Sextet, Bits6

LEMMA SegmentSextetIs ==
  ASSUME p \in Nat, NEW t \in Nat, NEW d \in 0 .. 3
  PROVE  Encode!SegmentSextet(4 * t + d) = Bits6(p + 3 * t, d)
<1>. DEFINE e == 4 * t + d
<1>1. e % 4 = d /\ e \div 4 = t
  OBVIOUS
<1>2. ASSUME NEW b \in 0 .. 5
      PROVE  (CASE d = 0 -> Encode!Bit(p + 3 * t, b + 2)
                [] d = 1 -> IF b < 4 THEN Encode!Bit(p + 3 * t + 1, b + 4)
                                     ELSE Encode!Bit(p + 3 * t, b - 4)
                [] d = 2 -> IF b < 2 THEN Encode!Bit(p + 3 * t + 2, b + 6)
                                     ELSE Encode!Bit(p + 3 * t + 1, b - 2)
                [] d = 3 -> Encode!Bit(p + 3 * t + 2, b))
               = 8 * (p + 3 * t) + 6 * d + 5 - b
  <2>1. d = 0 \/ d = 1 \/ d = 2 \/ d = 3
    OBVIOUS
  <2>. QED  BY <2>1 DEF Encode!Bit
<1>. QED  BY <1>1, <1>2 DEF Encode!SegmentSextet, Bits6

\* the registers are enough for the table
LEMMA EntryIs ==
  ASSUME saddr \in 1 .. 4 * VLMAX, NEW x
  PROVE  Encode!Entry(x) = x
<1>1. saddr =< Encode!Registers * VLMAX
  BY VLMAXAssumption DEF Encode!Registers
<1>. QED  BY <1>1 DEF Encode!Entry

\* the characters of one, two or three bytes, which are the last of the source
\* unless they are three
LEMMA QuadIs ==
  ASSUME NEW m \in Nat, p = 3 * m, len \in Nat, NEW k \in 1 .. 3,
         p + k =< len, k < 3 => p + k = len, NEW d \in 0 .. 3
  PROVE  Encode!Quad(k)[d + 1] = Encode!Expected(4 * m + d)
<1>1. ASSUME NEW b \in 0 .. 5
      PROVE  Encode!Character(4 * m + d)[b] = 24 * m + 6 * d + 5 - b
  BY DEF Encode!Character
<1>2. CASE k = 3
  <2>1. Encode!Expected(4 * m + d) = Bits6(3 * m, d)
    BY <1>2, ExpectedIs
  <2>2. d = 0 \/ d = 1 \/ d = 2 \/ d = 3
    OBVIOUS
  <2>3. CASE d = 0
    BY <1>2, <2>1, <2>3 DEF Encode!Quad, Encode!Bit, Bits6
  <2>4. CASE d = 1
    BY <1>2, <2>1, <2>4 DEF Encode!Quad, Encode!Bit, Bits6
  <2>5. CASE d = 2
    BY <1>2, <2>1, <2>5 DEF Encode!Quad, Encode!Bit, Bits6
  <2>6. CASE d = 3
    BY <1>2, <2>1, <2>6 DEF Encode!Quad, Encode!Bit, Bits6
  <2>. QED  BY <2>2, <2>3, <2>4, <2>5, <2>6
<1>3. CASE k \in { 1, 2 }
  <2>1. len = 3 * m + k
    BY <1>3
  <2>2. Encode!Expected(4 * m + d) =
          IF 6 * (4 * m + d) >= 8 * len THEN Encode!Padding
          ELSE [b \in 0 .. 5 |-> IF 24 * m + 6 * d + 5 - b < 8 * len
                                   THEN 24 * m + 6 * d + 5 - b ELSE Encode!ZeroBit]
    BY <1>1 DEF Encode!Expected
  <2>3. CASE d = 0
    BY <1>3, <2>1, <2>2, <2>3 DEF Encode!Quad, Encode!Bit
  <2>4. CASE d = 1
    BY <1>3, <2>1, <2>2, <2>4 DEF Encode!Quad, Encode!Bit
  <2>5. CASE d = 2
    BY <1>3, <2>1, <2>2, <2>5 DEF Encode!Quad, Encode!Bit
  <2>6. CASE d = 3
    BY <1>3, <2>1, <2>2, <2>6 DEF Encode!Quad, Encode!Bit
  <2>. QED  BY <2>3, <2>4, <2>5, <2>6
<1>. QED  BY <1>2, <1>3

\* k more characters are stored
LEMMA CharactersStored ==
  ASSUME NEW k \in Nat, filled \in Nat, NEW top, len' = len,
         touched = [c \in 0 .. top |-> IF c < filled THEN Encode!Expected(c)
                                                     ELSE Encode!NotStored],
         touched' = [c \in DOMAIN touched |->
                       IF c \in filled .. filled + k - 1 THEN Encode!Expected(c)
                                                         ELSE touched[c]]
  PROVE  touched' = [c \in 0 .. top |-> IF c < filled + k THEN Encode!Expected(c)
                                                          ELSE Encode!NotStored]
<1>1. DOMAIN touched = 0 .. top
  OBVIOUS
<1>2. ASSUME NEW c \in 0 .. top
      PROVE  (IF c \in filled .. filled + k - 1 THEN Encode!Expected(c) ELSE touched[c])
               = IF c < filled + k THEN Encode!Expected(c) ELSE Encode!NotStored
  <2>1. touched[c] = IF c < filled THEN Encode!Expected(c) ELSE Encode!NotStored
    OBVIOUS
  <2>2. c \in Int
    OBVIOUS
  <2>3. /\ c \in filled .. filled + k - 1 <=> ~ (c < filled) /\ c < filled + k
        /\ c < filled => c < filled + k
    BY ONLY <2>2, k \in Nat, filled \in Nat
  <2>. QED  BY <2>1, <2>3
<1>. QED  BY <1>1, <1>2

LEMMA EncodeStep == EncodeInv /\ [Next]_vars => EncodeInv'
<1>. SUFFICES ASSUME EncodeInv, [Next]_vars, function' = "b64_encode" PROVE EncodeInv'
  BY DEF EncodeInv
<1>. USE MachinesAssumption, VLMAXAssumption
<1>. DEFINE top == 4 * ((EncodeMaxLen + 2) \div 3) - 1
            Stored(k) == [c \in 0 .. top |-> IF c < k THEN Encode!Expected(c)
                                                       ELSE Encode!NotStored]
<1>1. CASE UNCHANGED vars
  BY <1>1 DEF vars, EncodeInv, Encode!Expected, Encode!Character, Encode!NotStored
<1>2. CASE Next
  <2>1. function = "b64_encode" /\ Encode!EncodeNext
    BY <1>2, OneRuns DEF Strip!Functions, Number!Functions, Table!Functions
  <2>2. /\ kernel \in Encode!EncodeKernels
        /\ \E m \in Machines : saddr = m[1] /\ addr = m[2]
        /\ len \in 0 .. EncodeMaxLen /\ len \in Nat
        /\ n \in Nat /\ p \in Nat /\ p + n = len
        /\ pc \in { "enter", "loop", "scalar", "done" }
        /\ pc = "loop" => kernel # "scalar" /\ n >= 4 * VLMAX
        /\ pc = "done" => n = 0
        /\ filled = 4 * ((p + 2) \div 3) /\ (n > 0 => p % 3 = 0)
        /\ access \subseteq 0 .. len - 1
        /\ touched = Stored(filled)
    BY <2>1 DEF EncodeInv
  <2>3. saddr \in 1 .. 4 * VLMAX /\ addr \in Nat \ {0}
    BY <2>2
  <2>4. len' = len => \A k : Stored(k)' = Stored(k)
    BY DEF Encode!Expected, Encode!Character, Encode!NotStored
  <2>5. ASSUME UNCHANGED << kernel, saddr, addr, len, n, p, filled, touched >>,
               access' \subseteq 0 .. len - 1, pc' \in { "loop", "scalar", "done" },
               pc' = "loop" => kernel # "scalar" /\ n >= 4 * VLMAX,
               pc' = "done" => n = 0
        PROVE  EncodeInv'
    <3>1. touched' = Stored(filled)'
      BY <2>2, <2>4, <2>5
    <3>. QED  BY <2>2, <2>5, <3>1 DEF EncodeInv
  <2>6. CASE Encode!Enter
    <3>1. /\ UNCHANGED << kernel, saddr, addr, len, n, p, filled, touched >> /\ access' = {}
          /\ pc' = IF kernel # "scalar" /\ n >= 4 * VLMAX THEN "loop" ELSE "scalar"
      BY <2>6 DEF Encode!Enter, Encode!MoreChunks
    <3>. QED  BY <2>5, <3>1
  <2>7. CASE Encode!Return
    BY <2>2, <2>5, <2>7 DEF Encode!Return
  <2>8. CASE pc = "done" /\ UNCHANGED Encode!cvars
    BY <2>2, <2>5, <2>8 DEF Encode!cvars
  <2>9. CASE Encode!Chunk
    <3>1. PICK v \in Nat \ {0} : VLMAX = 4 * v
      BY MultipleIs, TablesAssumption
    <3>2. /\ pc = "loop" /\ n >= 4 * VLMAX /\ kernel # "scalar"
          /\ n' = n - 3 * VLMAX /\ p' = p + 3 * VLMAX /\ filled' = filled + 4 * VLMAX
          /\ pc' = IF n' >= 4 * VLMAX THEN "loop" ELSE "scalar"
          /\ UNCHANGED << kernel, saddr, addr, len >>
      BY <2>2, <2>9 DEF Encode!Chunk, Encode!MoreChunks
    <3>3. PICK m \in Nat : p = 3 * m /\ filled = 4 * m
      <4>1. p % 3 = 0
        BY <2>2, <3>2
      <4>2. PICK m \in Nat : p = 3 * m
        BY <2>2, <4>1
      <4>3. (3 * m + 2) \div 3 = m
        OBVIOUS
      <4>. QED  BY <2>2, <4>2, <4>3
    <3>4. touched' = [c \in DOMAIN touched |->
                        IF c \in filled .. filled + 4 * VLMAX - 1
                          THEN Encode!Entry(IF Encode!Segments
                                              THEN Encode!SegmentSextet(c - filled)
                                              ELSE Encode!Sextet(c - filled))
                          ELSE touched[c]]
      BY <2>9 DEF Encode!Chunk
    <3>5. ASSUME NEW c \in filled .. filled + 4 * VLMAX - 1
          PROVE  Encode!Entry(IF Encode!Segments THEN Encode!SegmentSextet(c - filled)
                                                 ELSE Encode!Sextet(c - filled))
                   = Encode!Expected(c)
      <4>1. PICK e \in 0 .. 4 * VLMAX - 1 : e = c - filled /\ c = 4 * m + e
        BY <3>3
      <4>2. PICK t \in Nat, d \in 0 .. 3 : e = 4 * t + d /\ t < VLMAX
        <5>1. e \div 4 \in Nat /\ e % 4 \in 0 .. 3 /\ e = 4 * (e \div 4) + (e % 4)
          OBVIOUS
        <5>2. e \div 4 < VLMAX
          BY ONLY <5>1, e \in 0 .. 4 * VLMAX - 1, VLMAX \in Nat
        <5>. QED  BY <5>1, <5>2
      <4>3. p + 3 * t = 3 * (m + t) /\ 3 * (m + t) + 3 =< len /\ m + t \in Nat
        BY <2>2, <3>2, <3>3, <4>2
      <4>4. Encode!SegmentSextet(e) = Bits6(3 * (m + t), d)
        BY <2>2, <4>2, <4>3, SegmentSextetIs
      <4>5. Encode!Sextet(e) = Bits6(3 * (m + t), d)
        BY <2>2, <2>3, <4>2, <4>3, SextetIs
      <4>6. Encode!Expected(4 * (m + t) + d) = Bits6(3 * (m + t), d)
        BY <2>2, <4>3, ExpectedIs
      <4>7. 4 * (m + t) + d = c
        BY ONLY <4>1, <4>2, m \in Nat, t \in Nat, d \in 0 .. 3
      <4>. QED  BY <2>3, <4>1, <4>4, <4>5, <4>6, <4>7, EntryIs
    <3>6. touched' = [c \in DOMAIN touched |->
                        IF c \in filled .. filled + 4 * VLMAX - 1 THEN Encode!Expected(c)
                                                                  ELSE touched[c]]
      BY <3>4, <3>5
    <3>7. touched' = Stored(filled + 4 * VLMAX)
      BY <2>2, <3>2, <3>3, <3>6, CharactersStored
    <3>8. touched' = Stored(filled)'
      BY <2>4, <3>2, <3>7
    <3>9. access' \subseteq 0 .. len - 1
      <4>1. CASE Encode!Segments
        <5>1. access' = p .. p + 3 * VLMAX - 1
          BY <2>9, <4>1 DEF Encode!Chunk
        <5>. QED  BY <2>2, <3>2, <5>1
      <4>2. CASE ~ Encode!Segments
        <5>1. SUFFICES ASSUME NEW i \in access' PROVE i \in 0 .. len - 1
          OBVIOUS
        <5>2. PICK r \in 0 .. 3 : i \in p + Encode!Offset(r) .. p + Encode!Offset(r) + VLMAX - 1
          BY <2>9, <4>2, <5>1 DEF Encode!Chunk
        <5>3. Encode!Offset(r) = 3 * r * v
          BY <3>1, <5>2 DEF Encode!Offset
        <5>4. Encode!Offset(r) \in 0 .. 9 * v
          BY <5>3
        <5>. QED  BY <2>2, <3>1, <3>2, <5>2, <5>4
      <4>. QED  BY <4>1, <4>2
    <3>10. p' = 3 * (m + VLMAX) /\ filled' = 4 * (m + VLMAX) /\ m + VLMAX \in Nat
      BY <3>2, <3>3
    <3>11. filled' = 4 * ((p' + 2) \div 3) /\ p' % 3 = 0
      <4>1. ASSUME NEW x \in Nat PROVE (3 * x + 2) \div 3 = x /\ (3 * x) % 3 = 0
        OBVIOUS
      <4>. QED  BY <3>10, <4>1
    <3>12. n' \in Nat /\ p' \in Nat /\ p' + n' = len
      BY <2>2, <3>2, <3>10
    <3>. QED  BY <2>2, <3>2, <3>8, <3>9, <3>11, <3>12 DEF EncodeInv
  <2>10. CASE Encode!ScalarStep
    <3>1. PICK k \in 1 .. 3 : /\ k = IF n >= 3 THEN 3 ELSE n
                              /\ k =< n
      BY <2>2, <2>10 DEF Encode!ScalarStep
    <3>2. /\ pc = "scalar" /\ n > 0 /\ access' = p .. p + k - 1
          /\ touched' = [c \in DOMAIN touched |->
                           IF c \in filled .. filled + 3 THEN Encode!Quad(k)[c - filled + 1]
                                                         ELSE touched[c]]
          /\ n' = n - k /\ p' = p + k /\ filled' = filled + 4
          /\ UNCHANGED << kernel, saddr, addr, len, pc >>
      BY <2>10, <3>1 DEF Encode!ScalarStep
    <3>3. PICK m \in Nat : p = 3 * m /\ filled = 4 * m
      <4>1. p % 3 = 0
        BY <2>2, <3>2
      <4>2. PICK m \in Nat : p = 3 * m
        BY <2>2, <4>1
      <4>3. (3 * m + 2) \div 3 = m
        OBVIOUS
      <4>. QED  BY <2>2, <4>2, <4>3
    <3>4. p + k =< len /\ (k < 3 => p + k = len)
      BY <2>2, <3>1
    <3>5. ASSUME NEW c \in filled .. filled + 3
          PROVE  Encode!Quad(k)[c - filled + 1] = Encode!Expected(c)
      <4>1. PICK d \in 0 .. 3 : d = c - filled /\ c = 4 * m + d
        BY <3>3
      <4>2. Encode!Quad(k)[d + 1] = Encode!Expected(4 * m + d)
        <5>1. len \in Nat
          BY <2>2
        <5>. QED  BY <3>3, <3>4, <5>1, QuadIs
      <4>. QED  BY <4>1, <4>2
    <3>6. touched' = [c \in DOMAIN touched |->
                        IF c \in filled .. filled + 4 - 1 THEN Encode!Expected(c)
                                                          ELSE touched[c]]
      <4>1. filled + 4 - 1 = filled + 3
        BY <3>3
      <4>. QED  BY <3>2, <3>5, <4>1
    <3>7. touched' = Stored(filled + 4)
      BY <2>2, <3>2, <3>3, <3>6, CharactersStored
    <3>8. touched' = Stored(filled)'
      BY <2>4, <3>2, <3>7
    <3>9. access' \subseteq 0 .. len - 1
      BY <2>2, <3>2, <3>4
    <3>10. filled' = 4 * ((p' + 2) \div 3) /\ (n' > 0 => p' % 3 = 0)
      <4>1. (3 * m + k + 2) \div 3 = m + 1 /\ (k = 3 => (3 * m + k) % 3 = 0)
        OBVIOUS
      <4>2. n' > 0 => k = 3
        BY <2>2, <3>1, <3>2
      <4>3. p' = 3 * m + k /\ filled' = 4 * (m + 1)
        BY <3>2, <3>3
      <4>. QED  BY <4>1, <4>2, <4>3
    <3>11. n' \in Nat /\ p' \in Nat /\ p' + n' = len
      BY <2>2, <3>1, <3>2
    <3>. QED  BY <2>2, <3>2, <3>8, <3>9, <3>10, <3>11 DEF EncodeInv
  <2>. QED
    BY <2>1, <2>6, <2>7, <2>8, <2>9, <2>10 DEF Encode!EncodeNext
<1>. QED  BY <1>1, <1>2

-----------------------------------------------------------------------------
(* The theorems.                                                           *)

WritersInv == MemsetInv /\ MemcpyInv /\ ReverseInv /\ TablesInv /\ EncodeInv

LEMMA InPlaceAlways == Spec => []WritersInv
<1>1. Init => WritersInv
  BY MemsetStart, MemcpyStart, ReverseStart, TablesStart, EncodeStart DEF WritersInv
<1>2. WritersInv /\ [Next]_vars => WritersInv'
  BY MemsetStep, MemcpyStep, ReverseStep, TablesStep, EncodeStep DEF WritersInv
<1>. QED  BY <1>1, <1>2, PTL DEF Spec

(***************************************************************************)
(* The kernels that align do so: the align kernel accesses full register   *)
(* groups, SWAR words, and the functions of musl words and double words,   *)
(* at multiples of their size, wherever the buffers begin.                 *)
(***************************************************************************)
THEOREM AccessesAtMultiples == Spec => []AccessesAligned
<1>1. StripInv /\ WritersInv => AccessesAligned
  <2>. SUFFICES ASSUME StripInv, WritersInv PROVE AccessesAligned
    OBVIOUS
  <2>1. ASSUME function \in Strip!Functions PROVE Strip!AccessesAligned
    <3>1. OnceInv
      BY <2>1 DEF StripInv
    <3>2. ASSUME pc = "chunk", kernel = "align", p > 0, vl = VLMAX
          PROVE  (addr + p) % VLMAX = 0
      <4>1. ChunkPlace /\ n \in Nat /\ p # 0
        BY <3>1, <3>2 DEF OnceInv, PlacesInv, StripTypes
      <4>2. ~ (n < VLMAX)
        BY <3>2, <4>1, VLMAXAssumption DEF ChunkPlace
      <4>. QED  BY <3>2, <4>1, <4>2 DEF ChunkPlace
    <3>3. pc = "words" /\ n > 0 => Strip!AtWord
      BY <3>1 DEF OnceInv, PlacesInv
    <3>. QED  BY <3>2, <3>3 DEF Strip!AccessesAligned
  <2>2. ASSUME function \in { "memset_musl", "memcpy_musl" }, NEW a \in access
        PROVE  ((IF a[1] = "dest" THEN addr ELSE saddr) + a[2]) % a[3] = 0
    BY <2>2 DEF WritersInv, MemsetInv, MemcpyInv
  <2>. QED  BY <2>1, <2>2 DEF AccessesAligned
<1>. QED  BY <1>1, Once, InPlaceAlways, PTL

LEMMA MemsetInPlace ==
  ASSUME MemsetInv, function = "memset_musl"
  PROVE  Musl!RemainderStored
<1>1. /\ len \in Nat /\ p \in Nat /\ n \in Nat
      /\ touched \subseteq 0 .. len - 1 /\ MemsetBytes
  BY DEF MemsetInv
<1>2. ASSUME pc = "loop", NEW i \in 0 .. len - 1, i >= p + 32 * (n \div 32)
      PROVE  i \in touched
  <2>1. n % 4 = 0 /\ p + n - 28 .. len - 1 \subseteq touched
    BY <1>1, <1>2 DEF MemsetBytes
  <2>2. 32 * (n \div 32) >= n - 28 /\ 32 * (n \div 32) \in Nat
    BY <1>1, <2>1
  <2>3. i \in p + n - 28 .. len - 1
    BY <1>1, <1>2, <2>2
  <2>. QED  BY <2>1, <2>3
<1>. QED  BY <1>1, <1>2 DEF Musl!RemainderStored, MemsetBytes

LEMMA MemcpyInPlace ==
  ASSUME MemcpyInv, function = "memcpy_musl"
  PROVE  Musl!CopiedInPlace
<1>1. /\ len \in Nat /\ p \in 0 .. len /\ MemcpyMaxLen \in Nat
      /\ touched = [i \in 0 .. MemcpyMaxLen - 1 |-> IF i < Copied THEN i ELSE Musl!NotStored]
  BY ArgumentsAssumption DEF MemcpyInv
<1>2. Copied \in 0 .. len /\ (pc = "done" => Copied = len)
  BY <1>1 DEF Copied
<1>3. SUFFICES ASSUME NEW i \in 0 .. MemcpyMaxLen - 1
               PROVE  /\ touched[i] \in { Musl!NotStored, i }
                      /\ i >= len => touched[i] = Musl!NotStored
                      /\ i < len /\ pc = "done" => touched[i] = i
  BY <1>1 DEF Musl!CopiedInPlace
<1>4. touched[i] = IF i < Copied THEN i ELSE Musl!NotStored
  BY <1>1
<1>. QED  BY <1>1, <1>2, <1>4

LEMMA ReverseInPlace ==
  ASSUME ReverseInv, function = "memreverse"
  PROVE  Reverse!InPlace
<1>. DEFINE there(i) == IF kernel \in { "scalar", "vlse" } THEN i < Reversed
                                                           ELSE i >= len - Reversed
<1>1. /\ len \in Nat /\ p \in 0 .. len /\ MaxLen \in Nat
      /\ DOMAIN touched = 0 .. MaxLen - 1
      /\ \A i \in 0 .. MaxLen - 1 :
           touched[i] = IF i < len /\ there(i) THEN len - 1 - i ELSE Reverse!NotStored
  BY MaxLenAssumption DEF ReverseInv
<1>2. Reversed \in 0 .. len /\ (pc = "done" => Reversed = len)
  BY <1>1 DEF Reversed
<1>3. SUFFICES ASSUME NEW i \in 0 .. MaxLen - 1
               PROVE  /\ touched[i] \in { Reverse!NotStored, len - 1 - i }
                      /\ i >= len => touched[i] = Reverse!NotStored
                      /\ i < len /\ pc = "done" => touched[i] = len - 1 - i
  BY <1>1 DEF Reverse!InPlace
<1>4. touched[i] = IF i < len /\ there(i) THEN len - 1 - i ELSE Reverse!NotStored
  BY <1>1
<1>5. i < len /\ pc = "done" => there(i)
  BY <1>1, <1>2
<1>6. i >= len => ~ (i < len)
  BY <1>1
<1>. QED  BY <1>4, <1>5, <1>6

LEMMA TablesPlace ==
  ASSUME TablesInv, function \in Table!Functions
  PROVE  Table!TablesInPlace
<1>1. /\ p \in Nat /\ n \in Nat /\ p + n = len /\ touched = TableBytes(p, Zeros)
      /\ pc = "bytes" => vl = grant[n]
      /\ pc = "done" => n = 0
  BY DEF TablesInv
<1>2. Zeros \in Nat
  <2>1. n \in 0 .. MaxLen
    BY <1>1, TablesAssumption, MaxLenAssumption DEF TablesInv
  <2>2. grant[n] \in Nat
    BY <2>1, Grants DEF TablesInv
  <2>. QED  BY <2>2 DEF Zeros
<1>3. SUFFICES ASSUME NEW j \in 0 .. Table!Size * TablesMaxLen - 1
               PROVE  \/ j \div Table!Size < p /\ touched[j] = Made(j)
                      \/ j \div Table!Size >= p /\ touched[j] = Given(j)
                      \/ pc = "bytes" /\ j \div Table!Size \in p .. p + vl - 1
  BY <1>1 DEF Table!TablesInPlace, TableBytes, Made, Given
<1>4. PICK s \in { 1, 2, 4 } : s = Table!Size
  BY Sizes
<1>5. PICK q \in Nat, r \in 0 .. s - 1 : j = s * q + r /\ q = j \div s
  <2>1. j \in Nat
    BY <1>4, TablesAssumption, MaxLenAssumption
  <2>2. j \div s \in Nat /\ j % s \in 0 .. s - 1 /\ j = s * (j \div s) + (j % s)
    BY <1>4, <2>1
  <2>. QED  BY <2>2
<1>6. PICK z \in Nat : z = Zeros
  BY <1>2
<1>7. (j < s * p <=> q < p) /\ (j < s * (p + z) <=> q < p + z)
  BY <1>1, <1>4, <1>5
<1>8. touched[j] = IF q < p THEN Made(j) ELSE IF q < p + z THEN Table!Zero ELSE Given(j)
  BY <1>1, <1>4, <1>6, <1>7 DEF TableBytes
<1>9. q >= p /\ q < p + z => pc = "bytes" /\ z = vl /\ q \in p .. p + vl - 1
  BY <1>1, <1>6 DEF Zeros
<1>10. q < p \/ q >= p
  BY <1>1
<1>. QED  BY <1>4, <1>5, <1>8, <1>9, <1>10

LEMMA EncodePlace ==
  ASSUME EncodeInv, function = "b64_encode"
  PROVE  Encode!Encoded
<1>1. /\ p \in Nat /\ p + n = len /\ (pc = "done" => n = 0)
      /\ filled = 4 * ((p + 2) \div 3) /\ access \subseteq 0 .. len - 1
      /\ touched = [c \in 0 .. 4 * ((EncodeMaxLen + 2) \div 3) - 1 |->
                      IF c < filled THEN Encode!Expected(c) ELSE Encode!NotStored]
  BY DEF EncodeInv
<1>2. pc = "done" => filled = 4 * ((len + 2) \div 3)
  BY <1>1
<1>. QED  BY <1>1, <1>2 DEF Encode!Encoded

(***************************************************************************)
(* memset_musl, memcpy_musl, memreverse, the kernels that work with tables *)
(* and b64_encode store every byte, the right one, and none outside: for   *)
(* registers of every size, every answer of vsetvli, and arguments of      *)
(* every length and alignment.                                             *)
(***************************************************************************)
THEOREM EveryByteInPlace == Spec => []InPlace
<1>1. WritersInv => InPlace
  BY MemsetInPlace, MemcpyInPlace, ReverseInPlace, TablesPlace, EncodePlace
     DEF WritersInv, InPlace
<1>. QED  BY <1>1, InPlaceAlways, PTL

(***************************************************************************)
(* Both tables of b64_encode give the same character: adding the          *)
(* difference, modulo 256, makes the entry of LUT64.                       *)
(***************************************************************************)
THEOREM TablesAgree ==
  \A x \in 0 .. 63 : Encode!LUT64(x) = (x + Encode!LUT16[Encode!Difference(x) + 1]) % 256
<1>. SUFFICES ASSUME NEW x \in 0 .. 63
              PROVE  Encode!LUT64(x) = (x + Encode!LUT16[Encode!Difference(x) + 1]) % 256
  OBVIOUS
<1>1. CASE x < 26
  <2>1. Encode!LUT16[Encode!Difference(x) + 1] = 65
    BY <1>1 DEF Encode!LUT16, Encode!Difference
  <2>. QED  BY <1>1, <2>1 DEF Encode!LUT64
<1>2. CASE x \in 26 .. 51
  <2>1. Encode!LUT16[Encode!Difference(x) + 1] = 71
    BY <1>2 DEF Encode!LUT16, Encode!Difference
  <2>. QED  BY <1>2, <2>1 DEF Encode!LUT64
<1>3. CASE x \in 52 .. 61
  <2>1. Encode!Difference(x) + 1 \in 2 .. 11
    BY <1>3 DEF Encode!Difference
  <2>2. Encode!LUT16[Encode!Difference(x) + 1] = 252
    BY <2>1 DEF Encode!LUT16
  <2>. QED  BY <1>3, <2>2 DEF Encode!LUT64
<1>4. CASE x = 62
  BY <1>4 DEF Encode!LUT64, Encode!LUT16, Encode!Difference
<1>5. CASE x = 63
  BY <1>5 DEF Encode!LUT64, Encode!LUT16, Encode!Difference
<1>. QED  BY <1>1, <1>2, <1>3, <1>4, <1>5

-----------------------------------------------------------------------------
(***************************************************************************)
(* Sums over finite sets.  SumFunctionOnSet takes the elements one by one, *)
(* in an order that is chosen and not known.                               *)
(***************************************************************************)
Total(h, S) == Histo!SumFunctionOnSet(h, S)

Chosen(s) == CHOOSE x \in s : TRUE

\* the sum over s, given the sums over smaller sets
Added(h, f, s) == IF s = {} THEN 0 ELSE h[Chosen(s)] + f[s \ {Chosen(s)}]

\* f[s] is the sum of h over s, for every s in Parts
Sums(h, Parts, f) == f = [s \in Parts |-> Added(h, f, s)]

LEMMA TotalIsChosen ==
  ASSUME NEW h, NEW S
  PROVE  Total(h, S) = (CHOOSE f : Sums(h, SUBSET S, f))[S]
BY DEF Total, Histo!SumFunctionOnSet, Histo!FoldFunctionOnSet, Histo!MapThenFoldSet,
       Sums, Added, Chosen

\* a part without its chosen element is a smaller part
LEMMA OneLess ==
  ASSUME NEW S, IsFiniteSet(S), NEW s \in SUBSET S, s # {}
  PROVE  /\ Chosen(s) \in s /\ s \ {Chosen(s)} \in SUBSET S
         /\ Cardinality(s) \in Nat \ {0}
         /\ Cardinality(s \ {Chosen(s)}) = Cardinality(s) - 1
<1>1. Chosen(s) \in s
  BY DEF Chosen
<1>2. IsFiniteSet(s)
  BY FS_Subset
<1>3. Cardinality(s) \in Nat /\ Cardinality(s) # 0
  BY <1>2, FS_CardinalityType, FS_EmptySet
<1>4. Cardinality(s \ {Chosen(s)}) = Cardinality(s) - 1
  BY <1>1, <1>2, FS_RemoveElement
<1>. QED  BY <1>1, <1>3, <1>4

LEMMA SumsExist ==
  ASSUME NEW h, NEW S, IsFiniteSet(S)
  PROVE  \E f : Sums(h, SUBSET S, f)
<1>. DEFINE Parts(k) == { s \in SUBSET S : Cardinality(s) =< k }
            Good     == { k \in 0 .. Cardinality(S) : \E f : Sums(h, Parts(k), f) }
<1>1. /\ Cardinality(S) \in Nat
      /\ \A s \in SUBSET S : Cardinality(s) \in Nat /\ Cardinality(s) =< Cardinality(S)
  BY FS_CardinalityType, FS_Subset
<1>2. 0 \in Good
  <2>1. \A s \in Parts(0) : s = {}
    <3>1. ASSUME NEW s \in SUBSET S, s # {} PROVE ~ (Cardinality(s) =< 0)
      <4>1. Cardinality(s) \in Nat \ {0}
        BY <3>1, OneLess
      <4>. QED  BY <4>1
    <3>. QED  BY <3>1
  <2>. DEFINE f == [s \in Parts(0) |-> 0]
  <2>2. Sums(h, Parts(0), f)
    <3>1. \A s \in Parts(0) : Added(h, f, s) = 0
      BY <2>1 DEF Added
    <3>. QED  BY <3>1 DEF Sums
  <2>. HIDE DEF f, Parts
  <2>3. \E e : Sums(h, Parts(0), e)
    BY <2>2
  <2>. QED  BY <1>1, <2>3
<1>3. ASSUME NEW k \in 0 .. Cardinality(S) - 1, k \in Good PROVE k + 1 \in Good
  <2>1. PICK f : Sums(h, Parts(k), f)
    BY <1>3
  <2>. DEFINE g == [s \in Parts(k + 1) |-> Added(h, f, s)]
  <2>2. \A s \in Parts(k + 1) : s # {} => s \ {Chosen(s)} \in Parts(k)
    <3>1. SUFFICES ASSUME NEW s \in SUBSET S, Cardinality(s) =< k + 1, s # {}
                   PROVE  s \ {Chosen(s)} \in Parts(k)
      OBVIOUS
    <3>2. /\ s \ {Chosen(s)} \in SUBSET S /\ Cardinality(s) \in Nat
          /\ Cardinality(s \ {Chosen(s)}) = Cardinality(s) - 1
      BY <3>1, OneLess
    <3>3. Cardinality(s) - 1 =< k
      BY <1>1, <3>1, <3>2
    <3>. QED  BY <3>2, <3>3
  <2>3. \A s \in Parts(k) : s \in Parts(k + 1)
    BY <1>1
  <2>. HIDE DEF Parts
  <2>4. \A s \in Parts(k) : f[s] = Added(h, f, s)
    BY <2>1 DEF Sums
  <2>5. \A s \in Parts(k) : g[s] = f[s]
    BY <2>3, <2>4
  <2>. HIDE DEF g
  <2>6. Sums(h, Parts(k + 1), g)
    <3>1. \A s \in Parts(k + 1) : Added(h, f, s) = Added(h, g, s)
      BY <2>2, <2>5 DEF Added
    <3>. QED  BY <3>1 DEF Sums, g
  <2>7. k + 1 \in 0 .. Cardinality(S)
    BY <1>1
  <2>. QED  BY <2>6, <2>7
<1>4. Parts(Cardinality(S)) = SUBSET S
  BY <1>1
<1>. HIDE DEF Good
<1>5. Cardinality(S) \in Good
  <2>1. \A k \in 0 .. Cardinality(S) : k \in Good
    BY <1>1, <1>2, <1>3, Induction
  <2>. QED  BY <1>1, <2>1
<1>. QED  BY <1>4, <1>5 DEF Good

LEMMA SumsAgree ==
  ASSUME NEW U, NEW S \in SUBSET U, IsFiniteSet(S)
  PROVE  \A h, f, g : Sums(h, SUBSET S, f) /\ Sums(h, SUBSET U, g) => f[S] = g[S]
<1>. SUFFICES ASSUME NEW h, NEW f, NEW g, Sums(h, SUBSET S, f), Sums(h, SUBSET U, g)
              PROVE  f[S] = g[S]
  OBVIOUS
<1>. DEFINE Good == { k \in 0 .. Cardinality(S) :
                        \A s \in SUBSET S : Cardinality(s) =< k => f[s] = g[s] }
<1>1. Cardinality(S) \in Nat
  BY FS_CardinalityType
<1>2. \A s \in SUBSET S : f[s] = Added(h, f, s) /\ g[s] = Added(h, g, s)
  BY DEF Sums
<1>3. 0 \in Good
  <2>1. ASSUME NEW s \in SUBSET S, Cardinality(s) =< 0 PROVE f[s] = g[s]
    <3>1. s # {} => Cardinality(s) \in Nat \ {0}
      BY OneLess
    <3>2. s = {}
      BY <2>1, <3>1
    <3>. QED  BY <1>2, <3>2 DEF Added
  <2>. QED  BY <1>1, <2>1
<1>4. ASSUME NEW k \in 0 .. Cardinality(S) - 1, k \in Good PROVE k + 1 \in Good
  <2>1. ASSUME NEW s \in SUBSET S, Cardinality(s) =< k + 1 PROVE f[s] = g[s]
    <3>1. CASE s = {}
      BY <1>2, <3>1 DEF Added
    <3>2. CASE s # {}
      <4>1. /\ s \ {Chosen(s)} \in SUBSET S /\ Cardinality(s) \in Nat
            /\ Cardinality(s \ {Chosen(s)}) = Cardinality(s) - 1
        BY <3>2, OneLess
      <4>2. Cardinality(s \ {Chosen(s)}) =< k
        BY <1>1, <2>1, <4>1
      <4>3. f[s \ {Chosen(s)}] = g[s \ {Chosen(s)}]
        BY <1>4, <4>1, <4>2
      <4>. QED  BY <1>2, <4>3 DEF Added
    <3>. QED  BY <3>1, <3>2
  <2>. QED  BY <1>1, <2>1
<1>. HIDE DEF Good
<1>5. \A k \in 0 .. Cardinality(S) : k \in Good
  BY <1>1, <1>3, <1>4, Induction
<1>6. Cardinality(S) \in Good /\ S \in SUBSET S
  BY <1>1, <1>5
<1>. QED  BY <1>1, <1>6 DEF Good

\* The sum over a set is that over the set without the chosen element, and it.
LEMMA TotalOf ==
  ASSUME NEW h, NEW S, IsFiniteSet(S)
  PROVE  /\ S = {} => Total(h, S) = 0
         /\ S # {} => Total(h, S) = h[Chosen(S)] + Total(h, S \ {Chosen(S)})
<1>1. PICK f : Sums(h, SUBSET S, f) /\ Total(h, S) = f[S]
  BY SumsExist, TotalIsChosen
<1>2. f[S] = Added(h, f, S)
  BY <1>1 DEF Sums
<1>3. CASE S = {}
  BY <1>1, <1>2, <1>3 DEF Added
<1>4. CASE S # {}
  <2>. DEFINE R == S \ {Chosen(S)}
  <2>1. IsFiniteSet(R) /\ R \in SUBSET S
    BY FS_Subset
  <2>2. PICK g : Sums(h, SUBSET R, g) /\ Total(h, R) = g[R]
    BY <2>1, SumsExist, TotalIsChosen
  <2>3. g[R] = f[R]
    <3>. HIDE DEF R
    <3>1. \A e, d, c : Sums(e, SUBSET R, d) /\ Sums(e, SUBSET S, c) => d[R] = c[R]
      BY <2>1, SumsAgree
    <3>. QED  BY <1>1, <2>2, <3>1, Zenon
  <2>. QED  BY <1>1, <1>2, <1>4, <2>2, <2>3 DEF Added
<1>. QED  BY <1>3, <1>4

(***************************************************************************)
(* Where h is raised by one the sum is: by as much as there are such       *)
(* places.                                                                 *)
(***************************************************************************)
LEMMA TotalRaised ==
  ASSUME NEW S, IsFiniteSet(S), NEW h, NEW g, NEW A \in SUBSET S,
         \A x \in S : h[x] \in Nat /\ g[x] = IF x \in A THEN h[x] + 1 ELSE h[x]
  PROVE  /\ Total(h, S) \in Nat
         /\ Total(g, S) = Total(h, S) + Cardinality(A)
<1>. DEFINE Right(s) == /\ Total(h, s) \in Nat
                        /\ Total(g, s) = Total(h, s) + Cardinality(A \cap s)
            Good == { k \in 0 .. Cardinality(S) :
                        \A s \in SUBSET S : Cardinality(s) =< k => Right(s) }
<1>1. Cardinality(S) \in Nat
  BY FS_CardinalityType
<1>2. Right({})
  <2>1. A \cap {} = {} /\ Cardinality({}) = 0
    BY FS_EmptySet
  <2>2. Total(h, {}) = 0 /\ Total(g, {}) = 0
    BY TotalOf, FS_EmptySet
  <2>. QED  BY <2>1, <2>2
<1>3. ASSUME NEW s \in SUBSET S, s # {}, Right(s \ {Chosen(s)}) PROVE Right(s)
  <2>. DEFINE c == Chosen(s)
  <2>1. c \in s /\ c \in S /\ IsFiniteSet(s)
    BY <1>3, OneLess, FS_Subset
  <2>2. /\ Total(h, s) = h[c] + Total(h, s \ {c})
        /\ Total(g, s) = g[c] + Total(g, s \ {c})
    BY <1>3, <2>1, TotalOf
  <2>3. IsFiniteSet(A \cap (s \ {c})) /\ Cardinality(A \cap (s \ {c})) \in Nat
    BY <2>1, FS_Subset, FS_CardinalityType
  <2>4. Cardinality(A \cap s) =
          IF c \in A THEN Cardinality(A \cap (s \ {c})) + 1
                     ELSE Cardinality(A \cap (s \ {c}))
    <3>1. CASE c \in A
      <4>1. A \cap s = (A \cap (s \ {c})) \cup {c} /\ c \notin A \cap (s \ {c})
        BY <2>1, <3>1
      <4>. QED  BY <2>3, <3>1, <4>1, FS_AddElement
    <3>2. CASE c \notin A
      <4>1. A \cap s = A \cap (s \ {c})
        BY <2>1, <3>2
      <4>. QED  BY <3>2, <4>1
    <3>. QED  BY <3>1, <3>2
  <2>5. h[c] \in Nat /\ g[c] = IF c \in A THEN h[c] + 1 ELSE h[c]
    BY <2>1
  <2>6. /\ Total(h, s \ {c}) \in Nat
        /\ Total(g, s \ {c}) = Total(h, s \ {c}) + Cardinality(A \cap (s \ {c}))
    BY <1>3
  <2>. HIDE DEF c
  <2>7. PICK a \in Nat, t \in Nat, e \in Nat :
          a = Cardinality(A \cap (s \ {c})) /\ t = Total(h, s \ {c}) /\ e = h[c]
    BY <2>3, <2>5, <2>6
  <2>8. Total(h, s) = e + t
    BY <2>2, <2>7
  <2>9. CASE c \in A
    <3>1. Total(g, s) = (e + 1) + (t + a) /\ Cardinality(A \cap s) = a + 1
      BY <2>2, <2>4, <2>5, <2>6, <2>7, <2>9
    <3>. QED  BY <2>8, <3>1
  <2>10. CASE c \notin A
    <3>1. Total(g, s) = e + (t + a) /\ Cardinality(A \cap s) = a
      BY <2>2, <2>4, <2>5, <2>6, <2>7, <2>10
    <3>. QED  BY <2>8, <3>1
  <2>. QED  BY <2>9, <2>10
<1>. HIDE DEF Right
<1>4. 0 \in Good
  <2>1. ASSUME NEW s \in SUBSET S, Cardinality(s) =< 0 PROVE Right(s)
    <3>1. s # {} => Cardinality(s) \in Nat \ {0}
      BY OneLess
    <3>2. s = {}
      BY <2>1, <3>1
    <3>. QED  BY <1>2, <3>2
  <2>. QED  BY <1>1, <2>1
<1>5. ASSUME NEW k \in 0 .. Cardinality(S) - 1, k \in Good PROVE k + 1 \in Good
  <2>1. ASSUME NEW s \in SUBSET S, Cardinality(s) =< k + 1 PROVE Right(s)
    <3>1. CASE s = {}
      BY <1>2, <3>1
    <3>2. CASE s # {}
      <4>1. /\ s \ {Chosen(s)} \in SUBSET S /\ Cardinality(s) \in Nat
            /\ Cardinality(s \ {Chosen(s)}) = Cardinality(s) - 1
        BY <3>2, OneLess
      <4>2. Cardinality(s \ {Chosen(s)}) =< k
        BY <1>1, <2>1, <4>1
      <4>3. Right(s \ {Chosen(s)})
        BY <1>5, <4>1, <4>2
      <4>. QED  BY <1>3, <3>2, <4>3
    <3>. QED  BY <3>1, <3>2
  <2>. QED  BY <1>1, <2>1
<1>. HIDE DEF Good
<1>6. \A k \in 0 .. Cardinality(S) : k \in Good
  BY <1>1, <1>4, <1>5, Induction
<1>7. Cardinality(S) \in Good /\ S \in SUBSET S /\ A \cap S = A
  BY <1>1, <1>6
<1>8. Right(S)
  BY <1>1, <1>7 DEF Good
<1>. QED  BY <1>7, <1>8 DEF Right

-----------------------------------------------------------------------------
(* The elements of a bin.                                                  *)

\* those of bin b from a on and before k
Elements(a, k, b) == { i \in a .. k - 1 : Histo!Bin(i) = b }

LEMMA ElementsFinite ==
  ASSUME NEW a \in Nat, NEW k \in Nat, a =< k, NEW b
  PROVE  /\ IsFiniteSet(Elements(a, k, b))
         /\ Cardinality(Elements(a, k, b)) \in 0 .. k - a
<1>1. IsFiniteSet(a .. k - 1) /\ Cardinality(a .. k - 1) = k - a
  <2>1. PICK m \in Int : m = k - 1
    OBVIOUS
  <2>2. /\ IsFiniteSet(a .. m)
        /\ Cardinality(a .. m) = IF a > m THEN 0 ELSE m - a + 1
    BY FS_Interval
  <2>. QED  BY <2>1, <2>2
<1>2. Elements(a, k, b) \in SUBSET (a .. k - 1)
  BY DEF Elements
<1>3. /\ IsFiniteSet(Elements(a, k, b))
      /\ Cardinality(Elements(a, k, b)) =< Cardinality(a .. k - 1)
  BY <1>1, <1>2, FS_Subset
<1>4. Cardinality(Elements(a, k, b)) \in Nat
  BY <1>3, FS_CardinalityType
<1>. QED  BY <1>1, <1>3, <1>4

LEMMA ElementsAdd ==
  ASSUME NEW k \in Nat, NEW m \in Nat, k =< m
  PROVE  \A b : Cardinality(Elements(0, m, b)) =
                  Cardinality(Elements(0, k, b)) + Cardinality(Elements(k, m, b))
<1>. SUFFICES ASSUME NEW b
              PROVE  Cardinality(Elements(0, m, b)) =
                       Cardinality(Elements(0, k, b)) + Cardinality(Elements(k, m, b))
  OBVIOUS
<1>1. Elements(0, m, b) = Elements(0, k, b) \cup Elements(k, m, b)
  BY DEF Elements
<1>2. Elements(0, k, b) \cap Elements(k, m, b) = {}
  BY DEF Elements
<1>3. /\ IsFiniteSet(Elements(0, k, b)) /\ IsFiniteSet(Elements(k, m, b))
      /\ Cardinality(Elements(0, k, b)) \in Nat /\ Cardinality(Elements(k, m, b)) \in Nat
  BY ElementsFinite
<1>4. Cardinality({}) = 0
  BY FS_EmptySet
<1>. QED  BY <1>1, <1>2, <1>3, <1>4, FS_Union

\* hist_scalar, in these terms
LEMMA ExactIs ==
  ASSUME NEW k \in Nat, NEW b \in 0 .. Last - 1
  PROVE  Histo!Exact(k)[b] = Cardinality(Elements(0, k, b))
BY DEF Histo!Exact, Elements, Histo!Cardinality, Cardinality

-----------------------------------------------------------------------------
(* What is counted at each place in the code.                              *)

Places ==
  /\ pc \in { "entry", "count", "next", "more", "reduce", "done" }
  /\ vl =< Histo!Group
  /\ touched \in [Histo!Cells -> Nat]
  /\ tail \in Nat /\ quarter \in 0 .. Last
  /\ pc \in { "entry", "more", "reduce", "done" } => vl = 0
  /\ pc = "entry" => p = 0
  /\ pc \in { "reduce", "done" } => n = 0
  /\ quarter # 0 => kernel \in Histo!DupVariants /\ pc \in { "reduce", "done" }
  /\ pc = "reduce" => kernel \in Histo!DupVariants /\ quarter < Last
  /\ pc = "done" /\ kernel \in Histo!DupVariants => quarter = Last
  /\ pc = "count" /\ kernel = "slidedown" => tail < vl
  /\ pc = "count" /\ kernel \in Histo!DupVariants => tail < Histo!Registers

\* every bin has come to its number of elements before k
Exactly(k) == \A b \in 0 .. Last - 1 : Histo!Count(b) = Cardinality(Elements(0, k, b))

\* of the first k elements two of a bin can meet in a chunk
Meet(k) == \E i, j \in 0 .. k - 1 : i < j /\ j < i + Histo!Group /\ Histo!Bin(i) = Histo!Bin(j)

\* ConflictsOnlyLose, in these terms
LostOnly(k) ==
  \A b \in 0 .. Last - 1 :
    /\ touched[b] =< Cardinality(Elements(0, k, b))
    /\ Cardinality(Elements(0, k, b)) =< touched[b] * Histo!Group
    /\ ~ Meet(k) => touched[b] = Cardinality(Elements(0, k, b))

(***************************************************************************)
(* The kernels, but for the one that ignores conflicts and the one whose   *)
(* mask is wrong, have counted every element they have taken, once, in its *)
(* bin - in the middle of a chunk, and of the final loop.                  *)
(***************************************************************************)
BinsInv ==
  /\ kernel \notin { "no_conflict", "dup_m4" } => Exactly(Histo!Taken)
  /\ kernel = "no_conflict" => LostOnly(Histo!Taken)

CountInv == function = "hist" => ChunkInv /\ Places /\ BinsInv

-----------------------------------------------------------------------------
(* Cells.                                                                  *)

LEMMA CellFacts ==
  /\ \A b \in 0 .. Last : b \in Histo!Cells
  /\ \A b \in 0 .. Last : Histo!CountersOf(b) \in SUBSET Histo!Cells
  /\ \A b \in Nat : IsFiniteSet(Histo!CountersOf(b))
<1>. USE LanesAssumption, LastAssumption
<1>1. PICK w \in Nat \ {0}, m \in Nat : w = Lanes /\ m = Last
  OBVIOUS
<1>2. (m + 2) * w \in Nat /\ m * w + w + w = (m + 2) * w /\ m * w \in Nat
  BY <1>1
<1>3. m =< m * w
  BY ONLY <1>1
<1>4. ASSUME NEW b \in 0 .. m PROVE b \in 0 .. (m + 2) * w - 1
  BY <1>2, <1>3, <1>1
<1>5. ASSUME NEW b \in 0 .. m PROVE b * w .. b * w + w - 1 \in SUBSET (0 .. (m + 2) * w - 1)
  <2>1. b * w \in Nat /\ b * w =< m * w
    <3>1. b < m => b * w + w =< m * w
      BY <1>1, OneMoreFits
    <3>2. b * w \in Nat
      BY <1>1
    <3>. QED  BY <1>1, <1>2, <3>1, <3>2
  <2>. QED  BY <1>1, <1>2, <2>1
<1>6. ASSUME NEW b \in Nat PROVE IsFiniteSet(b * w .. b * w + w - 1)
  <2>1. b * w \in Nat
    BY <1>1
  <2>2. b * w \in Int /\ b * w + w - 1 \in Int
    BY <1>1, <2>1
  <2>. QED  BY <2>2, FS_Interval
<1>. QED  BY <1>1, <1>4, <1>5, <1>6 DEF Histo!Cells, Histo!CountersOf

\* the chunk is no more than a group, and a group is as many registers
LEMMA Groups ==
  ASSUME ChunkInv
  PROVE  /\ Histo!Group \in Nat
         /\ kernel \in Histo!DupVariants => Histo!Registers \in 1 .. 4
         /\ kernel \in Histo!DupVariants => Histo!Group = Histo!Registers * Lanes
         /\ kernel = "no_conflict" => Histo!Group = GroupLanes
<1>1. kernel \in Histo!DupVariants => Histo!Registers \in 1 .. 4
  BY DEF Histo!Registers, Histo!DupVariants
<1>2. kernel \in Histo!DupVariants => Histo!Registers * Lanes \in Nat
  BY <1>1, LanesAssumption
<1>. QED  BY <1>1, <1>2, LanesAssumption DEF Histo!Group, Histo!DupVariants

LEMMA IncrementedNat ==
  ASSUME touched \in [Histo!Cells -> Nat], NEW ls
  PROVE  /\ Histo!Incremented(ls) \in [Histo!Cells -> Nat]
         /\ \A c \in Histo!Cells :
              Histo!Incremented(ls)[c] =
                IF \E l \in ls : Histo!Cell(l) = c THEN touched[c] + 1 ELSE touched[c]
BY DEF Histo!Incremented

LEMMA TotalNat ==
  ASSUME NEW S, IsFiniteSet(S), NEW h, \A x \in S : h[x] \in Nat
  PROVE  Total(h, S) \in Nat
<1>1. {} \in SUBSET S /\ \A x \in S : h[x] \in Nat /\ h[x] = IF x \in {} THEN h[x] + 1 ELSE h[x]
  OBVIOUS
<1>. QED  BY <1>1, TotalRaised

\* what is counted at row b is a number
LEMMA ReducedNat ==
  ASSUME touched \in [Histo!Cells -> Nat], NEW b \in 0 .. Last
  PROVE  Total(touched, Histo!CountersOf(b)) \in Nat
<1>1. b \in Nat
  BY LastAssumption
<1>2. IsFiniteSet(Histo!CountersOf(b)) /\ Histo!CountersOf(b) \in SUBSET Histo!Cells
  BY <1>1, CellFacts
<1>3. \A x \in Histo!CountersOf(b) : touched[x] \in Nat
  BY <1>2
<1>. QED  BY <1>2, <1>3, TotalNat

LEMMA PlacesStep ==
  ASSUME ChunkInv, Places, Histo!Next
  PROVE  Places'
<1>. USE LanesAssumption, LastAssumption
<1>1. Histo!Group \in Nat /\ (kernel \in Histo!DupVariants => Histo!Registers \in 1 .. 4)
  BY Groups
<1>2. kernel' = kernel
  BY DEF Histo!Next, Histo!vars, Histo!EnterEmpty, Histo!NextChunk, Histo!Advanced,
     Histo!CountGroup, Histo!CountElement, Histo!CountRegister, Histo!LeaveLoop,
     Histo!Reduce, Histo!Terminating
<1>3. Histo!Group' = Histo!Group /\ Histo!Registers' = Histo!Registers
  BY <1>2 DEF Histo!Group, Histo!Registers
<1>4. CASE Histo!EnterEmpty
  BY <1>2, <1>3, <1>4 DEF Histo!EnterEmpty, Places
<1>5. CASE Histo!NextChunk
  <2>1. vl' \in Histo!LegalVl(n, Histo!Group) /\ tail' = 0
    BY <1>5 DEF Histo!NextChunk
  <2>2. vl' \in 0 .. Histo!Group
    BY <2>1 DEF Histo!LegalVl
  <2>3. quarter = 0
    BY <1>5 DEF Histo!NextChunk, Places
  <2>. QED  BY <1>1, <1>2, <1>3, <1>5, <2>1, <2>2, <2>3
            DEF Histo!NextChunk, Places, ChunkInv, Histo!DupVariants
<1>6. CASE Histo!CountGroup
  <2>1. touched' \in [Histo!Cells -> Nat]
    BY <1>6, IncrementedNat DEF Histo!CountGroup, Places
  <2>. QED  BY <1>2, <1>3, <1>6, <2>1 DEF Histo!CountGroup, Places
<1>7. CASE Histo!CountElement
  <2>1. touched' \in [Histo!Cells -> Nat]
    BY <1>7, IncrementedNat DEF Histo!CountElement, Places
  <2>2. tail < vl /\ tail' = tail + 1 /\ vl' = vl /\ (tail' # vl => tail' < vl)
    BY <1>7 DEF Histo!CountElement, Places, ChunkInv
  <2>3. kernel = "slidedown" /\ quarter = 0 /\ quarter' = quarter /\ kernel \notin Histo!DupVariants
    BY <1>7 DEF Histo!CountElement, Places, Histo!DupVariants
  <2>4. pc' \in { "next", "count" } /\ (pc' = "count" => tail' # vl)
    BY <1>7 DEF Histo!CountElement
  <2>5. vl \in Nat /\ vl =< Histo!Group /\ tail \in Nat
    BY DEF Places, ChunkInv
  <2>6. tail' \in Nat /\ vl' =< Histo!Group' /\ quarter' \in 0 .. Last
    BY <1>3, <2>2, <2>3, <2>5
  <2>. QED  BY <1>2, <2>1, <2>2, <2>3, <2>4, <2>6 DEF Places
<1>8. CASE Histo!CountRegister
  <2>1. touched' \in [Histo!Cells -> Nat]
    BY <1>8, IncrementedNat DEF Histo!CountRegister, Places
  <2>. QED  BY <1>1, <1>2, <1>3, <1>8, <2>1
            DEF Histo!CountRegister, Places, ChunkInv, Histo!DupVariants
<1>9. CASE Histo!Advanced
  BY <1>1, <1>2, <1>3, <1>9 DEF Histo!Advanced, Places
<1>10. CASE Histo!LeaveLoop
  BY <1>2, <1>3, <1>10 DEF Histo!LeaveLoop, Places
<1>11. CASE Histo!Reduce
  <2>1. touched' = [touched EXCEPT ![quarter] = Total(touched, Histo!CountersOf(quarter))]
    BY <1>11 DEF Histo!Reduce, Histo!ReducedTo, Total
  <2>2. touched' \in [Histo!Cells -> Nat]
    BY <2>1, ReducedNat DEF Places
  <2>. QED  BY <1>2, <1>3, <1>11, <2>2 DEF Histo!Reduce, Places
<1>12. CASE Histo!Terminating
  BY <1>3, <1>12 DEF Histo!Terminating, Histo!vars, Places
<1>. QED  BY <1>4, <1>5, <1>6, <1>7, <1>8, <1>9, <1>10, <1>11, <1>12 DEF Histo!Next

(***************************************************************************)
(* What the steps that count nothing leave alone.                          *)
(***************************************************************************)
LEMMA SameElements ==
  ASSUME grant' = grant
  PROVE  \A a, k, b : Elements(a, k, b)' = Elements(a, k, b)
BY DEF Elements, Histo!Bin

LEMMA QuietKeeps ==
  ASSUME BinsInv, UNCHANGED << kernel, grant, quarter, touched >>,
         Histo!Taken' = Histo!Taken
  PROVE  BinsInv'
<1>1. \A k : Exactly(k)' = Exactly(k)
  BY DEF Exactly, Elements, Histo!Bin, Histo!Count
<1>2. \A k : LostOnly(k)' = LostOnly(k)
  BY DEF LostOnly, Elements, Meet, Histo!Bin, Histo!Group, Histo!Registers
<1>. QED  BY <1>1, <1>2 DEF BinsInv

\* what is counted, at each place
LEMMA TakenIs ==
  /\ pc = "count" /\ kernel = "no_conflict" => Histo!Taken = p + 0
  /\ pc = "count" /\ kernel = "slidedown" => Histo!Taken = p + tail
  /\ pc = "count" /\ kernel \in Histo!DupVariants =>
       Histo!Taken = p + IF tail * Lanes < vl THEN tail * Lanes ELSE vl
  /\ pc # "count" => Histo!Taken = p + vl
BY DEF Histo!Taken, Histo!DupVariants

LEMMA TakenNext ==
  /\ pc' = "count" /\ kernel' = "no_conflict" => Histo!Taken' = p' + 0
  /\ pc' = "count" /\ kernel' = "slidedown" => Histo!Taken' = p' + tail'
  /\ pc' = "count" /\ kernel' \in Histo!DupVariants =>
       Histo!Taken' = p' + IF tail' * Lanes < vl' THEN tail' * Lanes ELSE vl'
  /\ pc' # "count" => Histo!Taken' = p' + vl'
BY DEF Histo!Taken, Histo!DupVariants

LEMMA SlidedownCounts ==
  ASSUME ChunkInv, Places, BinsInv, Histo!CountElement
  PROVE  BinsInv'
<1>. USE LanesAssumption, LastAssumption
<1>1. /\ pc = "count" /\ kernel = "slidedown" /\ kernel' = kernel /\ grant' = grant
      /\ p' = p /\ vl' = vl /\ tail' = tail + 1 /\ pc' \in { "next", "count" }
      /\ pc' = "next" => tail + 1 = vl
      /\ touched' = Histo!Incremented({tail})
  BY DEF Histo!CountElement
<1>2. PICK k \in Nat : k = p + tail
  BY DEF ChunkInv, Places
<1>3. Histo!Taken = k
  BY <1>1, <1>2, TakenIs
<1>4. Histo!Taken' = k + 1
  <2>1. Histo!Taken' = p + (tail + 1)
    BY <1>1, TakenNext
  <2>. QED  BY <1>2, <2>1 DEF ChunkInv, Places
<1>5. kernel \notin Histo!DupVariants /\ kernel' \notin Histo!DupVariants
  BY <1>1 DEF Histo!DupVariants
<1>6. Histo!Cell(tail) = Histo!Bin(k)
  BY <1>2, <1>5 DEF Histo!Cell
<1>7. Exactly(k)
  BY <1>1, <1>3 DEF BinsInv
<1>8. ASSUME NEW b \in 0 .. Last - 1
      PROVE  touched'[b] = Cardinality(Elements(0, k + 1, b))
  <2>1. touched[b] = Cardinality(Elements(0, k, b))
    BY <1>5, <1>7 DEF Exactly, Histo!Count
  <2>2. b \in Histo!Cells
    BY CellFacts
  <2>3. touched'[b] = IF Histo!Bin(k) = b THEN touched[b] + 1 ELSE touched[b]
    BY <1>1, <1>6, <2>2, IncrementedNat DEF Places
  <2>4. Cardinality(Elements(0, k + 1, b)) =
          Cardinality(Elements(0, k, b)) + Cardinality(Elements(k, k + 1, b))
    BY <1>2, ElementsAdd
  <2>5. CASE Histo!Bin(k) = b
    <3>1. Elements(k, k + 1, b) = {k}
      BY <1>2, <2>5 DEF Elements
    <3>2. Cardinality(Elements(k, k + 1, b)) = 1
      BY <3>1, FS_Singleton
    <3>. QED  BY <2>1, <2>3, <2>4, <2>5, <3>2
  <2>6. CASE Histo!Bin(k) # b
    <3>1. Elements(k, k + 1, b) = {}
      BY <1>2, <2>6 DEF Elements
    <3>2. Cardinality(Elements(k, k + 1, b)) = 0 /\ Cardinality(Elements(0, k, b)) \in Nat
      BY <1>2, <3>1, FS_EmptySet, ElementsFinite
    <3>. QED  BY <2>1, <2>3, <2>4, <2>6, <3>2
  <2>. QED  BY <2>5, <2>6
<1>9. Exactly(k + 1)'
  <2>1. \A b \in 0 .. Last - 1 : Histo!Count(b)' = touched'[b]
    BY <1>5 DEF Histo!Count
  <2>. QED  BY <1>1, <1>8, <2>1, SameElements DEF Exactly
<1>. QED  BY <1>1, <1>4, <1>9 DEF BinsInv

(***************************************************************************)
(* A scatter that ignores conflicts raises by one the bins that have an    *)
(* element in the chunk, and these have no more than a group.              *)
(***************************************************************************)
LEMMA GroupCounts ==
  ASSUME ChunkInv, Places, BinsInv, Histo!CountGroup
  PROVE  BinsInv'
<1>. USE LanesAssumption, LastAssumption
<1>1. /\ pc = "count" /\ kernel = "no_conflict" /\ kernel' = kernel /\ grant' = grant
      /\ p' = p /\ vl' = vl /\ pc' = "next"
      /\ touched' = Histo!Incremented(0 .. vl - 1)
  BY DEF Histo!CountGroup
<1>2. PICK k \in Nat, v \in Nat, g \in Nat : k = p /\ v = vl /\ g = Histo!Group /\ v =< g
  <2>1. p \in Nat /\ vl \in Nat /\ Histo!Group \in Nat /\ vl =< Histo!Group
    BY Groups DEF ChunkInv, Places
  <2>. QED  BY <2>1
<1>3. Histo!Taken = k /\ Histo!Taken' = k + v
  BY <1>1, <1>2, TakenIs, TakenNext
<1>4. kernel \notin Histo!DupVariants
  BY <1>1 DEF Histo!DupVariants
<1>5. \A l : Histo!Cell(l) = Histo!Bin(k + l)
  BY <1>2, <1>4 DEF Histo!Cell
<1>6. LostOnly(k)
  BY <1>1, <1>3 DEF BinsInv
<1>7. Histo!Group' = Histo!Group
  BY <1>1 DEF Histo!Group, Histo!Registers
<1>8. Meet(k) => Meet(k + v)
  BY <1>2 DEF Meet
<1>9. ASSUME NEW b \in 0 .. Last - 1
      PROVE  /\ touched'[b] =< Cardinality(Elements(0, k + v, b))
             /\ Cardinality(Elements(0, k + v, b)) =< touched'[b] * g
             /\ ~ Meet(k + v) => touched'[b] = Cardinality(Elements(0, k + v, b))
  <2>. DEFINE E == Elements(k, k + v, b)
  <2>1. b \in Histo!Cells
    BY CellFacts
  <2>2. PICK c \in Nat, t \in Nat : c = Cardinality(Elements(0, k, b)) /\ t = touched[b]
    BY <1>2, <2>1, ElementsFinite DEF Places
  <2>3. PICK e \in Nat : e = Cardinality(E) /\ e =< v /\ IsFiniteSet(E)
    BY <1>2, ElementsFinite
  <2>4. Cardinality(Elements(0, k + v, b)) = c + e
    BY <1>2, <2>2, <2>3, ElementsAdd
  <2>5. t =< c /\ c =< t * g /\ (~ Meet(k + v) => t = c)
    BY <1>2, <1>6, <1>8, <2>2 DEF LostOnly
  <2>6. (\E l \in 0 .. vl - 1 : Histo!Cell(l) = b) <=> E # {}
    <3>1. ASSUME NEW l \in 0 .. v - 1, Histo!Bin(k + l) = b PROVE k + l \in E
      BY <1>2, <3>1 DEF Elements
    <3>2. ASSUME NEW i \in E PROVE i - k \in 0 .. v - 1 /\ Histo!Bin(k + (i - k)) = b
      <4>1. i \in k .. k + v - 1 /\ Histo!Bin(i) = b
        BY DEF Elements
      <4>2. i - k \in 0 .. v - 1 /\ k + (i - k) = i
        BY <1>2, <4>1
      <4>. QED  BY <4>1, <4>2
    <3>. HIDE DEF E
    <3>. QED  BY <1>2, <1>5, <3>1, <3>2
  <2>7. touched'[b] = IF E # {} THEN t + 1 ELSE t
    BY <1>1, <2>1, <2>2, <2>6, IncrementedNat DEF Places
  <2>8. CASE E = {}
    <3>1. e = 0
      BY <2>3, <2>8, FS_EmptySet
    <3>. QED  BY <2>4, <2>5, <2>7, <2>8, <3>1
  <2>9. CASE E # {}
    <3>1. e # 0
      BY <2>3, <2>9, FS_EmptySet
    <3>2. c + e =< (t + 1) * g
      <4>1. (t + 1) * g = t * g + g /\ t * g \in Nat
        BY <1>2, <2>2
      <4>. QED  BY <1>2, <2>2, <2>3, <2>5, <4>1
    <3>3. ~ Meet(k + v) => e = 1
      <4>1. SUFFICES ASSUME ~ Meet(k + v) PROVE e = 1
        OBVIOUS
      <4>2. \A i, j \in E : ~ (i < j)
        <5>1. SUFFICES ASSUME NEW i \in E, NEW j \in E, i < j PROVE FALSE
          OBVIOUS
        <5>2. /\ i \in k .. k + v - 1 /\ j \in k .. k + v - 1
              /\ Histo!Bin(i) = Histo!Bin(j)
          BY DEF Elements
        <5>3. i \in 0 .. (k + v) - 1 /\ j \in 0 .. (k + v) - 1 /\ j < i + g
          BY <1>2, <5>1, <5>2
        <5>. QED  BY <1>2, <4>1, <5>1, <5>2, <5>3 DEF Meet
      <4>3. PICK i : i \in E
        BY <2>9
      <4>4. \A j \in E : j = i
        <5>1. \A j \in E : j \in Int
          BY DEF Elements
        <5>. HIDE DEF E
        <5>. QED  BY <4>2, <4>3, <5>1
      <4>5. E = {i}
        <5>. HIDE DEF E
        <5>. QED  BY <4>3, <4>4
      <4>. QED  BY <2>3, <4>5, FS_Singleton
    <3>. HIDE DEF E
    <3>. QED  BY <1>2, <2>2, <2>3, <2>4, <2>5, <2>7, <2>9, <3>1, <3>2, <3>3
  <2>. QED  BY <2>8, <2>9
<1>10. LostOnly(k + v)'
  <2>1. Meet(k + v)' = Meet(k + v)
    BY <1>1, <1>7 DEF Meet, Histo!Bin
  <2>2. \A b : Elements(0, k + v, b)' = Elements(0, k + v, b)
    BY <1>1, SameElements
  <2>. QED  BY <1>2, <1>7, <1>9, <2>1, <2>2 DEF LostOnly
<1>. QED  BY <1>1, <1>3, <1>10 DEF BinsInv

(***************************************************************************)
(* The final loop adds the counters of a bin up into a cell that is one of *)
(* the counters of a bin before, or its own first one.                     *)
(***************************************************************************)
LEMMA ReduceKeeps ==
  ASSUME ChunkInv, Places, BinsInv, Histo!Reduce
  PROVE  BinsInv'
<1>. USE LanesAssumption, LastAssumption
<1>1. /\ pc = "reduce" /\ pc' \in { "reduce", "done" } /\ kernel' = kernel /\ grant' = grant
      /\ p' = p /\ vl' = vl /\ quarter' = quarter + 1
      /\ touched' = [touched EXCEPT ![quarter] = Total(touched, Histo!CountersOf(quarter))]
  BY DEF Histo!Reduce, Histo!ReducedTo, Total
<1>2. kernel \in Histo!DupVariants /\ kernel' \in Histo!DupVariants /\ quarter \in 0 .. Last - 1
  BY <1>1 DEF Places
<1>3. kernel # "no_conflict"
  BY <1>2 DEF Histo!DupVariants
<1>4. Histo!Taken' = Histo!Taken
  BY <1>1, TakenIs, TakenNext
<1>5. touched \in [Histo!Cells -> Nat] /\ quarter \in Histo!Cells
  BY <1>2, CellFacts DEF Places
<1>6. ASSUME NEW b \in 0 .. Last - 1 PROVE Histo!Count(b)' = Histo!Count(b)
  <2>1. Histo!Count(b) = IF b >= quarter THEN Total(touched, Histo!CountersOf(b)) ELSE touched[b]
    BY <1>2 DEF Histo!Count, Total
  <2>2. Histo!Count(b)' =
          IF b >= quarter + 1 THEN Total(touched', Histo!CountersOf(b)) ELSE touched'[b]
    BY <1>1, <1>2 DEF Histo!Count, Total, Histo!CountersOf
  <2>3. CASE b < quarter
    <3>1. touched'[b] = touched[b] /\ ~ (b >= quarter) /\ ~ (b >= quarter + 1)
      BY <1>1, <1>2, <1>5, <2>3
    <3>. QED  BY <2>1, <2>2, <3>1
  <2>4. CASE b = quarter
    <3>1. touched'[b] = Total(touched, Histo!CountersOf(b)) /\ b >= quarter /\ ~ (b >= quarter + 1)
      BY <1>1, <1>2, <1>5, <2>4
    <3>. QED  BY <2>1, <2>2, <3>1
  <2>5. CASE b > quarter
    <3>1. b >= quarter /\ b >= quarter + 1 /\ b \in Nat
      BY <1>2, <2>5
    <3>2. quarter \notin Histo!CountersOf(b)
      <4>1. PICK x \in Nat, w \in Nat \ {0} : x = b /\ w = Lanes
        BY <3>1
      <4>2. x =< x * w /\ x * w \in Nat
        BY ONLY <4>1
      <4>. QED  BY <1>2, <2>5, <4>1, <4>2 DEF Histo!CountersOf
    <3>3. IsFiniteSet(Histo!CountersOf(b)) /\ Histo!CountersOf(b) \in SUBSET Histo!Cells
      BY <3>1, CellFacts
    <3>4. {} \in SUBSET Histo!CountersOf(b)
      OBVIOUS
    <3>5. \A x \in Histo!CountersOf(b) :
            /\ touched[x] \in Nat
            /\ touched'[x] = IF x \in {} THEN touched[x] + 1 ELSE touched[x]
      BY <1>1, <1>5, <3>2, <3>3
    <3>6. /\ Total(touched, Histo!CountersOf(b)) \in Nat
          /\ Total(touched', Histo!CountersOf(b)) =
               Total(touched, Histo!CountersOf(b)) + Cardinality({})
      BY <3>3, <3>4, <3>5, TotalRaised
    <3>7. Cardinality({}) = 0
      BY FS_EmptySet
    <3>. QED  BY <2>1, <2>2, <3>1, <3>6, <3>7
  <2>. QED  BY <1>2, <2>3, <2>4, <2>5
<1>7. \A k : Exactly(k)' = Exactly(k)
  BY <1>1, <1>6, SameElements DEF Exactly
<1>. QED  BY <1>1, <1>3, <1>4, <1>7 DEF BinsInv

\* the elements in a register, as positions
LEMMA RegisterIs ==
  ASSUME NEW r \in Nat, NEW l \in Nat
  PROVE  l \div Lanes = r <=> r * Lanes =< l /\ l < (r + 1) * Lanes
<1>. USE LanesAssumption
<1>1. PICK q \in Nat, x \in 0 .. Lanes - 1 : q = l \div Lanes /\ l = q * Lanes + x
  BY Quotient
<1>2. (r + 1) * Lanes = r * Lanes + Lanes /\ r * Lanes \in Nat /\ q * Lanes \in Nat
  OBVIOUS
<1>3. q < r => q * Lanes + Lanes =< r * Lanes
  BY OneMoreFits
<1>4. r < q => r * Lanes + Lanes =< q * Lanes
  BY OneMoreFits
<1>5. q = r \/ q < r \/ r < q
  OBVIOUS
<1>. QED  BY ONLY <1>1, <1>2, <1>3, <1>4, <1>5, LanesAssumption

(***************************************************************************)
(* A scatter of the dup kernels raises by one the counter of each of its   *)
(* elements: of every bin as many as it has elements there, for the lanes  *)
(* are apart.                                                              *)
(***************************************************************************)
LEMMA RaisedCounters ==
  ASSUME ChunkInv, Places, kernel \in Histo!DupVariants, kernel # "dup_m4", pc = "count",
         \A l, m \in Histo!InRegister(tail) : l # m => Histo!Cell(l) # Histo!Cell(m)
  PROVE  \A k, m, b \in Nat :
           /\ k =< m
           /\ \A i \in Nat : i \in k .. m - 1 <=>
                               i >= p /\ i - p \in Histo!InRegister(tail)
           => Cardinality({ c \in Histo!CountersOf(b) :
                              \E l \in Histo!InRegister(tail) : Histo!Cell(l) = c }) =
                Cardinality(Elements(k, m, b))
<1>. USE LanesAssumption, LastAssumption
<1>. SUFFICES ASSUME NEW k \in Nat, NEW m \in Nat, NEW b \in Nat, k =< m,
                     \A i \in Nat : i \in k .. m - 1 <=>
                                      i >= p /\ i - p \in Histo!InRegister(tail)
              PROVE  Cardinality({ c \in Histo!CountersOf(b) :
                              \E l \in Histo!InRegister(tail) : Histo!Cell(l) = c }) =
                       Cardinality(Elements(k, m, b))
  OBVIOUS
<1>. DEFINE A == { c \in Histo!CountersOf(b) :
                     \E l \in Histo!InRegister(tail) : Histo!Cell(l) = c }
            E == Elements(k, m, b)
            f == [i \in E |-> Histo!Cell(i - p)]
<1>1. PICK d \in Nat : d = p
  BY DEF ChunkInv
<1>2. IsFiniteSet(E)
  BY ElementsFinite
<1>3. ASSUME NEW l \in Histo!InRegister(tail)
      PROVE  /\ l \in Nat /\ d + l \in k .. m - 1 /\ (d + l) - d = l
             /\ Histo!Cell(l) = Histo!Bin(d + l) * Lanes + (l % Lanes)
             /\ Histo!Bin(d + l) \in Nat /\ l % Lanes \in 0 .. Lanes - 1
  <2>1. l \in Nat /\ l \in 0 .. vl - 1
    BY DEF Histo!InRegister, ChunkInv
  <2>2. d + l \in Nat /\ d + l >= p /\ (d + l) - p = l
    BY <1>1, <2>1
  <2>3. d + l \in k .. m - 1
    BY <2>2
  <2>4. Histo!Bin(d + l) \in Nat
    <3>1. d + l \in 0 .. p + n - 1
      BY <1>1, <2>1 DEF ChunkInv
    <3>. QED  BY <3>1 DEF ChunkInv, Histo!Bin
  <2>5. Histo!Cell(l) = Histo!Bin(d + l) * Lanes + (l % Lanes)
    BY <1>1 DEF Histo!Cell, Histo!LaneOffset
  <2>6. l % Lanes \in 0 .. Lanes - 1
    BY <2>1
  <2>. QED  BY <1>1, <2>1, <2>2, <2>3, <2>4, <2>5, <2>6
<1>4. ASSUME NEW i \in E
      PROVE  i \in Nat /\ i - d \in Histo!InRegister(tail) /\ d + (i - d) = i /\ Histo!Bin(i) = b
  <2>1. i \in Nat /\ i \in k .. m - 1 /\ Histo!Bin(i) = b
    BY DEF Elements
  <2>. QED  BY <1>1, <2>1
<1>5. ASSUME NEW i \in E PROVE f[i] \in A
  <2>1. Histo!Cell(i - d) = b * Lanes + ((i - d) % Lanes) /\ (i - d) % Lanes \in 0 .. Lanes - 1
    BY <1>3, <1>4
  <2>2. PICK x \in Nat, y \in 0 .. Lanes - 1 : x = b * Lanes /\ y = (i - d) % Lanes
    BY <2>1
  <2>3. Histo!Cell(i - d) \in Histo!CountersOf(b)
    BY <2>1, <2>2 DEF Histo!CountersOf
  <2>. QED  BY <1>1, <1>4, <2>3
<1>6. ASSUME NEW i \in E, NEW j \in E, f[i] = f[j] PROVE i = j
  <2>1. Histo!Cell(i - d) = Histo!Cell(j - d)
    BY <1>1, <1>6
  <2>2. i - d = j - d
    BY <1>4, <2>1
  <2>. QED  BY <1>4, <2>2
<1>7. ASSUME NEW c \in A PROVE \E i \in E : f[i] = c
  <2>1. PICK l \in Histo!InRegister(tail) : Histo!Cell(l) = c
    OBVIOUS
  <2>2. PICK a \in Nat, x \in 0 .. Lanes - 1 : a = Histo!Bin(d + l) /\ x = l % Lanes
    BY <1>3
  <2>3. c = a * Lanes + x
    BY <1>3, <2>1, <2>2
  <2>4. PICK y \in 0 .. Lanes - 1 : c = b * Lanes + y
    <3>1. c \in b * Lanes .. b * Lanes + Lanes - 1 /\ b * Lanes \in Nat
      BY DEF Histo!CountersOf
    <3>2. c - b * Lanes \in 0 .. Lanes - 1 /\ c = b * Lanes + (c - b * Lanes)
      BY <3>1
    <3>. QED  BY <3>2
  <2>5. a = b
    <3>1. (a * Lanes + x) \div Lanes = a
      BY ONLY <2>2, QuotientUnique, LanesAssumption
    <3>2. (b * Lanes + y) \div Lanes = b
      BY ONLY <2>4, QuotientUnique, LanesAssumption
    <3>. QED  BY <2>3, <2>4, <3>1, <3>2
  <2>6. d + l \in E
    BY <1>3, <2>2, <2>5 DEF Elements
  <2>7. f[d + l] = c
    BY <1>1, <1>3, <2>1, <2>6
  <2>. QED  BY <2>6, <2>7
<1>. HIDE DEF A, E
<1>8. f \in [E -> A] /\ DOMAIN f = E
  BY <1>5
<1>. HIDE DEF f
<1>9. f \in Surjection(E, A)
  BY <1>7, <1>8 DEF Surjection
<1>10. f \in Injection(E, A)
  BY <1>6, <1>8 DEF Injection, IsInjective
<1>11. Cardinality(A) = Cardinality(E)
  BY <1>2, <1>9, <1>10, FS_Surjection
<1>. QED  BY <1>11 DEF A, E

LEMMA RegisterCounts ==
  ASSUME function = "hist", ChunkInv, Places, BinsInv, Histo!CountRegister
  PROVE  BinsInv'
<1>. USE LanesAssumption, LastAssumption
<1>1. /\ pc = "count" /\ kernel \in Histo!DupVariants /\ kernel' = kernel /\ grant' = grant
      /\ p' = p /\ vl' = vl /\ tail' = tail + 1 /\ quarter' = quarter
      /\ pc' \in { "next", "count" } /\ (pc' = "next" => tail + 1 = Histo!Registers)
      /\ touched' = Histo!Incremented(Histo!InRegister(tail))
  BY DEF Histo!CountRegister
<1>2. SUFFICES ASSUME kernel # "dup_m4" PROVE BinsInv'
  BY <1>1 DEF BinsInv, Histo!DupVariants
<1>3. PICK d \in Nat, v \in Nat, r \in Nat : d = p /\ v = vl /\ r = tail
  BY DEF ChunkInv, Places
<1>4. PICK a \in Nat, c \in Nat : a = r * Lanes /\ c = (r + 1) * Lanes /\ a =< c
  <2>1. r * Lanes \in Nat /\ (r + 1) * Lanes \in Nat /\ (r + 1) * Lanes = r * Lanes + Lanes
    OBVIOUS
  <2>. QED  BY <2>1
<1>. DEFINE k == d + IF a < v THEN a ELSE v
            m == d + IF c < v THEN c ELSE v
<1>5. k \in Nat /\ m \in Nat /\ k =< m
  BY <1>3, <1>4
<1>6. Histo!Taken = k
  BY <1>1, <1>3, <1>4, TakenIs
<1>7. Histo!Taken' = m
  <2>1. CASE pc' = "count"
    BY <1>1, <1>3, <1>4, <2>1, TakenNext
  <2>2. CASE pc' = "next"
    <3>1. v =< c
      BY <1>1, <1>3, <1>4, <2>2, Groups DEF Places
    <3>. QED  BY <1>1, <1>3, <1>4, <2>2, <3>1, TakenNext
  <2>. QED  BY <1>1, <2>1, <2>2
<1>8. \A l \in Nat : l \in Histo!InRegister(tail) <=> a =< l /\ l < c /\ l < v
  <2>1. SUFFICES ASSUME NEW l \in Nat
                 PROVE  l \in Histo!InRegister(tail) <=> a =< l /\ l < c /\ l < v
    OBVIOUS
  <2>2. l \div Lanes = r <=> a =< l /\ l < c
    BY <1>4, RegisterIs
  <2>. QED  BY <1>3, <2>2 DEF Histo!InRegister
<1>9. \A i \in Nat : i \in k .. m - 1 <=> i >= p /\ i - p \in Histo!InRegister(tail)
  <2>1. SUFFICES ASSUME NEW i \in Nat
                 PROVE  i \in k .. m - 1 <=> i >= p /\ i - p \in Histo!InRegister(tail)
    OBVIOUS
  <2>2. CASE i < d
    BY <1>3, <1>4, <2>2
  <2>3. CASE i >= d
    <3>1. PICK l \in Nat : l = i - d
      BY <1>3, <2>3
    <3>2. i \in k .. m - 1 <=> a =< l /\ l < c /\ l < v
      BY <1>3, <1>4, <2>3, <3>1
    <3>. QED  BY <1>3, <1>8, <2>3, <3>1, <3>2
  <2>. QED  BY <1>3, <2>2, <2>3
<1>. HIDE DEF k, m
<1>10. \A l, e \in Histo!InRegister(tail) : l # e => Histo!Cell(l) # Histo!Cell(e)
  <2>1. LanesApart
    BY <1>2, ChunkLanes DEF HistInv
  <2>. QED  BY <1>1, <2>1 DEF LanesApart, Histo!LanesApart
<1>11. quarter = 0 /\ kernel # "no_conflict"
  BY <1>1 DEF Places, Histo!DupVariants
<1>12. Exactly(k)
  BY <1>1, <1>2, <1>6, <1>11 DEF BinsInv
<1>13. ASSUME NEW b \in 0 .. Last - 1
       PROVE  Histo!Count(b)' = Cardinality(Elements(0, m, b))
  <2>. DEFINE C == Histo!CountersOf(b)
              A == { x \in C : \E l \in Histo!InRegister(tail) : Histo!Cell(l) = x }
  <2>1. b \in Nat /\ b \in 0 .. Last /\ b >= quarter
    BY <1>11
  <2>2. Histo!Count(b) = Total(touched, C)
    BY <1>1, <2>1 DEF Histo!Count, Total
  <2>3. Histo!Count(b)' = Total(touched', C)
    BY <1>1, <2>1 DEF Histo!Count, Total, Histo!CountersOf
  <2>4. IsFiniteSet(C) /\ C \in SUBSET Histo!Cells
    BY <2>1, CellFacts
  <2>. HIDE DEF C
  <2>5. \A x \in C :
          /\ touched[x] \in Nat
          /\ touched'[x] = IF x \in A THEN touched[x] + 1 ELSE touched[x]
    BY <1>1, <2>4, IncrementedNat DEF Places
  <2>6. Total(touched', C) = Total(touched, C) + Cardinality(A)
    <3>1. A \in SUBSET C
      OBVIOUS
    <3>. HIDE DEF A
    <3>. QED  BY <2>4, <2>5, <3>1, TotalRaised
  <2>7. Cardinality(A) = Cardinality(Elements(k, m, b))
    <3>1. \A x, y, z \in Nat :
           /\ x =< y
           /\ \A i \in Nat : i \in x .. y - 1 <=>
                               i >= p /\ i - p \in Histo!InRegister(tail)
           => Cardinality({ e \in Histo!CountersOf(z) :
                              \E l \in Histo!InRegister(tail) : Histo!Cell(l) = e }) =
                Cardinality(Elements(x, y, z))
      BY <1>1, <1>2, <1>10, RaisedCounters
    <3>2. Cardinality({ e \in Histo!CountersOf(b) :
                          \E l \in Histo!InRegister(tail) : Histo!Cell(l) = e }) =
            Cardinality(Elements(k, m, b))
      BY <1>5, <1>9, <2>1, <3>1
    <3>. QED  BY <3>2 DEF C
  <2>8. Histo!Count(b) = Cardinality(Elements(0, k, b))
    BY <1>12 DEF Exactly
  <2>9. Cardinality(Elements(0, m, b)) =
          Cardinality(Elements(0, k, b)) + Cardinality(Elements(k, m, b))
    BY <1>5, ElementsAdd
  <2>. HIDE DEF A
  <2>. QED  BY <2>2, <2>3, <2>6, <2>7, <2>8, <2>9
<1>14. Exactly(m)'
  BY <1>1, <1>13, SameElements DEF Exactly
<1>. QED  BY <1>1, <1>7, <1>11, <1>14 DEF BinsInv

LEMMA CountStep == CountInv /\ [Next]_vars => CountInv'
<1>. SUFFICES ASSUME CountInv, [Next]_vars, function' = "hist"
              PROVE  ChunkInv' /\ Places' /\ BinsInv'
  BY DEF CountInv
<1>1. CASE UNCHANGED vars
  <2>1. function = "hist" /\ ChunkInv /\ Places /\ BinsInv
    BY <1>1 DEF vars, CountInv
  <2>2. ChunkInv'
    BY <1>1, <2>1 DEF vars, ChunkInv
  <2>3. Places'
    BY <1>1, <2>1 DEF vars, Places, Histo!Group, Histo!Registers
  <2>4. Histo!Taken' = Histo!Taken
    BY <1>1 DEF vars, Histo!Taken
  <2>. QED  BY <1>1, <2>1, <2>2, <2>3, <2>4, QuietKeeps DEF vars
<1>2. CASE Next
  <2>1. function = "hist" /\ Histo!Next /\ ChunkInv /\ Places /\ BinsInv
    BY <1>2, OneRuns DEF CountInv, Strip!Functions, Number!Functions, Table!Functions
  <2>2. ChunkInv'
    BY <2>1, HistStep DEF HistInv
  <2>3. Places'
    BY <2>1, PlacesStep
  <2>4. BinsInv'
    <3>1. CASE Histo!EnterEmpty
      <4>1. Histo!Taken' = Histo!Taken
        BY <3>1, TakenIs, TakenNext DEF Histo!EnterEmpty
      <4>. QED  BY <2>1, <3>1, <4>1, QuietKeeps DEF Histo!EnterEmpty
    <3>2. CASE Histo!NextChunk
      <4>. USE LanesAssumption
      <4>1. /\ p \in Nat /\ vl = 0 /\ Histo!Taken = p + vl /\ p' = p /\ tail' = 0 /\ kernel' = kernel
            /\ pc' \in { "next", "count" }
            /\ pc' = "next" => vl' = 0
        BY <2>1, <3>2, TakenIs DEF Histo!NextChunk, Places, ChunkInv
      <4>2. vl' \in Nat /\ kernel' \in Histo!DupVariants \cup { "no_conflict", "slidedown" }
        BY <2>2, VariantsAssumption DEF ChunkInv
      <4>3. CASE pc' = "next"
        BY <2>1, <3>2, <4>1, <4>3, TakenNext, QuietKeeps DEF Histo!NextChunk
      <4>4. CASE pc' = "count"
        <5>1. Histo!Taken' = p
          <6>1. CASE kernel' = "no_conflict"
            BY <4>1, <4>4, <6>1, TakenNext
          <6>2. CASE kernel' = "slidedown"
            BY <4>1, <4>4, <6>2, TakenNext
          <6>3. CASE kernel' \in Histo!DupVariants
            BY <4>1, <4>2, <4>4, <6>3, TakenNext
          <6>. QED  BY <4>2, <6>1, <6>2, <6>3
        <5>. QED  BY <2>1, <3>2, <4>1, <5>1, QuietKeeps DEF Histo!NextChunk
      <4>. QED  BY <4>1, <4>3, <4>4
    <3>3. CASE Histo!CountGroup
      BY <2>1, <3>3, GroupCounts
    <3>4. CASE Histo!CountElement
      BY <2>1, <3>4, SlidedownCounts
    <3>5. CASE Histo!CountRegister
      BY <2>1, <3>5, RegisterCounts
    <3>6. CASE Histo!Advanced
      <4>1. pc = "next" /\ pc' = "more" /\ p' = p + vl /\ vl' = 0 /\ p \in Nat /\ vl \in Nat
        BY <2>1, <3>6 DEF Histo!Advanced, Histo!Advance, ChunkInv
      <4>2. Histo!Taken' = Histo!Taken
        BY <4>1, TakenIs, TakenNext
      <4>. QED  BY <2>1, <3>6, <4>2, QuietKeeps DEF Histo!Advanced
    <3>7. CASE Histo!LeaveLoop
      <4>1. Histo!Taken' = Histo!Taken
        BY <3>7, TakenIs, TakenNext DEF Histo!LeaveLoop
      <4>. QED  BY <2>1, <3>7, <4>1, QuietKeeps DEF Histo!LeaveLoop
    <3>8. CASE Histo!Reduce
      BY <2>1, <3>8, ReduceKeeps
    <3>9. CASE Histo!Terminating
      <4>1. Histo!Taken' = Histo!Taken
        BY <3>9 DEF Histo!Terminating, Histo!vars, Histo!Taken
      <4>. QED  BY <2>1, <3>9, <4>1, QuietKeeps DEF Histo!Terminating, Histo!vars
    <3>. QED  BY <2>1, <3>1, <3>2, <3>3, <3>4, <3>5, <3>6, <3>7, <3>8, <3>9 DEF Histo!Next
  <2>. QED  BY <2>2, <2>3, <2>4
<1>. QED  BY <1>1, <1>2

LEMMA NothingCounted ==
  ASSUME NEW S, IsFiniteSet(S), NEW h, \A x \in S : h[x] = 0
  PROVE  Total(h, S) = 0
<1>. DEFINE Good == { k \in 0 .. Cardinality(S) :
                        \A s \in SUBSET S : Cardinality(s) =< k => Total(h, s) = 0 }
<1>1. Cardinality(S) \in Nat
  BY FS_CardinalityType
<1>2. ASSUME NEW s \in SUBSET S, s = {} \/ Total(h, s \ {Chosen(s)}) = 0
      PROVE  Total(h, s) = 0
  <2>1. IsFiniteSet(s) /\ (s # {} => Chosen(s) \in S)
    BY OneLess, FS_Subset
  <2>. QED  BY <1>2, <2>1, TotalOf
<1>3. 0 \in Good
  <2>1. ASSUME NEW s \in SUBSET S, Cardinality(s) =< 0 PROVE Total(h, s) = 0
    <3>1. s # {} => Cardinality(s) \in Nat \ {0}
      BY OneLess
    <3>. QED  BY <1>2, <2>1, <3>1
  <2>. QED  BY <1>1, <2>1
<1>4. ASSUME NEW k \in 0 .. Cardinality(S) - 1, k \in Good PROVE k + 1 \in Good
  <2>1. ASSUME NEW s \in SUBSET S, Cardinality(s) =< k + 1, s # {} PROVE Total(h, s) = 0
    <3>1. /\ s \ {Chosen(s)} \in SUBSET S /\ Cardinality(s) \in Nat
          /\ Cardinality(s \ {Chosen(s)}) = Cardinality(s) - 1
      BY <2>1, OneLess
    <3>2. Cardinality(s \ {Chosen(s)}) =< k
      BY <1>1, <2>1, <3>1
    <3>. QED  BY <1>2, <1>4, <3>1, <3>2
  <2>2. \A s \in SUBSET S : Cardinality(s) =< k + 1 => Total(h, s) = 0
    BY <1>2, <2>1
  <2>. QED  BY <1>1, <2>2
<1>. HIDE DEF Good
<1>5. \A k \in 0 .. Cardinality(S) : k \in Good
  BY <1>1, <1>3, <1>4, Induction
<1>6. Cardinality(S) \in Good /\ S \in SUBSET S
  BY <1>1, <1>5
<1>. QED  BY <1>1, <1>6 DEF Good

LEMMA CountInit == Init => CountInv
<1>. SUFFICES ASSUME Init, function = "hist" PROVE ChunkInv /\ Places /\ BinsInv
  BY DEF CountInv
<1>. USE LanesAssumption, LastAssumption
<1>1. Histo!Init
  BY DEF Init, Start, Strip!Functions, Number!Functions, Table!Functions
<1>2. ChunkInv
  BY HistInit DEF HistInv
<1>3. /\ pc = "entry" /\ p = 0 /\ vl = 0 /\ tail = 0 /\ quarter = 0
      /\ touched = [c \in Histo!Cells |-> 0]
  BY <1>1 DEF Histo!Init
<1>4. Places
  BY <1>2, <1>3, Groups DEF Places
<1>5. Histo!Taken = 0
  BY <1>3, TakenIs
<1>6. ASSUME NEW b \in 0 .. Last - 1
      PROVE  /\ touched[b] = 0 /\ Histo!Count(b) = 0
             /\ Cardinality(Elements(0, 0, b)) = 0
  <2>1. b \in Nat /\ b \in Histo!Cells /\ touched[b] = 0
    BY <1>3, CellFacts
  <2>2. IsFiniteSet(Histo!CountersOf(b)) /\ Histo!CountersOf(b) \in SUBSET Histo!Cells
    BY <2>1, CellFacts
  <2>3. \A x \in Histo!CountersOf(b) : touched[x] = 0
    BY <1>3, <2>2
  <2>4. Total(touched, Histo!CountersOf(b)) = 0
    BY <2>2, <2>3, NothingCounted
  <2>5. Histo!Count(b) = 0
    BY <2>1, <2>4 DEF Histo!Count, Total
  <2>6. Cardinality(Elements(0, 0, b)) \in 0 .. 0 - 0
    BY ElementsFinite
  <2>. QED  BY <2>1, <2>5, <2>6
<1>7. Exactly(0)
  BY <1>6 DEF Exactly
<1>8. LostOnly(0)
  <2>1. kernel = "no_conflict" => Histo!Group \in Nat
    BY <1>2, Groups
  <2>2. Histo!Group \in Nat /\ 0 * Histo!Group = 0
    BY <1>2, Groups
  <2>. QED  BY <1>6, <2>2 DEF LostOnly
<1>. QED  BY <1>2, <1>4, <1>5, <1>7, <1>8 DEF BinsInv

LEMMA CountAlways == Spec => []CountInv
BY CountInit, CountStep, PTL DEF Spec

\* the elements that are counted are in the array, and in the end all of it
LEMMA TakenWhen ==
  ASSUME ChunkInv, Places
  PROVE  /\ Histo!Taken \in 0 .. p + n
         /\ Cardinality(DOMAIN grant) = p + n
         /\ pc = "done" => Histo!Taken = p + n
<1>. USE LanesAssumption, LastAssumption
<1>1. PICK d \in Nat, v \in Nat, m \in Nat, r \in Nat :
        d = p /\ v = vl /\ m = n /\ r = tail /\ v =< m
  BY DEF ChunkInv, Places
<1>2. DOMAIN grant = 0 .. d + m - 1
  BY <1>1 DEF ChunkInv
<1>3. Cardinality(DOMAIN grant) = d + m
  <2>1. PICK e \in Int : e = d + m - 1
    OBVIOUS
  <2>2. Cardinality(0 .. e) = IF 0 > e THEN 0 ELSE e - 0 + 1
    BY FS_Interval
  <2>. QED  BY <1>2, <2>1, <2>2
<1>4. Histo!Taken \in 0 .. d + m
  <2>1. CASE pc # "count"
    BY <1>1, <2>1, TakenIs
  <2>2. CASE pc = "count" /\ kernel = "no_conflict"
    BY <1>1, <2>2, TakenIs
  <2>3. CASE pc = "count" /\ kernel = "slidedown"
    BY <1>1, <2>3, TakenIs DEF Places
  <2>4. CASE pc = "count" /\ kernel \in Histo!DupVariants
    <3>1. PICK a \in Nat : a = r * Lanes
      OBVIOUS
    <3>2. Histo!Taken = d + IF a < v THEN a ELSE v
      BY <1>1, <2>4, <3>1, TakenIs
    <3>. QED  BY <1>1, <3>1, <3>2
  <2>. QED  BY <2>1, <2>2, <2>3, <2>4, VariantsAssumption DEF ChunkInv
<1>5. pc = "done" => Histo!Taken = d + m
  BY <1>1, TakenIs DEF Places
<1>. QED  BY <1>1, <1>3, <1>4, <1>5

(***************************************************************************)
(* For registers of every size, every number of bins, elements of every    *)
(* number, and every answer of vsetvli: the kernel that ignores conflicts  *)
(* loses counts where there are conflicts only, adds none, and counts at   *)
(* least one element of a group.                                           *)
(***************************************************************************)
THEOREM OnlyConflictsLose == Spec => []ConflictsOnlyLose
<1>1. CountInv => ConflictsOnlyLose
  <2>. SUFFICES ASSUME function = "hist", ChunkInv, Places, BinsInv, kernel = "no_conflict",
                       NEW b \in 0 .. Last - 1
                PROVE  /\ touched[b] =< Histo!Exact(Histo!Taken)[b]
                       /\ Histo!Exact(Histo!Taken)[b] =< touched[b] * Histo!Group
                       /\ ~ Histo!Close => touched[b] = Histo!Exact(Histo!Taken)[b]
    BY DEF CountInv, ConflictsOnlyLose, Histo!ConflictsOnlyLose
  <2>1. Histo!Taken \in Nat
    BY TakenWhen DEF ChunkInv
  <2>2. Histo!Exact(Histo!Taken)[b] = Cardinality(Elements(0, Histo!Taken, b))
    BY <2>1, ExactIs
  <2>3. Meet(Histo!Taken) <=> Histo!Close
    BY DEF Meet, Histo!Close
  <2>. QED  BY <2>2, <2>3 DEF BinsInv, LostOnly
<1>. QED  BY <1>1, CountAlways, PTL

(***************************************************************************)
(* And slidedown, dup_m1 and dup_m2 return the histogram hist_scalar does. *)
(***************************************************************************)
THEOREM CountsAreRight ==
  Spec => [](function = "hist" /\ kernel \notin { "no_conflict", "dup_m4" }
               => Histo!CountsAreExact)
<1>1. CountInv => (function = "hist" /\ kernel \notin { "no_conflict", "dup_m4" }
                     => Histo!CountsAreExact)
  <2>. SUFFICES ASSUME function = "hist", ChunkInv, Places, BinsInv, pc = "done",
                       kernel \notin { "no_conflict", "dup_m4" }, NEW b \in 0 .. Last - 1
                PROVE  touched[b] = Histo!Exact(Histo!Cardinality(DOMAIN grant))[b]
    BY DEF CountInv, Histo!CountsAreExact
  <2>1. Histo!Cardinality(DOMAIN grant) = Histo!Taken /\ Histo!Taken \in Nat
    <3>1. Histo!Cardinality(DOMAIN grant) = Cardinality(DOMAIN grant)
      BY DEF Histo!Cardinality, Cardinality
    <3>. QED  BY <3>1, TakenWhen DEF ChunkInv
  <2>2. Histo!Exact(Histo!Taken)[b] = Cardinality(Elements(0, Histo!Taken, b))
    BY <2>1, ExactIs
  <2>3. Histo!Count(b) = Cardinality(Elements(0, Histo!Taken, b))
    BY DEF BinsInv, Exactly
  <2>4. Histo!Count(b) = touched[b]
    BY LastAssumption DEF Histo!Count, Places
  <2>. QED  BY <2>1, <2>2, <2>3, <2>4
<1>. QED  BY <1>1, CountAlways, PTL

-----------------------------------------------------------------------------
(* hist implements Histogram.                                              *)

TakenInv ==
  function = "hist" =>
    /\ p \in Nat /\ p =< Histo!Taken /\ Histo!Taken =< p + vl
    /\ Cardinality(DOMAIN grant) \in Nat /\ Histo!Taken \in 0 .. Cardinality(DOMAIN grant)
    /\ pc = "done" => Histo!Taken = Cardinality(DOMAIN grant)

LEMMA TakenAlways == CountInv => TakenInv
<1>. SUFFICES ASSUME function = "hist", ChunkInv, Places
              PROVE  p =< Histo!Taken /\ Histo!Taken =< p + vl
  BY TakenWhen DEF CountInv, TakenInv, ChunkInv
<1>. USE LanesAssumption
<1>1. PICK d \in Nat, v \in Nat, r \in Nat, a \in Nat :
        d = p /\ v = vl /\ r = tail /\ a = r * Lanes
  BY DEF ChunkInv, Places
<1>2. CASE pc # "count"
  BY <1>1, <1>2, TakenIs
<1>3. CASE pc = "count" /\ kernel = "no_conflict"
  BY <1>1, <1>3, TakenIs
<1>4. CASE pc = "count" /\ kernel = "slidedown"
  BY <1>1, <1>4, TakenIs DEF Places
<1>5. CASE pc = "count" /\ kernel \in Histo!DupVariants
  BY <1>1, <1>5, TakenIs
<1>. QED  BY <1>2, <1>3, <1>4, <1>5, VariantsAssumption DEF ChunkInv

\* no step takes an element back
LEMMA TakenGrows ==
  ASSUME function = "hist", function' = "hist", ChunkInv, Places, TakenInv, TakenInv', Histo!Next
  PROVE  Histo!Taken =< Histo!Taken'
<1>. USE LanesAssumption
<1>1. PICK d \in Nat, v \in Nat, r \in Nat, t \in Nat :
        d = p /\ v = vl /\ r = tail /\ t = Histo!Taken /\ d =< t /\ t =< d + v
  <2>1. p \in Nat /\ vl \in Nat /\ tail \in Nat
    BY DEF ChunkInv, Places
  <2>2. Histo!Taken \in Nat /\ p =< Histo!Taken /\ Histo!Taken =< p + vl
    BY DEF TakenInv
  <2>. QED  BY <2>1, <2>2
<1>2. p' \in Nat /\ p' =< Histo!Taken' /\ Histo!Taken' \in Nat
  BY DEF TakenInv
<1>3. CASE Histo!EnterEmpty \/ Histo!LeaveLoop \/ Histo!Reduce \/ Histo!Terminating
  <2>1. pc # "count" /\ pc' # "count" /\ p' = p /\ vl' = vl
    BY <1>3 DEF Histo!EnterEmpty, Histo!LeaveLoop, Histo!Reduce, Histo!Terminating, Histo!vars
  <2>. QED  BY <1>1, <2>1, TakenIs, TakenNext
<1>4. CASE Histo!NextChunk \/ Histo!CountGroup
  <2>1. Histo!Taken = p + 0 /\ p' = p
    BY <1>4, TakenIs DEF Histo!NextChunk, Histo!CountGroup, Places
  <2>. QED  BY <1>1, <1>2, <2>1
<1>5. CASE Histo!Advanced
  <2>1. p' = p + vl
    BY <1>5 DEF Histo!Advanced, Histo!Advance
  <2>. QED  BY <1>1, <1>2, <2>1
<1>6. CASE (Histo!CountElement \/ Histo!CountRegister) /\ pc' # "count"
  <2>1. p' = p /\ vl' = vl
    BY <1>6 DEF Histo!CountElement, Histo!CountRegister
  <2>. QED  BY <1>1, <1>6, <2>1, TakenNext
<1>7. CASE Histo!CountElement /\ pc' = "count"
  <2>1. /\ p' = p /\ tail' = tail + 1 /\ kernel' = kernel
        /\ pc = "count" /\ kernel = "slidedown"
    BY <1>7 DEF Histo!CountElement
  <2>. QED  BY <1>1, <1>7, <2>1, TakenIs, TakenNext
<1>8. CASE Histo!CountRegister /\ pc' = "count"
  <2>1. /\ p' = p /\ vl' = vl /\ tail' = tail + 1 /\ kernel' = kernel
        /\ pc = "count" /\ kernel \in Histo!DupVariants
    BY <1>8 DEF Histo!CountRegister
  <2>2. PICK a \in Nat, c \in Nat : a = r * Lanes /\ c = (r + 1) * Lanes /\ a =< c
    <3>1. r * Lanes \in Nat /\ (r + 1) * Lanes \in Nat /\ (r + 1) * Lanes = r * Lanes + Lanes
      OBVIOUS
    <3>. QED  BY <3>1
  <2>3. t = d + IF a < v THEN a ELSE v
    BY <1>1, <2>1, <2>2, TakenIs
  <2>4. Histo!Taken' = d + IF c < v THEN c ELSE v
    BY <1>1, <1>8, <2>1, <2>2, TakenNext
  <2>. QED  BY <1>1, <2>2, <2>3, <2>4
<1>. QED  BY <1>3, <1>4, <1>5, <1>6, <1>7, <1>8
          DEF Histo!Next, Histo!CountElement, Histo!CountRegister

LEMMA KernelStays == Next => kernel' = kernel
<1>. SUFFICES ASSUME Next PROVE kernel' = kernel
  OBVIOUS
<1>1. CASE function \in Strip!Functions /\ Strip!Next
  BY <1>1 DEF Strip!Next, Strip!call, Strip!vars, Strip!EnterLoop, Strip!EnterAlign,
     Strip!EnterVlmax, Strip!EnterTail, Strip!EnterTail4x, Strip!Enter4xTail,
     Strip!EnterSwar, Strip!Strip, Strip!Chunk, Strip!WholeRound, Strip!Tail,
     Strip!SwarHead, Strip!SwarWord, Strip!SwarTail, Strip!RandByte, Strip!RandWord,
     Strip!RandRest, Strip!ScalarByte, Strip!ScalarReturn, Strip!Terminating
<1>2. CASE Reverse!Next
  BY <1>2 DEF Reverse!Next, Reverse!wvars, Reverse!ScalarStep, Reverse!VsseStep,
     Reverse!VlseStep, Reverse!GatherStep, Reverse!GatherTail, Reverse!Terminating
<1>3. CASE Length!Next
  BY <1>3 DEF Length!Next, Length!lvars, Length!FaultOnlyFirst, Length!ScanBytes, Length!ByteStep,
     Length!EnterPage, Length!ScanPage, Length!ScanGroup, Length!MuslHead,
     Length!MuslWord, Length!MuslTail, Length!Terminating
<1>4. CASE Histo!Next
  BY <1>4 DEF Histo!Next, Histo!vars, Histo!EnterEmpty, Histo!NextChunk, Histo!Advanced,
       Histo!CountGroup, Histo!CountElement, Histo!CountRegister, Histo!LeaveLoop,
       Histo!Reduce, Histo!Terminating
<1>5. CASE Table!TablesNext
  BY <1>5 DEF Table!TablesNext, Table!bvars, Table!LookUp, Table!Swap, Table!Widen,
     Table!StoreZeros, Table!StoreBytes, Table!ScalarElement
<1>6. CASE Encode!EncodeNext
  BY <1>6 DEF Encode!EncodeNext, Encode!cvars, Encode!Enter, Encode!Chunk,
     Encode!ScalarStep, Encode!Return
<1>. QED  BY <1>1, <1>2, <1>3, <1>4, <1>5, <1>6 DEF Next

\* the histogram of what has been counted, in the terms of Histogram
LEMMA TallyIs ==
  ASSUME function = "hist", ChunkInv
  PROVE  \A k \in 0 .. Cardinality(DOMAIN grant), b \in 0 .. Last - 1 :
           Counters!Tally(k)[b] = Cardinality(Elements(0, k, b))
<1>. SUFFICES ASSUME NEW k \in 0 .. Cardinality(DOMAIN grant), NEW b \in 0 .. Last - 1
              PROVE  Counters!Tally(k)[b] = Cardinality(Elements(0, k, b))
  OBVIOUS
<1>1. \A i \in DOMAIN grant : Histo!BinOf[i] = Histo!Bin(i)
  BY DEF Histo!BinOf
<1>2. 0 .. k - 1 \in SUBSET DOMAIN grant
  <2>1. PICK m \in Nat : m = p + n /\ DOMAIN grant = 0 .. m - 1
    BY DEF ChunkInv
  <2>2. Cardinality(DOMAIN grant) = m
    <3>1. PICK e \in Int : e = m - 1
      BY <2>1
    <3>2. Cardinality(0 .. e) = IF 0 > e THEN 0 ELSE e - 0 + 1
      BY FS_Interval
    <3>. QED  BY <2>1, <3>1, <3>2
  <2>. QED  BY <2>1, <2>2
<1>3. { i \in 0 .. k - 1 : Histo!BinOf[i] = b } = Elements(0, k, b)
  BY <1>1, <1>2 DEF Elements
<1>4. Counters!Tally(k)[b] = Counters!Cardinality({ i \in 0 .. k - 1 : Histo!BinOf[i] = b })
  BY DEF Counters!Tally, Binned
<1>5. \A S : Counters!Cardinality(S) = Cardinality(S)
  BY DEF Counters!Cardinality, Cardinality
<1>. QED  BY <1>3, <1>4, <1>5

\* what another function makes of Histogram is nothing
LEMMA NoTally == function # "hist" => Counters!Tally(0) = [b \in 0 .. Last - 1 |-> 0]
<1>. SUFFICES ASSUME NEW b PROVE Counters!Cardinality({ i \in 0 .. 0 - 1 : None[i] = b }) = 0
  BY DEF Counters!Tally, Binned
<1>1. { i \in 0 .. 0 - 1 : None[i] = b } = {}
  OBVIOUS
<1>2. Counters!Cardinality({}) = Cardinality({})
  BY DEF Counters!Cardinality, Cardinality
<1>. QED  BY <1>1, <1>2, FS_EmptySet

\* a bin does not lose what it has come to
LEMMA CountGrows ==
  ASSUME function = "hist", function' = "hist", ChunkInv, Places, BinsInv, BinsInv', TakenInv, TakenInv',
         Histo!Next, kernel # "dup_m4"
  PROVE  \A b \in 0 .. Last - 1 :
           /\ Histo!Count(b) =< Histo!Count(b)'
           /\ Histo!Count(b)' =< Cardinality(Elements(0, Histo!Taken', b))
           /\ kernel # "no_conflict" =>
                Histo!Count(b)' = Cardinality(Elements(0, Histo!Taken', b))
<1>. SUFFICES ASSUME NEW b \in 0 .. Last - 1
              PROVE  /\ Histo!Count(b) =< Histo!Count(b)'
                     /\ Histo!Count(b)' =< Cardinality(Elements(0, Histo!Taken', b))
                     /\ kernel # "no_conflict" =>
                          Histo!Count(b)' = Cardinality(Elements(0, Histo!Taken', b))
  OBVIOUS
<1>. USE LanesAssumption, LastAssumption
<1>1. PICK k \in Nat, m \in Nat : k = Histo!Taken /\ m = Histo!Taken' /\ k =< m
  <2>1. Histo!Taken \in Nat /\ Histo!Taken' \in Nat
    BY DEF TakenInv
  <2>. QED  BY <2>1, TakenGrows
<1>2. kernel' = kernel /\ grant' = grant
  BY DEF Histo!Next, Histo!vars, Histo!EnterEmpty, Histo!NextChunk, Histo!Advanced,
     Histo!CountGroup, Histo!CountElement, Histo!CountRegister, Histo!LeaveLoop,
     Histo!Reduce, Histo!Terminating
<1>3. \A j : Cardinality(Elements(0, j, b))' = Cardinality(Elements(0, j, b))
  BY <1>2, SameElements
<1>4. PICK c \in Nat, e \in Nat :
        c = Cardinality(Elements(0, k, b)) /\ c + e = Cardinality(Elements(0, m, b))
  <2>1. Cardinality(Elements(0, k, b)) \in Nat /\ Cardinality(Elements(k, m, b)) \in Nat
    BY <1>1, ElementsFinite
  <2>. QED  BY <1>1, <2>1, ElementsAdd
<1>5. CASE kernel # "no_conflict"
  <2>1. Exactly(k) /\ Exactly(m)'
    BY <1>1, <1>2, <1>5 DEF BinsInv
  <2>2. Histo!Count(b) = c /\ Histo!Count(b)' = c + e
    BY <1>3, <1>4, <2>1 DEF Exactly
  <2>. QED  BY <1>1, <1>4, <2>2
<1>6. CASE kernel = "no_conflict"
  <2>1. kernel \notin Histo!DupVariants /\ kernel # "slidedown"
    BY <1>6 DEF Histo!DupVariants
  <2>2. Histo!Count(b) = touched[b] /\ Histo!Count(b)' = touched'[b]
    BY <1>2, <2>1 DEF Histo!Count
  <2>3. b \in Histo!Cells /\ touched[b] \in Nat
    BY CellFacts DEF Places
  <2>4. touched' = touched \/ touched' = Histo!Incremented(0 .. vl - 1)
    BY <2>1 DEF Histo!Next, Histo!vars, Histo!EnterEmpty, Histo!NextChunk, Histo!Advanced,
       Histo!CountGroup, Histo!CountElement, Histo!CountRegister, Histo!LeaveLoop,
       Histo!Reduce, Histo!Terminating, Places
  <2>5. touched[b] =< touched'[b]
    BY <2>3, <2>4, IncrementedNat DEF Places
  <2>6. LostOnly(m)'
    BY <1>1, <1>2, <1>6 DEF BinsInv
  <2>7. touched'[b] =< Cardinality(Elements(0, m, b))
    BY <1>3, <2>6 DEF LostOnly
  <2>. QED  BY <1>1, <1>6, <2>2, <2>5, <2>7
<1>. QED  BY <1>5, <1>6

(***************************************************************************)
(* The kernels of hist implement Histogram, for registers of every size,   *)
(* every number of bins and elements and every answer of vsetvli: the bins *)
(* are at every moment, in the middle of a chunk and of the final loop     *)
(* too, what the elements make of them that are counted.  (dup_m4, whose   *)
(* mask is wrong, does not; that calls return is left to TLC.)             *)
(***************************************************************************)
THEOREM KeepsHistogram == "dup_m4" \notin Variants /\ Spec => Counters!SafeSpec
<1>. SUFFICES ASSUME "dup_m4" \notin Variants PROVE Spec => Counters!SafeSpec
  OBVIOUS
<1>1. Init => Counters!Init
  <2>. SUFFICES ASSUME Init PROVE Counters!Init
    OBVIOUS
  <2>1. pc # "done"
    BY DEF Init, Start, Strip!Init, Musl!MemsetInit, Musl!MemcpyInit, Reverse!Init,
       Length!Init, Number!Init, Histo!Init, Table!TablesInit, Encode!EncodeInit
  <2>2. CASE function # "hist"
    BY <2>1, <2>2, NoTally DEF Counters!Init, Binned
  <2>3. CASE function = "hist"
    <3>1. ChunkInv /\ Places /\ BinsInv /\ TakenInv
      BY <2>3, CountInit, TakenAlways DEF CountInv
    <3>2. Histo!Init
      BY <2>3 DEF Init, Start, Strip!Functions, Number!Functions, Table!Functions
    <3>3. Histo!Taken = 0
      BY <3>2, TakenIs DEF Histo!Init
    <3>4. kernel # "dup_m4"
      BY <3>1 DEF ChunkInv
    <3>5. ASSUME NEW b \in 0 .. Last - 1
          PROVE  Histo!Count(b) = Cardinality(Elements(0, 0, b))
      <4>1. CASE kernel # "no_conflict"
        BY <3>1, <3>3, <3>4, <4>1 DEF BinsInv, Exactly
      <4>2. CASE kernel = "no_conflict"
        <5>1. Histo!Count(b) = touched[b] /\ touched[b] \in Nat
          BY <3>1, <4>2, CellFacts, LastAssumption DEF Histo!Count, Histo!DupVariants, Places
        <5>2. touched[b] =< Cardinality(Elements(0, 0, b))
          BY <3>1, <3>3, <4>2 DEF BinsInv, LostOnly
        <5>3. Cardinality(Elements(0, 0, b)) \in 0 .. 0 - 0
          BY ElementsFinite
        <5>. QED  BY <5>1, <5>2, <5>3
      <4>. QED  BY <4>1, <4>2
    <3>6. 0 \in 0 .. Cardinality(DOMAIN grant)
      BY <2>3, <3>1 DEF TakenInv
    <3>7. \A b \in 0 .. Last - 1 : Counters!Tally(0)[b] = Cardinality(Elements(0, 0, b))
      BY <2>3, <3>1, <3>6, TallyIs
    <3>8. Histo!Counts = Counters!Tally(0)
      BY <3>5, <3>7 DEF Histo!Counts, Counters!Tally
    <3>. QED  BY <2>1, <2>3, <3>3, <3>8 DEF Counters!Init, Binned
  <2>. QED  BY <2>2, <2>3
<1>2. CountInv /\ CountInv' /\ TakenInv /\ TakenInv' /\ [Next]_vars
        => [Counters!Take]_(Counters!vars)
  <2>. SUFFICES ASSUME CountInv, CountInv', TakenInv, TakenInv', [Next]_vars
                PROVE  [Counters!Take]_(Counters!vars)
    OBVIOUS
  <2>1. CASE UNCHANGED vars
    <3>1. UNCHANGED << Histo!BinOf, Histo!Taken, Histo!Counts >>
      BY <2>1 DEF vars, Histo!BinOf, Histo!Bin, Histo!Taken, Histo!Counts, Histo!Count
    <3>. QED  BY <2>1, <3>1 DEF vars, Counters!vars, Binned
  <2>2. CASE Next /\ function # "hist"
    <3>1. ~ Binned /\ ~ Binned'
      BY <2>2, OneRuns DEF Binned
    <3>2. pc = "done" => pc' = "done"
      BY <2>2, DoneStays
    <3>3. kernel' = kernel
      BY <2>2, KernelStays
    <3>4. Counters!Cardinality(DOMAIN None) = 0
      <4>1. DOMAIN None = {}
        BY DEF None
      <4>2. Counters!Cardinality({}) = Cardinality({})
        BY DEF Counters!Cardinality, Cardinality
      <4>. QED  BY <4>1, <4>2, FS_EmptySet
    <3>5. Counters!Tally(0) = [b \in 0 .. Last - 1 |-> 0]
      BY <2>2, NoTally
    <3>. DEFINE zeros == [b \in 0 .. Last - 1 |-> 0]
    <3>6. /\ DOMAIN zeros = 0 .. Last - 1
          /\ \A b \in 0 .. Last - 1 : zeros[b] =< zeros[b] /\ 0 \in 0 .. 0
      OBVIOUS
    <3>7. /\ (IF Binned THEN Histo!Taken ELSE 0) = 0
          /\ (IF Binned THEN Histo!Taken ELSE 0)' = 0
          /\ (IF Binned THEN Histo!BinOf ELSE None) = None
          /\ (IF Binned THEN Histo!BinOf ELSE None)' = None
          /\ (IF Binned THEN Histo!Counts ELSE zeros) = zeros
          /\ (IF Binned THEN Histo!Counts ELSE zeros)' = zeros
      BY <3>1 DEF None
    <3>8. CASE pc = "done"
      BY <3>2, <3>3, <3>7, <3>8 DEF Counters!vars
    <3>9. CASE pc # "done"
      <4>1. 0 \in 0 .. Counters!Cardinality(DOMAIN None)
        BY <3>4
      <4>2. (pc' = "done") \in { FALSE, 0 = Counters!Cardinality(DOMAIN None) }
        BY <3>4
      <4>3. \A b \in 0 .. Last - 1 :
              zeros[b] =< zeros[b] /\ zeros[b] =< Counters!Tally(0)[b]
        <5>1. Counters!Tally(0) = zeros
          BY <3>5
        <5>. HIDE DEF zeros
        <5>. QED  BY <3>6, <5>1
      <4>4. zeros = Counters!Tally(0)
        BY <3>5
      <4>. HIDE DEF zeros
      <4>5. Counters!Take
        BY <3>3, <3>6, <3>7, <3>9, <4>1, <4>2, <4>3, <4>4 DEF Counters!Take, zeros
      <4>. QED  BY <4>5
    <3>. QED  BY <3>8, <3>9
  <2>3. CASE Next /\ function = "hist"
    <3>1. /\ function' = "hist" /\ Histo!Next /\ ChunkInv /\ Places /\ BinsInv /\ BinsInv'
          /\ Binned /\ Binned'
      BY <2>3, OneRuns DEF CountInv, Strip!Functions, Number!Functions, Table!Functions, Binned
    <3>2. CASE pc = "done"
      <4>1. Histo!Terminating
        BY <3>1, <3>2 DEF Histo!Next, Histo!EnterEmpty, Histo!NextChunk, Histo!Advanced,
           Histo!CountGroup, Histo!CountElement, Histo!CountRegister, Histo!LeaveLoop,
           Histo!Reduce
      <4>2. UNCHANGED << Histo!BinOf, Histo!Taken, Histo!Counts >>
        BY <4>1 DEF Histo!Terminating, Histo!vars, Histo!BinOf, Histo!Bin, Histo!Taken,
           Histo!Counts, Histo!Count
      <4>. QED  BY <3>1, <4>1, <4>2 DEF Histo!Terminating, Histo!vars, Counters!vars
    <3>3. CASE pc # "done"
      <4>1. kernel' = kernel /\ grant' = grant
        BY <3>1 DEF Histo!Next, Histo!vars, Histo!EnterEmpty, Histo!NextChunk, Histo!Advanced,
           Histo!CountGroup, Histo!CountElement, Histo!CountRegister, Histo!LeaveLoop,
           Histo!Reduce, Histo!Terminating
      <4>2. Histo!BinOf' = Histo!BinOf
        BY <4>1 DEF Histo!BinOf, Histo!Bin
      <4>3. kernel # "dup_m4"
        BY <3>1 DEF ChunkInv
      <4>4. Histo!Taken =< Histo!Taken'
        BY <2>3, <3>1, TakenGrows
      <4>5. DOMAIN Histo!BinOf = DOMAIN grant
        BY DEF Histo!BinOf
      <4>6. Counters!Cardinality(DOMAIN grant) = Cardinality(DOMAIN grant)
        BY DEF Counters!Cardinality, Cardinality
      <4>7. /\ Cardinality(DOMAIN grant) \in Nat /\ Histo!Taken \in Nat
            /\ Histo!Taken' \in 0 .. Cardinality(DOMAIN grant)
            /\ pc' = "done" => Histo!Taken' = Cardinality(DOMAIN grant)
        BY <2>3, <3>1, <4>1 DEF TakenInv
      <4>8. ASSUME NEW b \in 0 .. Last - 1
            PROVE  /\ Histo!Count(b) =< Histo!Count(b)'
                   /\ Histo!Count(b)' =< Counters!Tally(Histo!Taken')[b]
                   /\ kernel # "no_conflict" =>
                        Histo!Count(b)' = Counters!Tally(Histo!Taken')[b]
        <5>1. Counters!Tally(Histo!Taken')[b] = Cardinality(Elements(0, Histo!Taken', b))
          BY <2>3, <3>1, <4>7, TallyIs
        <5>. QED  BY <2>3, <3>1, <4>3, <5>1, CountGrows
      <4>9. Histo!Counts = [b \in 0 .. Last - 1 |-> Histo!Count(b)]
        BY DEF Histo!Counts
      <4>10. Histo!Counts' = [b \in 0 .. Last - 1 |-> Histo!Count(b)']
        BY DEF Histo!Counts
      <4>11. kernel # "no_conflict" => Histo!Counts' = Counters!Tally(Histo!Taken')
        BY <4>8, <4>10 DEF Counters!Tally
      <4>12. Histo!Taken' \in Histo!Taken .. Cardinality(DOMAIN grant)
        BY <4>4, <4>7
      <4>13. (pc' = "done") \in { FALSE, Histo!Taken' = Cardinality(DOMAIN grant) }
        BY <4>7
      <4>. QED  BY <3>1, <3>3, <4>1, <4>2, <4>5, <4>6, <4>8, <4>9, <4>10, <4>11, <4>12, <4>13
                DEF Counters!Take
    <3>. QED  BY <3>2, <3>3
  <2>. QED  BY <2>1, <2>2, <2>3
<1>. QED  BY <1>1, <1>2, CountAlways, TakenAlways, PTL DEF Spec, Counters!SafeSpec


-----------------------------------------------------------------------------
(* usqrt, uxtoa and ftoa: digits and powers of ten.                        *)

\* a number that is made in m steps of the one before
LEMMA StepwiseExists ==
  ASSUME NEW m \in Nat, NEW v \in Int, NEW e \in [1 .. m -> [Int -> Int]]
  PROVE  \E f \in [0 .. m -> Int] : f[0] = v /\ \A i \in 1 .. m : f[i] = e[i][f[i - 1]]
<1>. DEFINE Fixed(f, k) == /\ f \in [0 .. k -> Int] /\ f[0] = v
                           /\ \A i \in 1 .. k : f[i] = e[i][f[i - 1]]
            Good == { k \in 0 .. m : \E f : Fixed(f, k) }
<1>1. Fixed([i \in 0 .. 0 |-> v], 0)
  OBVIOUS
<1>2. ASSUME NEW k \in 0 .. m - 1, NEW f, Fixed(f, k) PROVE \E g : Fixed(g, k + 1)
  <2>. DEFINE w == e[k + 1][f[k]]
              g == [i \in 0 .. k + 1 |-> IF i =< k THEN f[i] ELSE w]
  <2>1. f[k] \in Int /\ k + 1 \in 1 .. m
    BY <1>2
  <2>2. w \in Int
    <3>1. e[k + 1] \in [Int -> Int]
      BY <2>1
    <3>. QED  BY <2>1, <3>1
  <2>3. g \in [0 .. k + 1 -> Int] /\ g[k + 1] = w /\ \A i \in 0 .. k : g[i] = f[i]
    <3>1. f \in [0 .. k -> Int]
      BY <1>2
    <3>. HIDE DEF w, Fixed
    <3>2. \A i \in 0 .. k + 1 : (IF i =< k THEN f[i] ELSE w) \in Int
      BY <2>2, <3>1
    <3>3. g \in [0 .. k + 1 -> Int]
      BY <3>2, Zenon
    <3>4. /\ k + 1 \in 0 .. k + 1 /\ ~(k + 1 =< k)
          /\ \A i \in 0 .. k : i \in 0 .. k + 1 /\ i =< k
      OBVIOUS
    <3>5. g[k + 1] = w
      BY <3>4, Zenon
    <3>6. \A i \in 0 .. k : g[i] = f[i]
      BY <3>4, Zenon
    <3>. QED  BY <3>3, <3>5, <3>6
  <2>. HIDE DEF g
  <2>4. ASSUME NEW i \in 1 .. k + 1 PROVE g[i] = e[i][g[i - 1]]
    <3>1. CASE i = k + 1
      <4>1. i - 1 = k /\ k \in 0 .. k
        BY <3>1
      <4>. QED  BY <2>3, <3>1, <4>1
    <3>2. CASE i # k + 1
      <4>1. i \in 1 .. k /\ i \in 0 .. k /\ i - 1 \in 0 .. k
        BY <3>2
      <4>. QED  BY <1>2, <2>3, <4>1
    <3>. QED  BY <3>1, <3>2
  <2>5. g[0] = v
    BY <1>2, <2>3
  <2>. QED  BY <2>3, <2>4, <2>5
<1>3. \A k \in Good : \E f : Fixed(f, k)
  OBVIOUS
<1>. HIDE DEF Fixed
<1>4. 0 \in Good /\ \A k \in 0 .. m - 1 : k \in Good => k + 1 \in Good
  BY <1>1, <1>2
<1>. HIDE DEF Good
<1>5. PICK f : Fixed(f, m)
  <2>1. \A k \in 0 .. m : k \in Good
    BY <1>4, Induction
  <2>2. m \in 0 .. m
    OBVIOUS
  <2>. QED  BY <1>3, <2>1, <2>2
<1>. QED  BY <1>5 DEF Fixed

\* the number that starts with v and goes on with the digits of s
UpFrom(v, s) ==
  CHOOSE u : u = [i \in 0 .. Len(s) |-> IF i = 0 THEN v ELSE 10 * u[i - 1] + s[i]]

Up(v, s) == UpFrom(v, s)[Len(s)]

Digits == 0 .. 9

LEMMA UpExists ==
  ASSUME NEW v \in Nat, NEW s \in Seq(Digits)
  PROVE  /\ UpFrom(v, s) \in [0 .. Len(s) -> Nat] /\ UpFrom(v, s)[0] = v
         /\ \A i \in 1 .. Len(s) : UpFrom(v, s)[i] = 10 * UpFrom(v, s)[i - 1] + s[i]
<1>. DEFINE e == [i \in 1 .. Len(s) |-> [y \in Int |-> 10 * y + s[i]]]
<1>1. Len(s) \in Nat /\ \A i \in 1 .. Len(s) : s[i] \in Int
  BY DEF Digits
<1>2. /\ e \in [1 .. Len(s) -> [Int -> Int]]
      /\ \A i \in 1 .. Len(s), y \in Int : e[i][y] = 10 * y + s[i]
  <2>1. \A i \in 1 .. Len(s) : \A y \in Int : 10 * y + s[i] \in Int
    BY <1>1
  <2>2. \A i \in 1 .. Len(s) : e[i] = [y \in Int |-> 10 * y + s[i]]
    BY Zenon
  <2>3. ASSUME NEW i \in 1 .. Len(s)
        PROVE  e[i] \in [Int -> Int] /\ \A y \in Int : e[i][y] = 10 * y + s[i]
    BY <2>1, <2>2, Zenon
  <2>4. e = [i \in 1 .. Len(s) |-> e[i]]
    OBVIOUS
  <2>. QED  BY <2>3, <2>4, Zenon
<1>3. v \in Int
  OBVIOUS
<1>. HIDE DEF e
<1>4. PICK f \in [0 .. Len(s) -> Int] :
        f[0] = v /\ \A i \in 1 .. Len(s) : f[i] = e[i][f[i - 1]]
  BY <1>1, <1>2, <1>3, StepwiseExists
<1>5. f[0] = v /\ \A i \in 1 .. Len(s) : f[i] = 10 * f[i - 1] + s[i]
  <2>1. \A i \in 1 .. Len(s) : i - 1 \in 0 .. Len(s)
    BY <1>1
  <2>. QED  BY <1>2, <1>4, <2>1
<1>6. f = [i \in 0 .. Len(s) |-> IF i = 0 THEN v ELSE 10 * f[i - 1] + s[i]]
  <2>1. \A i \in 0 .. Len(s) : f[i] = IF i = 0 THEN v ELSE 10 * f[i - 1] + s[i]
    BY <1>1, <1>5
  <2>. QED  BY <2>1
<1>7. UpFrom(v, s) = [i \in 0 .. Len(s) |-> IF i = 0 THEN v ELSE 10 * UpFrom(v, s)[i - 1] + s[i]]
  BY <1>6 DEF UpFrom
<1>. DEFINE u == UpFrom(v, s)
<1>. HIDE DEF u
<1>8. u = [i \in 0 .. Len(s) |-> IF i = 0 THEN v ELSE 10 * u[i - 1] + s[i]]
  BY <1>7 DEF u
<1>9. u[0] = v /\ \A i \in 1 .. Len(s) : u[i] = 10 * u[i - 1] + s[i]
  <2>1. u[0] = v
    BY <1>1, <1>8
  <2>2. ASSUME NEW i \in 1 .. Len(s) PROVE u[i] = 10 * u[i - 1] + s[i]
    <3>1. i \in 0 .. Len(s) /\ i # 0
      BY <1>1
    <3>. QED  BY <1>8, <3>1
  <2>. QED  BY <2>1, <2>2
<1>. DEFINE Good == { i \in 0 .. Len(s) : u[i] \in Nat }
<1>10. 0 \in Good /\ \A k \in 0 .. Len(s) - 1 : k \in Good => k + 1 \in Good
  <2>1. ASSUME NEW k \in 0 .. Len(s) - 1, u[k] \in Nat PROVE u[k + 1] \in Nat
    <3>1. k + 1 \in 1 .. Len(s) /\ (k + 1) - 1 = k /\ s[k + 1] \in Nat
      BY <1>1 DEF Digits
    <3>. QED  BY <1>9, <2>1, <3>1
  <2>. QED  BY <1>1, <1>9, <2>1
<1>11. \A i \in 0 .. Len(s) : u[i] \in Nat
  <2>1. \A i \in Good : u[i] \in Nat
    OBVIOUS
  <2>. HIDE DEF Good
  <2>. QED  BY <1>1, <1>10, <2>1, Induction
<1>12. u \in [0 .. Len(s) -> Nat]
  BY <1>8, <1>11
<1>. QED  BY <1>9, <1>12 DEF u

LEMMA NumberIsUp == \A s : Number!Number(s) = Up(0, s)
BY DEF Number!Number, Up, UpFrom

LEMMA UpNat == ASSUME NEW v \in Nat, NEW s \in Seq(Digits) PROVE Up(v, s) \in Nat
<1>1. Len(s) \in 0 .. Len(s)
  OBVIOUS
<1>. QED  BY <1>1, UpExists DEF Up

\* a digit in front counts to the number that comes before it
LEMMA UpCons ==
  ASSUME NEW v \in Nat, NEW d \in Digits, NEW s \in Seq(Digits)
  PROVE  << d >> \o s \in Seq(Digits) /\ Up(v, << d >> \o s) = Up(10 * v + d, s)
<1>. DEFINE t == << d >> \o s
            w == 10 * v + d
            a == UpFrom(v, t)
            b == UpFrom(w, s)
            Good == { i \in 0 .. Len(s) : a[i + 1] = b[i] }
<1>1. /\ t \in Seq(Digits) /\ Len(t) = Len(s) + 1 /\ Len(s) \in Nat /\ t[1] = d
      /\ \A i \in 1 .. Len(s) : t[i + 1] = s[i]
  OBVIOUS
<1>2. w \in Nat
  BY DEF Digits
<1>3. a[0] = v /\ \A i \in 1 .. Len(t) : a[i] = 10 * a[i - 1] + t[i]
  BY <1>1, UpExists
<1>4. b[0] = w /\ \A i \in 1 .. Len(s) : b[i] = 10 * b[i - 1] + s[i]
  <2>. HIDE DEF w
  <2>. QED  BY <1>2, UpExists
<1>5. Up(v, t) = a[Len(t)] /\ Up(w, s) = b[Len(s)]
  BY DEF Up
<1>6. a[1] = w
  <2>1. 1 \in 1 .. Len(t) /\ 1 - 1 = 0
    BY <1>1
  <2>. HIDE DEF a, t
  <2>. QED  BY <1>1, <1>3, <2>1
<1>. HIDE DEF a, b, t, w
<1>7. ASSUME NEW k \in 0 .. Len(s) - 1, a[k + 1] = b[k] PROVE a[(k + 1) + 1] = b[k + 1]
  <2>1. /\ k + 1 \in 1 .. Len(s) /\ (k + 1) - 1 = k
        /\ (k + 1) + 1 \in 1 .. Len(t) /\ ((k + 1) + 1) - 1 = k + 1
    BY <1>1
  <2>2. b[k + 1] = 10 * b[k] + s[k + 1] /\ a[(k + 1) + 1] = 10 * a[k + 1] + t[(k + 1) + 1]
    BY <1>3, <1>4, <2>1
  <2>. QED  BY <1>1, <1>7, <2>1, <2>2
<1>8. 0 \in Good /\ \A k \in 0 .. Len(s) - 1 : k \in Good => k + 1 \in Good
  BY <1>1, <1>4, <1>6, <1>7
<1>9. \A i \in Good : a[i + 1] = b[i]
  OBVIOUS
<1>. HIDE DEF Good
<1>10. \A i \in 0 .. Len(s) : a[i + 1] = b[i]
  BY <1>1, <1>8, <1>9, Induction
<1>11. Up(v, t) = Up(w, s)
  BY <1>1, <1>5, <1>10
<1>. QED  BY <1>1, <1>11 DEF t, w

LEMMA PowerFacts ==
  /\ Number!pow10[0] = 1
  /\ \A k \in 0 .. UXTOA_MAX : Number!pow10[k] \in Nat \ {0}
  /\ \A k \in 1 .. UXTOA_MAX : Number!pow10[k] = 10 * Number!pow10[k - 1]
<1>. DEFINE e == [i \in 1 .. UXTOA_MAX |-> [y \in Int |-> 10 * y]]
            u == Number!pow10
            Good == { i \in 0 .. UXTOA_MAX : u[i] \in Nat \ {0} }
<1>1. UXTOA_MAX \in Nat /\ 1 \in Int
  BY NumbersAssumption
<1>2. /\ e \in [1 .. UXTOA_MAX -> [Int -> Int]]
      /\ \A i \in 1 .. UXTOA_MAX, y \in Int : e[i][y] = 10 * y
  OBVIOUS
<1>. HIDE DEF e
<1>3. PICK f \in [0 .. UXTOA_MAX -> Int] :
        f[0] = 1 /\ \A i \in 1 .. UXTOA_MAX : f[i] = e[i][f[i - 1]]
  BY <1>1, <1>2, StepwiseExists
<1>4. \A i \in 1 .. UXTOA_MAX : f[i] = 10 * f[i - 1]
  <2>1. \A i \in 1 .. UXTOA_MAX : i - 1 \in 0 .. UXTOA_MAX
    BY <1>1
  <2>. QED  BY <1>2, <1>3, <2>1
<1>5. f = [i \in 0 .. UXTOA_MAX |-> IF i = 0 THEN 1 ELSE 10 * f[i - 1]]
  <2>1. \A i \in 0 .. UXTOA_MAX : f[i] = IF i = 0 THEN 1 ELSE 10 * f[i - 1]
    BY <1>1, <1>3, <1>4
  <2>. QED  BY <2>1
<1>6. Number!pow10 = [i \in 0 .. UXTOA_MAX |-> IF i = 0 THEN 1 ELSE 10 * Number!pow10[i - 1]]
  BY <1>5 DEF Number!pow10
<1>. HIDE DEF u
<1>7. u = [i \in 0 .. UXTOA_MAX |-> IF i = 0 THEN 1 ELSE 10 * u[i - 1]]
  BY <1>6 DEF u
<1>8. u[0] = 1 /\ \A i \in 1 .. UXTOA_MAX : u[i] = 10 * u[i - 1]
  <2>1. 0 \in 0 .. UXTOA_MAX /\ \A i \in 1 .. UXTOA_MAX : i \in 0 .. UXTOA_MAX /\ i # 0
    BY <1>1
  <2>2. u[0] = 1
    BY <1>7, <2>1
  <2>. QED  BY <1>7, <2>1, <2>2
<1>9. 0 \in Good /\ \A k \in 0 .. UXTOA_MAX - 1 : k \in Good => k + 1 \in Good
  <2>1. ASSUME NEW k \in 0 .. UXTOA_MAX - 1, u[k] \in Nat \ {0} PROVE u[k + 1] \in Nat \ {0}
    <3>1. k + 1 \in 1 .. UXTOA_MAX /\ (k + 1) - 1 = k
      BY <1>1
    <3>. QED  BY <1>8, <2>1, <3>1
  <2>. QED  BY <1>1, <1>8, <2>1
<1>10. \A i \in Good : u[i] \in Nat \ {0}
  OBVIOUS
<1>. HIDE DEF Good
<1>11. \A i \in 0 .. UXTOA_MAX : u[i] \in Nat \ {0}
  BY <1>1, <1>9, <1>10, Induction
<1>. QED  BY <1>8, <1>11 DEF u

LEMMA PowersGrow == \A k \in 0 .. UXTOA_MAX : \A j \in 0 .. k : Number!pow10[j] =< Number!pow10[k]
<1>. DEFINE u == Number!pow10
            Good == { k \in 0 .. UXTOA_MAX : \A j \in 0 .. k : u[j] =< u[k] }
<1>1. /\ UXTOA_MAX \in Nat /\ \A k \in 0 .. UXTOA_MAX : u[k] \in Nat \ {0}
      /\ \A k \in 1 .. UXTOA_MAX : u[k] = 10 * u[k - 1]
  BY NumbersAssumption, PowerFacts
<1>. HIDE DEF u
<1>2. ASSUME NEW k \in 0 .. UXTOA_MAX - 1, \A j \in 0 .. k : u[j] =< u[k], NEW j \in 0 .. k + 1
      PROVE  u[j] =< u[k + 1]
  <2>1. /\ k + 1 \in 1 .. UXTOA_MAX /\ (k + 1) - 1 = k /\ k \in 0 .. UXTOA_MAX
        /\ j \in 0 .. UXTOA_MAX
    BY <1>1
  <2>2. PICK a \in Nat, b \in Nat : a = u[j] /\ b = u[k]
    BY <1>1, <2>1
  <2>3. u[k + 1] = 10 * b
    BY <1>1, <2>1, <2>2
  <2>4. CASE j = k + 1
    BY <2>2, <2>3, <2>4
  <2>5. CASE j # k + 1
    <3>1. j \in 0 .. k
      BY <2>5
    <3>2. a =< b
      BY <1>2, <2>2, <3>1
    <3>. QED  BY <2>2, <2>3, <3>2
  <2>. QED  BY <2>4, <2>5
<1>3. 0 \in Good
  <2>1. \A j \in 0 .. 0 : u[j] =< u[0]
    <3>1. u[0] \in Nat
      BY <1>1
    <3>2. \A j \in 0 .. 0 : j = 0
      OBVIOUS
    <3>. QED  BY <3>1, <3>2
  <2>. QED  BY <1>1, <2>1
<1>4. \A k \in 0 .. UXTOA_MAX - 1 : k \in Good => k + 1 \in Good
  BY <1>1, <1>2
<1>5. \A k \in Good : \A j \in 0 .. k : u[j] =< u[k]
  OBVIOUS
<1>. HIDE DEF Good
<1>. QED  BY <1>1, <1>3, <1>4, <1>5, Induction DEF u

-----------------------------------------------------------------------------
(* The functions on numbers.                                               *)

\* below the modulus numbers are what they are
LEMMA Fitting == \A x \in Nat : x < Modulus => Number!ToWidth(x) = x
BY SquareAssumption DEF Number!ToWidth

(***************************************************************************)
(* usqrt: the root is between p and n, and n is len + 1 at first, or half. *)
(***************************************************************************)
UsqrtInv ==
  /\ len \in 0 .. MaxSquare /\ pc \in { "search", "done" }
  /\ p \in Nat /\ n \in Nat /\ p < n
  /\ p * p =< len /\ len < n * n
  /\ (n = len + 1 /\ p =< 2) \/ n =< len \div 2 + 2
  /\ pc = "done" => n = p + 1
  /\ touched = << >> /\ vl = 0 /\ tail = 0

\* squares and sums do not wrap
LEMMA SquaresFit ==
  ASSUME NEW x \in 0 .. MaxSquare
  PROVE  /\ x + 3 < Modulus
         /\ \A m \in 0 .. x \div 2 + 2 : m * m \in Nat /\ m * m < Modulus
<1>. DEFINE h == MaxSquare \div 2 + 2
            q == x \div 2 + 2
<1>1. /\ h \in Nat /\ q \in Nat /\ h >= 2 /\ q =< h /\ x + 3 =< 2 * h
      /\ Modulus \in Nat /\ h * h < Modulus
  BY SquareAssumption
<1>. HIDE DEF h, q
<1>2. h * h >= 2 * h /\ 2 * h \in Nat
  BY <1>1
<1>3. ASSUME NEW m \in 0 .. q PROVE m * m \in Nat /\ m * m < Modulus
  <2>1. m * m \in Nat /\ m * m =< h * h
    <3>1. PICK a \in Nat : a = m
      OBVIOUS
    <3>2. a =< h
      BY <1>1, <3>1
    <3>3. a * a =< a * h /\ a * h =< h * h /\ a * a \in Nat /\ a * h \in Nat /\ h * h \in Nat
      BY <1>1, <3>2
    <3>. QED  BY <3>1, <3>3
  <2>. QED  BY <1>1, <2>1
<1>. QED  BY <1>1, <1>2, <1>3 DEF q

LEMMA UsqrtStart == Number!Init /\ function = "usqrt" => UsqrtInv
<1>. SUFFICES ASSUME Number!Init, function = "usqrt" PROVE UsqrtInv
  OBVIOUS
<1>1. /\ len \in 0 .. MaxSquare /\ pc = "search" /\ p = 0 /\ n = Number!ToWidth(len + 1)
      /\ touched = << >> /\ vl = 0 /\ tail = 0
  BY DEF Number!Init
<1>2. n = len + 1
  <2>1. len + 3 < Modulus /\ Modulus \in Nat /\ len + 1 \in Nat
    BY <1>1, SquaresFit, SquareAssumption
  <2>2. len + 1 < Modulus
    BY <1>1, <2>1, SquareAssumption
  <2>3. Number!ToWidth(len + 1) = len + 1
    BY <2>1, <2>2, Fitting
  <2>. QED  BY <1>1, <2>3
<1>3. len \in Nat /\ len < (len + 1) * (len + 1)
  <2>1. \A a \in Nat : (a + 1) * (a + 1) = a * a + 2 * a + 1 /\ a * a \in Nat
    OBVIOUS
  <2>2. len \in Nat
    BY <1>1, SquareAssumption
  <2>. QED  BY <2>1, <2>2
<1>. QED  BY <1>1, <1>2, <1>3 DEF UsqrtInv

LEMMA UsqrtStep == UsqrtInv /\ function = "usqrt" /\ Number!Next => UsqrtInv'
<1>. SUFFICES ASSUME UsqrtInv, function = "usqrt", Number!Next PROVE UsqrtInv'
  OBVIOUS
<1>1. /\ len \in Nat /\ p \in Nat /\ n \in Nat /\ p < n /\ n - 1 \in Nat /\ len \in 0 .. MaxSquare
      /\ p * p =< len /\ len < n * n
      /\ (n = len + 1 /\ p =< 2) \/ n =< len \div 2 + 2
  BY SquareAssumption DEF UsqrtInv
<1>2. p + n =< len + 3 /\ p + n < Modulus /\ n - 1 < Modulus
  BY <1>1, SquaresFit, SquareAssumption
<1>3. Number!ToWidth(n - 1) = n - 1 /\ Number!Middle = (p + n) \div 2
  BY <1>1, <1>2, Fitting DEF Number!Middle
<1>4. CASE Number!Halve
  <2>. DEFINE m == (p + n) \div 2
  <2>1. /\ m \in Nat /\ p < m /\ m < n /\ m =< len \div 2 + 2 /\ 2 * m =< p + n /\ p + n =< 2 * m + 1
    BY <1>1, <1>2, <1>3, <1>4 DEF Number!Halve
  <2>2. Number!AtMostRoot <=> m * m =< len
    BY <1>1, <1>3, <2>1, SquaresFit, Fitting DEF Number!AtMostRoot
  <2>3. /\ len' = len /\ pc' = pc /\ pc # "done" /\ touched' = touched /\ vl' = vl /\ tail' = tail
        /\ IF m * m =< len THEN p' = m /\ n' = n ELSE n' = m /\ p' = p
    BY <1>3, <1>4, <2>2 DEF Number!Halve
  <2>. HIDE DEF m
  <2>4. CASE m * m =< len
    <3>1. n = len + 1 => m =< 2
      <4>1. SUFFICES ASSUME n = len + 1, m >= 3 PROVE FALSE
        BY <2>1
      <4>2. m * m >= 3 * m /\ m * m \in Nat
        BY <2>1, <4>1
      <4>. QED  BY <1>1, <2>1, <2>4, <4>1, <4>2
    <3>. QED  BY <1>1, <2>1, <2>3, <2>4, <3>1 DEF UsqrtInv
  <2>5. CASE ~(m * m =< len)
    <3>1. len < m * m
      BY <1>1, <2>1, <2>5
    <3>. QED  BY <1>1, <2>1, <2>3, <2>5, <3>1 DEF UsqrtInv
  <2>. QED  BY <2>4, <2>5
<1>5. CASE Number!Return
  BY <1>1, <1>3, <1>5 DEF Number!Return, UsqrtInv
<1>6. CASE Number!Decimal \/ Number!Digit
  BY <1>6 DEF Number!Decimal, Number!Digit, UsqrtInv
<1>7. CASE Number!Terminating
  BY <1>7 DEF Number!Terminating, Number!qvars, UsqrtInv
<1>. QED  BY <1>4, <1>5, <1>6, <1>7 DEF Number!Next

(***************************************************************************)
(* uxtoa and ftoa: the digits in the text, behind what is left of the      *)
(* number, are the number; while anything is left there is room for it.    *)
(***************************************************************************)
Behind(s, m, v) ==
  /\ s \in Seq(Digits) /\ v \in Nat /\ m \in 0 .. v /\ Up(m, s) = v
  /\ Len(s) =< UXTOA_MAX /\ m < Number!pow10[UXTOA_MAX - Len(s)]

\* another digit is to come
Going(s, m) == s = << >> \/ m # 0

Complete(s, m) == m = 0 /\ s # << >> /\ (s[1] = 0 => Len(s) = 1)

LEMMA LastDigit ==
  ASSUME NEW v \in Nat, NEW s \in Seq(Digits)
  PROVE  /\ v % 10 \in Digits /\ v \div 10 \in Nat /\ v = 10 * (v \div 10) + (v % 10)
         /\ << v % 10 >> \o s \in Seq(Digits) /\ Len(<< v % 10 >> \o s) = Len(s) + 1
         /\ (<< v % 10 >> \o s)[1] = v % 10
         /\ Up(v \div 10, << v % 10 >> \o s) = Up(v, s)
<1>. DEFINE d == v % 10
            w == v \div 10
<1>1. d \in Digits /\ w \in Nat /\ v = 10 * w + d
  BY DEF Digits
<1>. HIDE DEF d, w
<1>2. << d >> \o s \in Seq(Digits) /\ Len(<< d >> \o s) = Len(s) + 1 /\ (<< d >> \o s)[1] = d
  BY <1>1
<1>3. Up(w, << d >> \o s) = Up(10 * w + d, s)
  BY <1>1, UpCons
<1>. QED  BY <1>1, <1>2, <1>3 DEF d, w

LEMMA NextDigit ==
  ASSUME NEW s, NEW m, NEW v, Behind(s, m, v), Going(s, m)
  PROVE  /\ Behind(<< m % 10 >> \o s, m \div 10, v)
         /\ IF m \div 10 = 0 THEN Complete(<< m % 10 >> \o s, m \div 10)
                             ELSE Going(<< m % 10 >> \o s, m \div 10)
<1>. DEFINE t == << m % 10 >> \o s
            w == m \div 10
<1>1. s \in Seq(Digits) /\ m \in Nat /\ v \in Nat /\ Up(m, s) = v /\ Len(s) \in Nat
  BY DEF Behind
<1>2. /\ m % 10 \in Digits /\ w \in Nat /\ m = 10 * w + (m % 10)
      /\ t \in Seq(Digits) /\ Len(t) = Len(s) + 1 /\ t[1] = m % 10 /\ Up(w, t) = v
  BY <1>1, LastDigit
<1>. HIDE DEF t, w
<1>3. Len(t) =< UXTOA_MAX /\ w < Number!pow10[UXTOA_MAX - Len(t)]
  <2>1. UXTOA_MAX \in Nat /\ UXTOA_MAX # 0
    BY NumbersAssumption
  <2>2. Len(s) # UXTOA_MAX
    <3>1. SUFFICES ASSUME Len(s) = UXTOA_MAX PROVE FALSE
      OBVIOUS
    <3>2. m < 1
      BY <2>1, <3>1, PowerFacts DEF Behind
    <3>. QED  BY <1>1, <2>1, <3>1, <3>2 DEF Going
  <2>3. PICK k \in 1 .. UXTOA_MAX : k = UXTOA_MAX - Len(s) /\ k - 1 = UXTOA_MAX - Len(t)
    BY <1>1, <1>2, <2>1, <2>2 DEF Behind
  <2>4. m < 10 * Number!pow10[k - 1] /\ Number!pow10[k - 1] \in Nat
    <3>1. k - 1 \in 0 .. UXTOA_MAX
      BY <2>1
    <3>. QED  BY <2>3, <3>1, PowerFacts DEF Behind
  <2>5. PICK P \in Nat : P = Number!pow10[k - 1]
    BY <2>4
  <2>6. PICK d \in Nat : d = m % 10 /\ m = 10 * w + d
    BY <1>2 DEF Digits
  <2>7. w < P
    BY <1>2, <2>4, <2>5, <2>6
  <2>8. Len(t) =< UXTOA_MAX
    BY <1>1, <1>2, <2>1, <2>3
  <2>. QED  BY <2>3, <2>5, <2>7, <2>8
<1>4. Behind(t, w, v)
  <2>1. w \in 0 .. v
    BY <1>2 DEF Behind, Digits
  <2>. QED  BY <1>1, <1>2, <1>3, <2>1 DEF Behind
<1>5. ASSUME w = 0 PROVE Complete(t, w)
  <2>1. t # << >>
    BY <1>1, <1>2
  <2>2. ASSUME t[1] = 0 PROVE Len(t) = 1
    <3>1. m = 0
      BY <1>1, <1>2, <1>5, <2>2
    <3>. QED  BY <1>1, <1>2, <3>1 DEF Going
  <2>. QED  BY <1>5, <2>1, <2>2 DEF Complete
<1>. QED  BY <1>4, <1>5 DEF t, w, Going

LEMMA CompleteDenotes ==
  ASSUME NEW s, NEW m, NEW v, Behind(s, m, v), Complete(s, m)
  PROVE  Number!Denotes(s, v)
<1>1. s \in Seq(Digits) /\ Number!Number(s) = v
  BY NumberIsUp DEF Behind, Complete
<1>2. /\ \A i \in DOMAIN s : s[i] \in 0 .. 9
      /\ Len(s) > 0 /\ (s[1] = 0 => Len(s) = 1)
  BY <1>1 DEF Complete, Digits
<1>. QED  BY <1>1, <1>2 DEF Number!Denotes

UxtoaInv ==
  /\ len \in 0 .. MaxNumber /\ pc \in { "digits", "done" }
  /\ Behind(touched, n, len)
  /\ IF pc = "done" THEN Complete(touched, n) ELSE Going(touched, n)
  /\ p = 0 /\ tail = 0

\* nothing is written yet
LEMMA BehindNothing == \A v \in 0 .. Modulus - 1 : Behind(<< >>, v, v)
<1>. SUFFICES ASSUME NEW v \in 0 .. Modulus - 1 PROVE Behind(<< >>, v, v)
  OBVIOUS
<1>1. << >> \in Seq(Digits) /\ Len(<< >>) = 0 /\ v \in Nat
  BY SquareAssumption
<1>2. Up(v, << >>) = v
  BY <1>1, UpExists DEF Up
<1>3. v < Number!pow10[UXTOA_MAX - 0] /\ 0 =< UXTOA_MAX
  <2>1. UXTOA_MAX \in Nat /\ UXTOA_MAX - 0 = UXTOA_MAX /\ Modulus =< Number!pow10[UXTOA_MAX]
    BY NumbersAssumption
  <2>2. Number!pow10[UXTOA_MAX] \in Nat
    BY <2>1, PowerFacts
  <2>. QED  BY <1>1, <2>1, <2>2, SquareAssumption
<1>. QED  BY <1>1, <1>2, <1>3 DEF Behind

LEMMA UxtoaStart == Number!Init /\ function = "uxtoa" => UxtoaInv
<1>. SUFFICES ASSUME Number!Init, function = "uxtoa" PROVE UxtoaInv
  OBVIOUS
<1>1. /\ len \in 0 .. MaxNumber /\ pc = "digits" /\ p = 0 /\ n = len /\ tail = 0
      /\ touched = << >>
  BY DEF Number!Init
<1>2. len \in 0 .. Modulus - 1
  BY <1>1, NumbersAssumption, SquareAssumption
<1>. QED  BY <1>1, <1>2, BehindNothing DEF UxtoaInv, Going

LEMMA UxtoaStep == UxtoaInv /\ function = "uxtoa" /\ Number!Next => UxtoaInv'
<1>. SUFFICES ASSUME UxtoaInv, function = "uxtoa", Number!Next PROVE UxtoaInv'
  OBVIOUS
<1>1. CASE Number!Digit
  <2>1. /\ pc = "digits" /\ n' = n \div 10 /\ touched' = << n % 10 >> \o touched
        /\ pc' = IF n' = 0 THEN "done" ELSE pc
        /\ len' = len /\ p' = p /\ tail' = tail
    BY <1>1 DEF Number!Digit
  <2>2. Behind(touched, n, len) /\ Going(touched, n)
    BY <2>1 DEF UxtoaInv
  <2>3. Behind(touched', n', len)
    BY <2>1, <2>2, NextDigit
  <2>4. IF n' = 0 THEN Complete(touched', n') ELSE Going(touched', n')
    BY <2>1, <2>2, NextDigit
  <2>5. Behind(touched, n, len)'
    BY <2>1, <2>3 DEF Behind
  <2>6. (IF pc = "done" THEN Complete(touched, n) ELSE Going(touched, n))'
    BY <2>1, <2>4 DEF Complete, Going
  <2>. QED  BY <2>1, <2>5, <2>6 DEF UxtoaInv
<1>2. CASE Number!Halve \/ Number!Decimal \/ Number!Return
  BY <1>2 DEF Number!Halve, Number!Decimal, Number!Return, UxtoaInv
<1>3. CASE Number!Terminating
  BY <1>3 DEF Number!Terminating, Number!qvars, UxtoaInv, Behind, Complete, Going
<1>. QED  BY <1>1, <1>2, <1>3 DEF Number!Next

\* the digits behind the point
K == Number!Capped(vl)

LEMMA FractionFacts ==
  ASSUME len \in 0 .. MaxNumber, vl \in 1 .. MaxPrec + 1
  PROVE  /\ K \in 1 .. MaxPrec /\ MaxPrec \in 1 .. UXTOA_MAX
         /\ len \div Scale \in 0 .. Modulus - 1
         /\ Number!Fraction(len, K) \in Nat /\ Number!Fraction(len, K) < Number!pow10[K]
         /\ (len % Scale) * Number!pow10[K] - Number!Fraction(len, K) * Scale \in 0 .. Scale - 1
<1>1. /\ MaxPrec \in 1 .. UXTOA_MAX /\ UXTOA_MAX \in Nat /\ Scale \in Nat \ {0}
      /\ Modulus \in Nat /\ MaxNumber \in Nat /\ MaxNumber < Modulus /\ len \in Nat
  BY NumbersAssumption, SquareAssumption
<1>2. K \in 1 .. MaxPrec
  BY <1>1 DEF K, Number!Capped
<1>3. PICK P \in Nat \ {0} : P = Number!pow10[K]
  <2>1. K \in 0 .. UXTOA_MAX
    BY <1>1, <1>2
  <2>. QED  BY <2>1, PowerFacts
<1>4. PICK r \in 0 .. Scale - 1 : r = len % Scale
  BY <1>1
<1>5. PICK q \in Nat : q = len \div Scale /\ len = q * Scale + r
  <2>1. len \div Scale \in Nat /\ len = (len \div Scale) * Scale + (len % Scale)
    BY <1>1, Quotient
  <2>. QED  BY <1>4, <2>1
<1>6. q =< len
  <2>1. q * Scale >= q /\ q * Scale \in Nat
    BY ONLY <1>1, q \in Nat
  <2>. QED  BY ONLY <1>1, <1>5, <2>1, q \in Nat, r \in 0 .. Scale - 1
<1>7. r * P \in Nat
  BY ONLY <1>1, r \in 0 .. Scale - 1, P \in Nat \ {0}
<1>8. PICK F \in Nat, z \in 0 .. Scale - 1 :
        F = (r * P) \div Scale /\ r * P = F * Scale + z
  BY <1>1, <1>7, Quotient
<1>9. F < P
  <2>1. SUFFICES ASSUME F >= P PROVE FALSE
    OBVIOUS
  <2>2. F * Scale >= P * Scale /\ F * Scale \in Nat /\ P * Scale \in Nat
    BY ONLY <1>1, <2>1, F \in Nat, P \in Nat \ {0}
  <2>3. r * P =< (Scale - 1) * P /\ (Scale - 1) * P = P * Scale - P
    BY ONLY <1>1, r \in 0 .. Scale - 1, P \in Nat \ {0}
  <2>. QED
    BY ONLY <1>1, <1>7, <1>8, <2>2, <2>3, P \in Nat \ {0}, F \in Nat, z \in 0 .. Scale - 1
<1>10. r * P - F * Scale = z
  <2>1. F * Scale \in Nat
    BY ONLY <1>1, F \in Nat
  <2>. QED  BY ONLY <1>7, <1>8, <2>1, <1>1, z \in 0 .. Scale - 1
<1>11. Number!Fraction(len, K) = F
  BY <1>3, <1>4, <1>8 DEF Number!Fraction
<1>12. len \div Scale \in 0 .. Modulus - 1
  BY <1>1, <1>5, <1>6
<1>. QED  BY <1>1, <1>2, <1>3, <1>4, <1>8, <1>9, <1>10, <1>11, <1>12

Pointed(i, f) == i \o (<< Number!Point >> \o f)

FractionPlace ==
  /\ tail \in 1 .. K /\ touched \in Seq(Digits) /\ Len(touched) = K - tail
  /\ p \in Nat /\ p < Number!pow10[tail] /\ Up(p, touched) = Number!Fraction(len, K)
  /\ n = len \div Scale

\* the fraction is complete, and behind the point
IntegerPlace ==
  \E i \in Seq(Digits), f \in Seq(Digits) :
    /\ Len(f) = K /\ Up(0, f) = Number!Fraction(len, K)
    /\ touched = Pointed(i, f)
    /\ Behind(i, n, len \div Scale)
    /\ IF pc = "done" THEN Complete(i, n) ELSE Going(i, n)

FtoaInv ==
  /\ len \in 0 .. MaxNumber /\ vl \in 1 .. MaxPrec + 1 /\ pc \in { "fraction", "digits", "done" }
  /\ pc = "fraction" => FractionPlace
  /\ pc # "fraction" => IntegerPlace /\ p = 0 /\ tail = 0

LEMMA FtoaStart == Number!Init /\ function = "ftoa" => FtoaInv
<1>. SUFFICES ASSUME Number!Init, function = "ftoa" PROVE FtoaInv
  OBVIOUS
<1>1. /\ len \in 0 .. MaxNumber /\ vl \in 1 .. MaxPrec + 1 /\ tail = K /\ pc = "fraction"
      /\ p = Number!Fraction(len, tail) /\ n = len \div Scale /\ touched = << >>
  BY DEF Number!Init, K
<1>2. << >> \in Seq(Digits) /\ Len(<< >>) = 0 /\ K \in Nat
  BY <1>1, FractionFacts
<1>3. Up(p, << >>) = p
  BY <1>1, <1>2, FractionFacts, UpExists DEF Up
<1>4. FractionPlace
  BY <1>1, <1>2, <1>3, FractionFacts DEF FractionPlace
<1>. QED  BY <1>1, <1>4 DEF FtoaInv

LEMMA FtoaDecimal == FtoaInv /\ Number!Decimal => FtoaInv'
<1>. SUFFICES ASSUME FtoaInv, Number!Decimal PROVE FtoaInv'
  OBVIOUS
<1>. DEFINE d == p % 10
            t == << d >> \o touched
<1>1. /\ pc = "fraction" /\ len \in 0 .. MaxNumber /\ vl \in 1 .. MaxPrec + 1
      /\ p' = p \div 10 /\ tail' = tail - 1 /\ len' = len /\ n' = n /\ vl' = vl
      /\ pc' = IF tail' = 0 THEN "digits" ELSE pc
      /\ touched' = (IF tail' = 0 THEN << Number!Point >> ELSE << >>) \o << d >> \o touched
  BY DEF Number!Decimal, Number!NoMoreDecimals, FtoaInv
<1>2. FractionPlace /\ K' = K /\ K \in 1 .. MaxPrec /\ MaxPrec \in 1 .. UXTOA_MAX
  BY <1>1, FractionFacts DEF FtoaInv, K
<1>3. /\ touched \in Seq(Digits) /\ p \in Nat /\ Len(touched) = K - tail
      /\ tail \in 1 .. K /\ tail - 1 \in 0 .. UXTOA_MAX /\ tail \in 1 .. UXTOA_MAX
      /\ p < Number!pow10[tail] /\ Up(p, touched) = Number!Fraction(len, K)
      /\ n = len \div Scale
  BY <1>2, NumbersAssumption DEF FractionPlace
<1>4. /\ d \in Digits /\ p \div 10 \in Nat /\ p = 10 * (p \div 10) + d
      /\ t \in Seq(Digits) /\ Len(t) = Len(touched) + 1 /\ Up(p \div 10, t) = Up(p, touched)
  BY <1>3, LastDigit
<1>5. p \div 10 < Number!pow10[tail - 1]
  <2>1. PICK P \in Nat : P = Number!pow10[tail - 1]
    BY <1>3, PowerFacts
  <2>2. p < 10 * P
    BY <1>3, <2>1, PowerFacts
  <2>. QED  BY <1>3, <2>1, <2>2
<1>. HIDE DEF d, t
<1>6. CASE tail' # 0
  <2>1. touched' = t /\ pc' = "fraction"
    <3>1. << d >> \in Seq(Digits) /\ << >> \o << d >> = << d >>
      BY <1>4
    <3>2. touched' = (<< >> \o << d >>) \o touched
      BY <1>1, <1>6 DEF d
    <3>. QED  BY <1>1, <1>6, <3>1, <3>2 DEF t
  <2>2. tail - 1 \in 1 .. K
    BY <1>1, <1>2, <1>3, <1>6
  <2>3. FractionPlace'
    <3>1. tail' \in 1 .. K' /\ touched' \in Seq(Digits) /\ Len(touched') = K' - tail'
      <4>1. tail' \in 1 .. K' /\ touched' \in Seq(Digits)
        BY <1>1, <1>2, <1>4, <2>1, <2>2
      <4>2. K \in Int /\ tail \in Int
        BY <1>2, <1>3, NumbersAssumption
      <4>3. Len(t) = K - (tail - 1)
        BY <1>3, <1>4, <4>2
      <4>. QED  BY <1>1, <1>2, <2>1, <4>1, <4>3
    <3>2. p' \in Nat /\ p' < Number!pow10[tail'] /\ Up(p', touched') = Number!Fraction(len', K')
      BY <1>1, <1>2, <1>3, <1>4, <1>5, <2>1
    <3>3. n' = len' \div Scale
      BY <1>1, <1>3
    <3>. QED  BY <3>1, <3>2, <3>3 DEF FractionPlace
  <2>. QED  BY <1>1, <2>1, <2>3 DEF FtoaInv
<1>7. CASE tail' = 0
  <2>1. p \div 10 = 0
    BY <1>1, <1>3, <1>4, <1>5, <1>7, PowerFacts
  <2>2. touched' = Pointed(<< >>, t) /\ pc' = "digits"
    <3>1. touched' = (<< Number!Point >> \o << d >>) \o touched
      BY <1>1, <1>7 DEF d
    <3>2. /\ << Number!Point >> \in Seq(Nat) /\ << d >> \in Seq(Nat) /\ touched \in Seq(Nat)
      <4>1. Digits \subseteq Nat /\ Number!Point \in Nat
        BY DEF Digits, Number!Point
      <4>2. touched \in Seq(Nat)
        BY <1>3, <4>1, SeqMonotonic
      <4>. QED  BY <1>4, <4>1, <4>2
    <3>3. touched' = << Number!Point >> \o t
      BY <3>1, <3>2, ConcatAssociative DEF t
    <3>4. << Number!Point >> \o t \in Seq(Nat)
      BY <3>2, ConcatProperties DEF t
    <3>5. << >> \o (<< Number!Point >> \o t) = << Number!Point >> \o t
      BY <3>4, ConcatEmptySeq
    <3>. QED  BY <1>1, <1>7, <3>3, <3>5 DEF Pointed
  <2>3. Len(t) = K
    BY <1>1, <1>2, <1>3, <1>4, <1>7
  <2>4. Behind(<< >>, n, len \div Scale)
    BY <1>1, <1>3, FractionFacts, BehindNothing
  <2>5. IntegerPlace'
    <3>1. << >> \in Seq(Digits) /\ Going(<< >>, n)
      BY DEF Going
    <3>2. Behind(<< >>, n', len' \div Scale) /\ Going(<< >>, n') /\ pc' # "done"
      BY <1>1, <2>2, <2>4, <3>1
    <3>3. Len(t) = K' /\ Up(0, t) = Number!Fraction(len', K') /\ touched' = Pointed(<< >>, t)
      BY <1>1, <1>2, <1>3, <1>4, <2>1, <2>2, <2>3
    <3>. QED  BY <1>4, <3>1, <3>2, <3>3 DEF IntegerPlace
  <2>. QED  BY <1>1, <1>7, <2>1, <2>2, <2>5 DEF FtoaInv
<1>. QED  BY <1>6, <1>7

LEMMA Associative == \A a, b, c \in Seq(Nat) : a \o (b \o c) = (a \o b) \o c
<1>. DEFINE S == Nat
<1>. HIDE DEF S
<1>. SUFFICES ASSUME NEW a \in Seq(S), NEW b \in Seq(S), NEW c \in Seq(S)
              PROVE  a \o (b \o c) = (a \o b) \o c
  BY DEF S
<1>. QED  BY ConcatAssociative

LEMMA FtoaDigit == FtoaInv /\ Number!Digit => FtoaInv'
<1>. SUFFICES ASSUME FtoaInv, Number!Digit PROVE FtoaInv'
  OBVIOUS
<1>1. /\ pc = "digits" /\ len \in 0 .. MaxNumber /\ vl \in 1 .. MaxPrec + 1
      /\ n' = n \div 10 /\ touched' = << n % 10 >> \o touched
      /\ pc' = IF n' = 0 THEN "done" ELSE pc
      /\ len' = len /\ p' = p /\ tail' = tail /\ vl' = vl /\ p = 0 /\ tail = 0
  BY DEF Number!Digit, FtoaInv
<1>2. PICK i \in Seq(Digits), f \in Seq(Digits) :
        /\ Len(f) = K /\ Up(0, f) = Number!Fraction(len, K)
        /\ touched = Pointed(i, f)
        /\ Behind(i, n, len \div Scale) /\ Going(i, n)
  BY <1>1 DEF FtoaInv, IntegerPlace
<1>. DEFINE j == << n % 10 >> \o i
<1>3. Behind(j, n \div 10, len \div Scale)
  BY <1>2, NextDigit
<1>4. IF n \div 10 = 0 THEN Complete(j, n \div 10) ELSE Going(j, n \div 10)
  BY <1>2, NextDigit
<1>5. j \in Seq(Digits)
  BY <1>3 DEF Behind
<1>6. << n % 10 >> \o touched = Pointed(j, f)
  <2>1. n \in Nat
    BY <1>2 DEF Behind
  <2>2. /\ << n % 10 >> \in Seq(Nat) /\ i \in Seq(Nat) /\ f \in Seq(Nat)
        /\ << Number!Point >> \in Seq(Nat)
    <3>1. Digits \subseteq Nat /\ Number!Point \in Nat /\ n % 10 \in Nat
      BY <2>1 DEF Digits, Number!Point
    <3>2. i \in Seq(Nat) /\ f \in Seq(Nat)
      BY <1>2, <3>1, SeqMonotonic
    <3>. QED  BY <3>1, <3>2
  <2>3. << Number!Point >> \o f \in Seq(Nat)
    BY <2>2, ConcatProperties
  <2>4. << n % 10 >> \o (i \o (<< Number!Point >> \o f))
          = (<< n % 10 >> \o i) \o (<< Number!Point >> \o f)
    <3>1. PICK a \in Seq(Nat), b \in Seq(Nat), c \in Seq(Nat) :
            a = << n % 10 >> /\ b = i /\ c = << Number!Point >> \o f
      BY <2>2, <2>3
    <3>2. a \o (b \o c) = (a \o b) \o c
      BY Associative
    <3>. QED  BY <3>1, <3>2, Zenon
  <2>. QED  BY <1>2, <2>4 DEF Pointed
<1>. HIDE DEF j
<1>7. K' = K
  BY <1>1 DEF K
<1>8. IntegerPlace'
  <2>1. /\ Len(f) = K' /\ Up(0, f) = Number!Fraction(len', K') /\ touched' = Pointed(j, f)
        /\ Behind(j, n', len' \div Scale)
    BY <1>1, <1>2, <1>3, <1>6, <1>7
  <2>2. IF pc' = "done" THEN Complete(j, n') ELSE Going(j, n')
    BY <1>1, <1>4
  <2>. QED  BY <1>2, <1>5, <2>1, <2>2 DEF IntegerPlace
<1>. QED  BY <1>1, <1>8 DEF FtoaInv

LEMMA FtoaStep == FtoaInv /\ Number!Next => FtoaInv'
<1>. SUFFICES ASSUME FtoaInv, Number!Next PROVE FtoaInv'
  OBVIOUS
<1>1. CASE Number!Halve \/ Number!Return
  BY <1>1 DEF Number!Halve, Number!Return, FtoaInv
<1>2. CASE Number!Terminating
  <2>1. UNCHANGED << len, pc, p, n, vl, tail, touched >>
    BY <1>2 DEF Number!Terminating, Number!qvars
  <2>2. K' = K
    BY <2>1 DEF K
  <2>3. FractionPlace => FractionPlace'
    BY <2>1, <2>2 DEF FractionPlace
  <2>4. IntegerPlace => IntegerPlace'
    BY <2>1, <2>2 DEF IntegerPlace
  <2>. QED  BY <2>1, <2>3, <2>4 DEF FtoaInv
<1>. QED  BY <1>1, <1>2, FtoaDecimal, FtoaDigit DEF Number!Next

(***************************************************************************)
(* All three, and what they promise.                                       *)
(***************************************************************************)
NumbersInv ==
  /\ function = "usqrt" => UsqrtInv
  /\ function = "uxtoa" => UxtoaInv
  /\ function = "ftoa" => FtoaInv

LEMMA NumbersInitially == Init => NumbersInv
<1>. SUFFICES ASSUME Init PROVE NumbersInv
  OBVIOUS
<1>1. function \in Number!Functions => Number!Init
  BY DEF Init, Start, Strip!Functions, Number!Functions, Table!Functions
<1>. QED  BY <1>1, UsqrtStart, UxtoaStart, FtoaStart DEF NumbersInv, Number!Functions

LEMMA NumbersStep == NumbersInv /\ [Next]_vars => NumbersInv'
<1>. SUFFICES ASSUME NumbersInv, [Next]_vars PROVE NumbersInv'
  OBVIOUS
<1>1. CASE Next
  <2>1. /\ function' = function
        /\ function \in Number!Functions => Number!Next
    BY <1>1, OneRuns DEF Strip!Functions, Number!Functions, Table!Functions
  <2>. QED  BY <2>1, UsqrtStep, UxtoaStep, FtoaStep DEF NumbersInv, Number!Functions
<1>2. CASE UNCHANGED vars
  <2>1. UNCHANGED << function, len, pc, p, n, vl, tail, touched >>
    BY <1>2 DEF vars
  <2>2. UsqrtInv => UsqrtInv'
    BY <2>1 DEF UsqrtInv
  <2>3. UxtoaInv => UxtoaInv'
    BY <2>1 DEF UxtoaInv, Behind, Complete, Going
  <2>4. FtoaInv => FtoaInv'
    <3>1. K' = K
      BY <2>1 DEF K
    <3>2. FractionPlace => FractionPlace'
      BY <2>1, <3>1 DEF FractionPlace
    <3>3. IntegerPlace => IntegerPlace'
      BY <2>1, <3>1 DEF IntegerPlace
    <3>. QED  BY <2>1, <3>1, <3>2, <3>3 DEF FtoaInv
  <2>. QED  BY <2>1, <2>2, <2>3, <2>4 DEF NumbersInv
<1>. QED  BY <1>1, <1>2

LEMMA NumbersInvariant == Spec => []NumbersInv
<1>. QED  BY NumbersInitially, NumbersStep, PTL DEF Spec

\* where the parts of the text are
LEMMA PointedParts ==
  ASSUME NEW i \in Seq(Digits), NEW f \in Seq(Digits), i # << >>, f # << >>
  PROVE  LET t == Pointed(i, f)
             k == Len(t) - Len(f)
         IN  /\ Len(t) = Len(i) + 1 + Len(f) /\ k = Len(i) + 1 /\ k > 1 /\ t[k] = Number!Point
             /\ SubSeq(t, 1, k - 1) = i /\ SubSeq(t, k + 1, Len(t)) = f
<1>. DEFINE q == << Number!Point >>
            r == q \o f
            t == i \o r
<1>1. /\ i \in Seq(Nat) /\ f \in Seq(Nat) /\ q \in Seq(Nat) /\ Len(q) = 1
      /\ q[1] = Number!Point
  <2>1. Digits \subseteq Nat /\ Number!Point \in Nat
    BY DEF Digits, Number!Point
  <2>2. i \in Seq(Nat) /\ f \in Seq(Nat)
    <3>. HIDE DEF q
    <3>. QED  BY <2>1, SeqMonotonic
  <2>3. q \in Seq(Nat) /\ Len(q) = 1 /\ q[1] = Number!Point
    BY <2>1
  <2>. QED  BY <2>2, <2>3
<1>2. Len(i) \in Nat \ {0} /\ Len(f) \in Nat \ {0}
  OBVIOUS
<1>3. /\ r \in Seq(Nat) /\ Len(r) = 1 + Len(f)
      /\ \A x \in 1 .. 1 + Len(f) : r[x] = IF x <= 1 THEN q[x] ELSE f[x - 1]
  <2>. HIDE DEF q
  <2>1. /\ r \in Seq(Nat) /\ Len(r) = Len(q) + Len(f)
        /\ \A x \in 1 .. Len(q) + Len(f) : r[x] = IF x <= Len(q) THEN q[x] ELSE f[x - Len(q)]
    BY <1>1, ConcatProperties
  <2>. HIDE DEF r
  <2>. QED  BY <1>1, <2>1
<1>. HIDE DEF r
<1>4. /\ t \in Seq(Nat) /\ Len(t) = Len(i) + Len(r)
      /\ \A x \in 1 .. Len(i) + Len(r) : t[x] = IF x <= Len(i) THEN i[x] ELSE r[x - Len(i)]
  BY <1>1, <1>3, ConcatProperties
<1>. HIDE DEF t, q
<1>5. t[Len(i) + 1] = Number!Point
  <2>1. Len(i) + 1 \in 1 .. Len(i) + Len(r) /\ ~(Len(i) + 1 <= Len(i)) /\ (Len(i) + 1) - Len(i) = 1
    BY <1>2, <1>3
  <2>2. r[1] = q[1]
    BY <1>2, <1>3
  <2>. QED  BY <1>1, <1>4, <2>1, <2>2
<1>6. SubSeq(t, 1, Len(i)) = i
  <2>. DEFINE s == SubSeq(t, 1, Len(i))
  <2>1. \A x \in 1 .. Len(i) : t[x] = i[x] /\ t[x] \in Nat
    <3>1. \A x \in 1 .. Len(i) : x \in 1 .. Len(i) + Len(r) /\ x <= Len(i)
      BY <1>2, <1>3
    <3>2. \A x \in 1 .. Len(i) : i[x] \in Nat
      BY <1>1
    <3>. QED  BY <1>4, <3>1, <3>2
  <2>2. /\ s \in Seq(Nat) /\ Len(s) = Len(i)
        /\ \A x \in 1 .. Len(i) : s[x] = t[x]
    <3>1. \A x \in 1 .. Len(i) : t[x] \in Nat
      BY <2>1
    <3>. QED  BY <1>2, <3>1, SubSeqProperties
  <2>. HIDE DEF s
  <2>3. s = i
    BY <1>1, <1>2, <2>1, <2>2, SeqEqual
  <2>. QED  BY <2>3 DEF s
<1>7. SubSeq(t, Len(i) + 2, Len(t)) = f
  <2>. DEFINE s == SubSeq(t, Len(i) + 2, Len(t))
  <2>1. \A x \in 1 .. Len(f) : t[Len(i) + 2 + x - 1] = f[x] /\ f[x] \in Nat
    <3>1. SUFFICES ASSUME NEW x \in 1 .. Len(f) PROVE t[Len(i) + 2 + x - 1] = f[x]
      BY <1>1
    <3>2. /\ Len(i) + 2 + x - 1 \in 1 .. Len(i) + Len(r) /\ ~(Len(i) + 2 + x - 1 <= Len(i))
          /\ (Len(i) + 2 + x - 1) - Len(i) = x + 1 /\ x + 1 \in 1 .. 1 + Len(f) /\ ~(x + 1 <= 1)
          /\ (x + 1) - 1 = x
      BY <1>2, <1>3
    <3>. QED  BY <1>3, <1>4, <3>2
  <2>2. \A y \in Len(i) + 2 .. Len(t) : t[y] \in Nat
    <3>1. SUFFICES ASSUME NEW y \in Len(i) + 2 .. Len(t) PROVE t[y] \in Nat
      OBVIOUS
    <3>2. y \in 1 .. Len(t)
      BY <1>2
    <3>. QED  BY <1>4, <3>2
  <2>3. /\ Len(i) + 2 \in Int /\ Len(t) \in Int /\ Len(t) - (Len(i) + 2) + 1 = Len(f)
        /\ Len(i) + 2 <= Len(t)
    BY <1>2, <1>3, <1>4
  <2>4. /\ s \in Seq(Nat) /\ Len(s) = Len(f)
        /\ \A x \in 1 .. Len(f) : s[x] = t[Len(i) + 2 + x - 1]
    BY <2>2, <2>3, SubSeqProperties
  <2>. HIDE DEF s
  <2>5. s = f
    BY <1>1, <1>2, <2>1, <2>4, SeqEqual
  <2>. QED  BY <2>5 DEF s
<1>8. Len(t) = Len(i) + 1 + Len(f) /\ Len(t) - Len(f) = Len(i) + 1
  BY <1>2, <1>3, <1>4
<1>9. (Len(i) + 1) - 1 = Len(i) /\ (Len(i) + 1) + 1 = Len(i) + 2 /\ Len(i) + 1 > 1
  BY <1>2
<1>10. t = Pointed(i, f)
  BY DEF t, r, q, Pointed
<1>. QED  BY <1>5, <1>6, <1>7, <1>8, <1>9, <1>10

LEMMA UsqrtResult == UsqrtInv /\ function = "usqrt" => Number!RootBetween /\ Number!TextRight
BY DEF UsqrtInv, Number!RootBetween, Number!TextRight

LEMMA UxtoaResult == UxtoaInv /\ function = "uxtoa" => Number!TextRight
BY CompleteDenotes DEF UxtoaInv, Number!TextRight

LEMMA FtoaResult == FtoaInv /\ function = "ftoa" => Number!TextRight
<1>. SUFFICES ASSUME FtoaInv, function = "ftoa", pc = "done" PROVE Number!TextRight
  BY DEF Number!TextRight
<1>1. len \in 0 .. MaxNumber /\ vl \in 1 .. MaxPrec + 1 /\ IntegerPlace
  BY DEF FtoaInv
<1>2. PICK i \in Seq(Digits), f \in Seq(Digits) :
        /\ Len(f) = K /\ Up(0, f) = Number!Fraction(len, K) /\ touched = Pointed(i, f)
        /\ Behind(i, n, len \div Scale) /\ Complete(i, n)
  BY <1>1 DEF IntegerPlace
<1>3. K \in 1 .. MaxPrec
  BY <1>1, FractionFacts
<1>4. i # << >> /\ f # << >>
  BY <1>2, <1>3 DEF Complete
<1>. DEFINE k == Len(touched) - K
<1>5. /\ k > 1 /\ touched[k] = Number!Point
      /\ SubSeq(touched, 1, k - 1) = i /\ SubSeq(touched, k + 1, Len(touched)) = f
  BY <1>2, <1>4, PointedParts
<1>6. Number!Denotes(i, len \div Scale)
  BY <1>2, CompleteDenotes
<1>7. \A x \in DOMAIN f : f[x] \in 0 .. 9
  BY DEF Digits
<1>8. Number!Number(f) = Number!Fraction(len, K)
  BY <1>2, NumberIsUp
<1>9. \A rest \in 0 .. Scale - 1 : 0 =< rest /\ rest < Scale
  BY NumbersAssumption
<1>10. (len % Scale) * Number!pow10[K] - Number!Number(f) * Scale \in 0 .. Scale - 1
  BY <1>1, <1>8, FractionFacts
<1>11. LET rest == (len % Scale) * Number!pow10[K] - Number!Number(f) * Scale
       IN  0 =< rest /\ rest < Scale
  BY <1>9, <1>10
<1>. HIDE DEF k
<1>12. k = Len(touched) - Number!Capped(vl)
  BY DEF k, K
<1>. QED  BY <1>5, <1>6, <1>7, <1>11, <1>12 DEF Number!TextRight, K

(***************************************************************************)
(* What the functions return, for all arguments, moduli and scales: strlen *)
(* the length of the string, usqrt the root - which its two numbers never  *)
(* lose, whatever is cut to the width - and uxtoa and ftoa text that says  *)
(* which number was printed, without a leading zero, and behind the point  *)
(* as many digits as were asked for, cut off.                              *)
(***************************************************************************)
THEOREM ReturnsRight == Spec => []ResultRight
<1>1. StrlenInv /\ NumbersInv => ResultRight
  <2>. SUFFICES ASSUME StrlenInv, NumbersInv PROVE ResultRight
    OBVIOUS
  <2>1. function = "strlen" => Length!LengthRight
    BY DEF StrlenInv
  <2>2. ASSUME function \in Number!Functions PROVE Number!RootBetween /\ Number!TextRight
    <3>1. function # "usqrt" => Number!RootBetween
      BY DEF Number!RootBetween
    <3>. QED
      BY <2>2, <3>1, UsqrtResult, UxtoaResult, FtoaResult DEF NumbersInv, Number!Functions
  <2>. QED  BY <2>1, <2>2 DEF ResultRight
<1>. QED  BY <1>1, StrlenInit, StrlenStep, NumbersInvariant, PTL DEF Spec
=============================================================================
