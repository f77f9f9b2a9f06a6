------------------------------ MODULE Routines ------------------------------
(***************************************************************************)
(* The small functions that are benchmarked, and some of nolibc.h:         *)
(*                                                                         *)
(*   memset, utf8_count, memrand     (Strips)                              *)
(*   memset_musl, memcpy_musl        (Musl)                                *)
(*   memreverse                      (Memreverse)                          *)
(*   strlen                          (Strlen)                              *)
(*   usqrt, uxtoa, ftoa              (Numbers)                             *)
(*   hist                            (Hist)                                *)
(*   LUT4, LUT6, byteswap32, ascii_to_utf16, ascii_to_utf32   (Tables)     *)
(*   b64_encode                      (Base64)                              *)
(*                                                                         *)
(* One of them is called.  What it does not use is zero.                   *)
(***************************************************************************)
EXTENDS Integers, FiniteSets

CONSTANTS
  Called,                                  \* the functions that are called
  VLMAX, MaxLen, CapBytes, Word,           \* of Strips
  MemsetMaxLen, MemcpyMaxLen,
  PageSize, MaxString,                     \* of Strlen
  Modulus, MaxSquare, MaxNumber, Scale, MaxPrec, UXTOA_MAX,   \* of Numbers
  Variants, Lanes, GroupLanes, Last, HistMaxLen,    \* of Hist
  TablesMaxLen,
  Machines, EncodeMaxLen                   \* of Base64

VARIABLES
  function, kernel, grant, addr, saddr, len,
  pc, n, p, vl, tail, quarter, filled, touched, access

vars == << function, kernel, grant, addr, saddr, len,
           pc, n, p, vl, tail, quarter, filled, touched, access >>

Strip   == INSTANCE Strips
Musl    == INSTANCE Musl
Reverse == INSTANCE Memreverse
Length  == INSTANCE Strlen
Number  == INSTANCE Numbers WITH asked <- vl, prec <- tail, text <- touched
Histo   == INSTANCE Hist WITH variant <- kernel, dist <- grant, pos <- p, reg <- tail,
                              row <- quarter, hist <- touched, MaxLen <- HistMaxLen
Table   == INSTANCE Tables WITH MaxLen <- TablesMaxLen, table <- saddr, t1 <- tail,
                                t0 <- quarter
Encode  == INSTANCE Base64 WITH Vlenb <- VLMAX, MaxLength <- EncodeMaxLen,
                                table <- saddr, range <- addr, src <- p, dest <- filled

ASSUME VLMAXAssumption  == VLMAX \in Nat \ {0}
ASSUME MaxLenAssumption == MaxLen \in Nat
ASSUME CapAssumption    == CapBytes \in Nat \ {0}
ASSUME WordAssumption   == Word \in Nat \ {0}
ASSUME ArgumentsAssumption ==
  MemsetMaxLen \in Nat /\ MemcpyMaxLen \in Nat /\ MaxString \in Nat

(***************************************************************************)
(* strlen_rvv_page_aligned reads register groups that begin with a page: a *)
(* register group must be no more than a page.                             *)
(***************************************************************************)
ASSUME PageAssumption ==
  /\ PageSize \in Nat \ {0}
  /\ PageSize % VLMAX = 0 /\ PageSize % Word = 0 /\ PageSize =< MaxLen

(***************************************************************************)
(* usqrt is called with MAX_MEM/40 at most, whatever memory is configured, *)
(* so that no square it takes wraps; the largest number has UXTOA_MAX      *)
(* digits.                                                                 *)
(***************************************************************************)
ASSUME SquareAssumption ==
  /\ Modulus \in Nat /\ MaxSquare \in Nat
  /\ (MaxSquare \div 2 + 2) * (MaxSquare \div 2 + 2) < Modulus

ASSUME NumbersAssumption ==
  /\ MaxNumber \in 0 .. Modulus - 1 /\ Scale \in Nat \ {0}
  /\ UXTOA_MAX \in Nat /\ MaxPrec \in 1 .. UXTOA_MAX
  /\ Number!pow10[MaxPrec] =< Modulus /\ Modulus =< Number!pow10[UXTOA_MAX]
ASSUME TablesAssumption == TablesMaxLen \in 0 .. MaxLen /\ VLMAX % 4 = 0

\* a register has at least 16 bytes, a quarter of the table of 64
ASSUME MachinesAssumption ==
  EncodeMaxLen \in Nat /\ \A m \in Machines : m[1] \in 1 .. 4 * VLMAX /\ m[2] \in Nat \ {0}

ASSUME LanesAssumption == Lanes \in Nat \ {0} /\ GroupLanes \in Nat \ {0}
ASSUME LastAssumption  == Last \in Nat \ {0} /\ HistMaxLen \in Nat
ASSUME VariantsAssumption ==
  Variants \subseteq Histo!DupVariants \cup { "no_conflict", "slidedown" }

None == << >>

Start ==
  \/ function \in Called \cap Strip!Functions /\ Strip!Init /\ saddr = 0 /\ access = {}
  \/ /\ function = "memset_musl" /\ Musl!MemsetInit
     /\ kernel = "musl" /\ grant = None /\ saddr = 0 /\ vl = 0 /\ tail = 0
     /\ quarter = 0 /\ filled = 0
  \/ /\ function = "memcpy_musl" /\ Musl!MemcpyInit
     /\ kernel = "musl" /\ grant = None /\ quarter = 0 /\ filled = 0
  \/ /\ function = "memreverse" /\ Reverse!Init
     /\ grant \in Strip!Processors
     /\ addr = 0 /\ saddr = 0 /\ tail = 0 /\ quarter = 0 /\ filled = 0 /\ access = {}
  \/ /\ function = "strlen" /\ Length!Init
     /\ grant \in Strip!Processors
     /\ addr = 0 /\ vl = 0 /\ quarter = 0 /\ filled = 0 /\ touched = None
  \/ /\ function \in Called \cap Number!Functions /\ Number!Init
     /\ kernel = "nolibc" /\ grant = None /\ addr = 0 /\ saddr = 0
     /\ quarter = 0 /\ filled = 0 /\ access = {}
  \/ /\ function = "hist" /\ Histo!Init
     /\ addr = 0 /\ saddr = 0 /\ len = 0 /\ filled = 0 /\ access = {}
  \/ /\ function \in Called \cap Table!Functions /\ Table!TablesInit
     /\ grant \in Strip!Processors
     /\ addr = 0 /\ filled = 0 /\ access = {}
  \/ /\ function = "b64_encode" /\ Encode!EncodeInit
     /\ grant = None /\ vl = 0 /\ tail = 0 /\ quarter = 0

Init == function \in Called /\ Start

Next ==
  \/ function \in Strip!Functions /\ Strip!Next /\ UNCHANGED << saddr, access >>
  \/ function = "memset_musl" /\ Musl!MemsetNext
       /\ UNCHANGED << function, kernel, grant, saddr, vl, tail, quarter, filled >>
  \/ function = "memcpy_musl" /\ Musl!MemcpyNext
       /\ UNCHANGED << function, kernel, grant, quarter, filled >>
  \/ function = "memreverse" /\ Reverse!Next
       /\ UNCHANGED << function, addr, saddr, tail, quarter, filled, access >>
  \/ function = "strlen" /\ Length!Next
       /\ UNCHANGED << function, addr, vl, quarter, filled, touched >>
  \/ function \in Number!Functions /\ Number!Next
       /\ UNCHANGED << kernel, grant, addr, saddr, quarter, filled, access >>
  \/ function = "hist" /\ Histo!Next
       /\ UNCHANGED << function, addr, saddr, len, filled, access >>
  \/ function \in Table!Functions /\ Table!TablesNext
       /\ UNCHANGED << addr, filled, access >>
  \/ function = "b64_encode" /\ Encode!EncodeNext
       /\ UNCHANGED << function, grant, vl, tail, quarter >>

\* the only thread goes on
Spec == Init /\ [][Next]_vars /\ WF_vars(Next)

-----------------------------------------------------------------------------
(* Properties.                                                             *)

\* Every variable of the function holds what the code can put there.
TypeOK ==
  CASE function \in Strip!Functions -> Strip!TypeOK
    [] function = "memset_musl"     -> Musl!MemsetTypeOK
    [] function = "memcpy_musl"     -> Musl!MemcpyTypeOK
    [] function = "memreverse"      -> Reverse!TypeOK
    [] function = "strlen"          -> Length!TypeOK
    [] function \in Number!Functions -> Number!TypeOK
    [] function = "hist"            -> Histo!TypeOK
    [] function \in Table!Functions  -> Table!TablesTypeOK
    [] function = "b64_encode"      -> Encode!EncodeTypeOK

(***************************************************************************)
(* The kernels that align do so: the align kernel accesses full register   *)
(* groups, and SWAR and the functions of musl access words and double      *)
(* words, at multiples of their size.                                      *)
(***************************************************************************)
AccessesAligned ==
  /\ function \in Strip!Functions => Strip!AccessesAligned
  /\ function \in { "memset_musl", "memcpy_musl" } =>
       \A a \in access :
         ((IF a[1] = "dest" THEN addr ELSE saddr) + a[2]) % a[3] = 0

\* memset stores only elements that were filled (Strips).
StoresFilled == [][function = "memset" => Strip!FilledOnly]_vars

\* memset_musl, memcpy_musl, memreverse, the kernels of Tables and b64_encode
\* store every byte, the right one, and none outside (in their modules).
InPlace == /\ function = "memset_musl" => Musl!RemainderStored
           /\ function = "memcpy_musl" => Musl!CopiedInPlace
           /\ function = "memreverse"  => Reverse!InPlace
           /\ function \in Table!Functions => Table!TablesInPlace
           /\ function = "b64_encode" => Encode!Encoded

\* strlen reads no page after the one the string ends in (Strlen).
ReadsInPages == function = "strlen" => Length!ReadsInPages

\* strlen returns the length, usqrt keeps the root between its two numbers,
\* and uxtoa and ftoa make the text of a number (Strlen, Numbers).
ResultRight == /\ function = "strlen" => Length!LengthRight
               /\ function \in Number!Functions => Number!RootBetween /\ Number!TextRight

Counted == function \in Strip!Functions

Abstract == INSTANCE EachOnce
  WITH len      <- IF Counted THEN len ELSE 0,
       touched  <- IF Counted THEN touched ELSE None,
       returned <- pc = "done"

(***************************************************************************)
(* Whatever vsetvli answers, memset, utf8_count and memrand handle every   *)
(* byte once, and none beyond the last; and each of the functions returns. *)
(***************************************************************************)
ImplementsEachOnce == Abstract!Spec

\* The dup kernels of hist keep a counter for every lane so that no two lanes
\* of one scatter write the same one, and none of them is lost (Hist).
LanesApart == function = "hist" => Histo!LanesApart

\* The kernel of hist that ignores conflicts loses counts where there are
\* conflicts only, and never adds any (Hist).
ConflictsOnlyLose == function = "hist" => Histo!ConflictsOnlyLose

\* The counts are those of hist_scalar when the kernel returns (Hist).
CountsAreExact == function = "hist" => Histo!CountsAreExact

Binned == function = "hist"

Counters == INSTANCE Histogram
  WITH Bins     <- 0 .. Last - 1,
       bin      <- IF Binned THEN Histo!BinOf ELSE None,
       taken    <- IF Binned THEN Histo!Taken ELSE 0,
       counts   <- IF Binned THEN Histo!Counts ELSE [b \in 0 .. Last - 1 |-> 0],
       exact    <- kernel # "no_conflict",
       returned <- pc = "done"

(***************************************************************************)
(* The kernels of hist implement Histogram: after every step each bin is   *)
(* what the elements counted so far make of it - while the lanes are being *)
(* added up in place over counters of other bins, too - and the call       *)
(* returns.  The kernel that ignores conflicts adds no count to a bin but  *)
(* loses some.                                                             *)
(***************************************************************************)
ImplementsHistogram == Counters!Spec
=============================================================================
