------------------------------- MODULE Strlen -------------------------------
(***************************************************************************)
(* The strlen kernels of bench/strlen.S and strlen.c, which do not know    *)
(* how far they may read: memory is sure to be there only in the pages     *)
(* that the string is in.                                                  *)
(***************************************************************************)
EXTENDS Integers

CONSTANTS
  VLMAX,      \* bytes of a register group
  Word,
  PageSize,   \* 4096
  MaxString

VARIABLES
  kernel,
  grant,      \* what vsetvli answers (module Strips)
  saddr,      \* address of the string in its page
  len,        \* the length of the string; what follows its zero is anything
  pc,
  p,          \* the pointer, relative to the string
  n,          \* bytes left to the end of the page
  tail,       \* what is returned
  access      \* the last read: << "src", offset, size >>

lvars == << kernel, grant, saddr, len, pc, p, n, tail, access >>

StrlenKernels == { "scalar", "musl", "rvv", "rvv_page_aligned" }

Init ==
  /\ kernel \in StrlenKernels
  /\ saddr \in 0 .. PageSize - 1
  /\ len \in 0 .. MaxString
  /\ pc = "enter" /\ p = 0 /\ n = 0 /\ tail = 0
  /\ access = {}

-----------------------------------------------------------------------------
Read(k) == access' = {<< "src", p, k >>}

\* mutant: the byte behind those is looked at too
FoundBehind(k) == len \in p .. p + k

\* is the zero among the k bytes from p on?  vfirst says where
Found(k) == len \in p .. p + k - 1

Page(i)     == (saddr + i) \div PageSize
Readable(i) == Page(i) =< Page(len)

\* vle8ff, after which vl says how much was read: the processor may stop after
\* any element, and has to before one that is not readable
FaultOnlyFirst ==
  /\ kernel = "rvv" /\ pc \in { "enter", "loop" }
  /\ \E k \in { v \in 1 .. VLMAX : Readable(p + v - 1) } :
       /\ Read(k)
       /\ p' = p + k
       /\ IF Found(k) THEN tail' = (p' + (len - p)) - k /\ pc' = "done"
                      ELSE pc' = "loop" /\ UNCHANGED tail
  /\ UNCHANGED << kernel, grant, saddr, len, n >>

\* mutant: the place of the string in its page is not looked at
PageLength == PageSize

\* -(-4096 | s)
PageRest == PageSize - (saddr % PageSize)

EnterPage ==
  /\ kernel = "rvv_page_aligned" /\ pc = "enter"
  /\ n' = PageRest
  /\ pc' = "page"
  /\ UNCHANGED << kernel, grant, saddr, len, p, tail, access >>

\* the first page is scanned to its end
ScanPage ==
  /\ pc = "page"
  /\ LET k == grant[n]
     IN  /\ Read(k)
         /\ p' = p + k
         /\ IF Found(k)
              THEN tail' = p' - k + (len - p) /\ pc' = "done" /\ UNCHANGED n
              ELSE /\ n' = n - k
                   /\ pc' = (IF n - k = 0 THEN "groups" ELSE "page")
                   /\ UNCHANGED tail
  /\ UNCHANGED << kernel, grant, saddr, len >>

\* and the pages after it by whole register groups
ScanGroup ==
  /\ pc = "groups"
  /\ Read(VLMAX)
  /\ p' = p + VLMAX
  /\ IF Found(VLMAX) THEN tail' = p' - VLMAX + (len - p) /\ pc' = "done"
                     ELSE UNCHANGED << tail, pc >>
  /\ UNCHANGED << kernel, grant, saddr, len, n >>

\* one byte is looked at
ByteStep(more) ==
  /\ Read(1)
  /\ IF Found(1) THEN tail' = p /\ pc' = "done" /\ UNCHANGED p
                 ELSE p' = p + 1 /\ pc' = more /\ UNCHANGED tail
  /\ UNCHANGED << kernel, grant, saddr, len, n >>

ScanBytes == kernel = "scalar" /\ pc = "enter" /\ ByteStep("enter")

AtWord == (saddr + p) % Word = 0

MuslHead == kernel = "musl" /\ pc = "enter" /\ ~AtWord /\ ByteStep("enter")

\* a word at a time while there is no zero in it
MuslWord ==
  /\ kernel = "musl" /\ AtWord /\ pc \in { "enter", "loop" }
  /\ Read(Word)
  /\ IF Found(Word) THEN pc' = "tail" /\ UNCHANGED p ELSE pc' = "loop" /\ p' = p + Word
  /\ UNCHANGED << kernel, grant, saddr, len, n, tail >>

MuslTail == kernel = "musl" /\ pc = "tail" /\ ByteStep("tail")

Terminating == pc = "done" /\ UNCHANGED lvars

Next ==
  \/ FaultOnlyFirst
  \/ EnterPage \/ ScanPage \/ ScanGroup
  \/ ScanBytes \/ MuslHead \/ MuslWord \/ MuslTail
  \/ Terminating

-----------------------------------------------------------------------------
(* Properties.                                                             *)

\* Every variable holds what the code can put there.
TypeOK ==
  /\ kernel \in StrlenKernels /\ len \in 0 .. MaxString
  /\ pc \in { "enter", "loop", "page", "groups", "tail", "done" }
  /\ p \in 0 .. len + VLMAX /\ n \in 0 .. PageSize /\ tail \in 0 .. len

(***************************************************************************)
(* Nothing is read in a page after the one the string ends in, where there *)
(* may be no memory, however much is read at a time.                       *)
(***************************************************************************)
ReadsInPages == \A a \in access : \A i \in a[2] .. a[2] + a[3] - 1 : Readable(i)

\* What is returned is the length of the string.
LengthRight == pc = "done" => tail = len
=============================================================================
