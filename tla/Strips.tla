------------------------------- MODULE Strips -------------------------------
(***************************************************************************)
(* The vector loops of bench/memset.S and bench/utf8_count.S, the loop     *)
(* over words of utf8_count.c (SWAR), the scalar loops they are compared   *)
(* with, and memrand of nolibc.h.  They cut len bytes into chunks:         *)
(*                                                                         *)
(*   rvv      vl is what vsetvli makes of the bytes that are left          *)
(*   align    a short first chunk makes the address a multiple of VLMAX    *)
(*   vlmax    a short first chunk makes n a multiple of VLMAX              *)
(*   tail     equal chunks of the first vl, then the remainder             *)
(*   cap      (rvv_128) the same with the first vl limited to 128 bits     *)
(*   tail_4x  rounds of four chunks of the first vl, then as rvv           *)
(*   4x       as rvv, but only every fourth chunk is followed by a test    *)
(*   4x_tail  rounds of four full groups while they fit, then as rvv       *)
(*   swar     bytes up to a multiple of the word, words, bytes             *)
(*   memrand  the same for random numbers, but a last word is bytes        *)
(*   scalar   bytes                                                        *)
(*                                                                         *)
(* memset stores copies of a byte that it put in a register group before;  *)
(* only as many as the vl at that time are there.                          *)
(***************************************************************************)
EXTENDS Vsetvl

CONSTANTS
  VLMAX,     \* bytes of a register group; a power of two
  MaxLen,
  CapBytes,  \* 128/8
  Word       \* sizeof(ux)

VARIABLES
  function, kernel,  \* what was called
  grant,    \* what vsetvli answers: the same to the same question
  addr,     \* the address of the first byte, as far as it matters
  len, pc,
  n,        \* bytes left; in a block kernel: in whole rounds
  p,        \* the pointer, relative to the first byte
  vl,       \* the vector length in force
  tail,     \* bytes after the rounds
  quarter,  \* chunks of 4x since the last test
  filled,   \* memset: elements of v8 that hold the byte
  touched   \* how often each byte was stored to or counted

call == << function, kernel, grant, addr, len >>
vars == << call, pc, n, p, vl, tail, quarter, filled, touched >>

Functions == { "memset", "utf8_count", "memrand" }
Kernels(f) ==
  CASE f = "memset"     -> { "rvv", "align", "vlmax", "tail", "tail_4x", "scalar" }
    [] f = "utf8_count" -> { "rvv", "align", "vlmax", "tail", "cap", "4x", "4x_tail",
                             "swar", "scalar" }
    [] f = "memrand"    -> { "memrand" }

\* the bytes, and room to overrun
Cells == 0 .. MaxLen + 4 * VLMAX - 1

\* what a processor may do: it has a choice for some lengths only
Choices    == { avl \in 0 .. MaxLen : avl > VLMAX /\ avl < 2 * VLMAX }
Processors ==
  { [avl \in 0 .. MaxLen |->
       IF avl \in Choices THEN c[avl] ELSE IF avl < VLMAX THEN avl ELSE VLMAX] :
    c \in { f \in [Choices -> 0 .. VLMAX] :
              \A avl \in Choices : f[avl] \in LegalVl(avl, VLMAX) } }

Init ==
  /\ function \in Functions /\ kernel \in Kernels(function)
  /\ grant \in Processors
  /\ addr \in 0 .. (IF kernel \in { "swar", "memrand" } THEN Word ELSE VLMAX) - 1
  /\ len \in 0 .. MaxLen
  /\ pc = "enter"
  /\ n = len /\ p = 0 /\ vl = 0 /\ tail = 0 /\ quarter = 0 /\ filled = 0
  /\ touched = [i \in Cells |-> 0]

-----------------------------------------------------------------------------
\* k bytes from p on are stored to, or counted
Handle(k) ==
  /\ p' = p + k
  /\ touched' = [i \in Cells |-> IF i \in p .. p + k - 1 THEN touched[i] + 1
                                                         ELSE touched[i]]

Fill(k) == filled' = IF function = "memset" THEN k ELSE 0

EnterLoop ==
  /\ pc = "enter" /\ kernel \in { "rvv", "4x" }
  /\ Fill(VLMAX)
  /\ pc' = "strip"
  /\ UNCHANGED << call, n, p, vl, tail, quarter, touched >>

Aligning == (-addr) % VLMAX

EnterAlign ==
  /\ pc = "enter" /\ kernel = "align"
  /\ Fill(VLMAX)
  /\ IF n < VLMAX THEN vl' = grant[n] /\ pc' = IF n = 0 THEN "done" ELSE "chunk"
                  ELSE vl' = grant[Aligning] /\ pc' = "chunk"
  /\ UNCHANGED << call, n, p, tail, quarter, touched >>

\* n & (VLMAX-1)
Masked == n % VLMAX

EnterVlmax ==
  /\ pc = "enter" /\ kernel = "vlmax"
  /\ Fill(VLMAX)
  /\ vl' = grant[Masked]
  /\ pc' = "chunk"
  /\ UNCHANGED << call, n, p, tail, quarter, touched >>

FirstVl == IF kernel = "cap" /\ n > CapBytes THEN grant[CapBytes] ELSE grant[n]

\* bytes of a round of block kernels, when chunks have v bytes
Round(v) == IF kernel \in { "tail_4x", "4x_tail" } THEN 4 * v ELSE v

EnterTail ==
  /\ pc = "enter" /\ kernel \in { "tail", "cap" }
  /\ vl' = FirstVl
  /\ Fill(FirstVl)
  /\ tail' = Remu(n, FirstVl)
  /\ n' = n - tail'
  /\ pc' = "round"
  /\ UNCHANGED << call, p, quarter, touched >>

EnterTail4x ==
  /\ pc = "enter" /\ kernel = "tail_4x"
  /\ vl' = FirstVl
  /\ Fill(FirstVl)
  /\ IF n < Round(FirstVl)
       THEN pc' = "strip" /\ UNCHANGED << n, tail >>
       ELSE /\ tail' = Remu(n, Round(FirstVl))
            /\ n' = n - tail'
            /\ pc' = "round"
  /\ UNCHANGED << call, p, quarter, touched >>

\* the end of the bytes is not before the end of the round from q on
RoomForRound(q) == len >= q + Round(VLMAX)

Enter4xTail ==
  /\ pc = "enter" /\ kernel = "4x_tail"
  /\ vl' = VLMAX
  /\ pc' = IF RoomForRound(0) THEN "round" ELSE IF n = 0 THEN "done" ELSE "strip"
  /\ UNCHANGED << call, n, p, tail, quarter, filled, touched >>

\* mutant: vsetvli answers differently when it is asked again
GrantedMost == IF n < VLMAX THEN n ELSE VLMAX

\* a chunk whose length vsetvli grants from what is left
Granted == grant[n]

Strip ==
  /\ pc = "strip"
  /\ vl' = Granted
  /\ Handle(vl')
  /\ n' = n - vl'
  /\ quarter' = IF kernel = "4x" THEN (quarter + 1) % 4 ELSE 0
  /\ pc' = IF quarter' = 0 /\ n' = 0 THEN "done" ELSE "strip"
  /\ UNCHANGED << call, tail, filled >>

\* a chunk whose length was set before
Chunk ==
  /\ pc = "chunk"
  /\ Handle(vl)
  /\ n' = n - vl
  /\ vl' = IF kernel = "align" THEN grant[n'] ELSE VLMAX
  /\ pc' = IF n' = 0 THEN "done" ELSE "chunk"
  /\ UNCHANGED << call, tail, quarter, filled >>

\* mutant: the loop goes on at its end
MoreRoundsOrEqual == IF kernel = "4x_tail" THEN RoomForRound(p') ELSE p' =< n

MoreRounds == IF kernel = "4x_tail" THEN RoomForRound(p') ELSE p' < n

\* one chunk, or four of them one after the other
WholeRound ==
  /\ pc = "round"
  /\ Handle(Round(vl))
  /\ n' = CASE kernel = "4x_tail" -> n - Round(vl)
            [] kernel = "tail_4x" /\ ~MoreRounds -> tail
            [] OTHER -> n
  /\ pc' = IF MoreRounds THEN "round"
             ELSE CASE kernel \in { "tail", "cap" } -> "tail"
                    [] kernel = "4x_tail" /\ n' = 0 -> "done"
                    [] OTHER -> "strip"
  /\ UNCHANGED << call, vl, tail, quarter, filled >>

Tail ==
  /\ pc = "tail"
  /\ vl' = grant[tail]
  /\ Handle(vl')
  /\ pc' = "done"
  /\ UNCHANGED << call, n, tail, quarter, filled >>

\* from 1 to Word bytes
Head == Word - (addr % Word)

EnterSwar ==
  /\ pc = "enter" /\ kernel = "swar"
  /\ IF n < Word
       THEN vl' = n /\ n' = 0 /\ tail' = 0
       ELSE vl' = Head /\ n' = n - Head /\ tail' = (n - Head) % Word
  /\ pc' = "head"
  /\ UNCHANGED << call, p, quarter, filled, touched >>

SwarHead ==
  /\ pc = "head"
  /\ Handle(vl)
  /\ n' = n \div Word
  /\ pc' = "words"
  /\ UNCHANGED << call, vl, tail, quarter, filled >>

SwarWord ==
  /\ pc = "words" /\ n > 0
  /\ Handle(Word)
  /\ n' = n - 1
  /\ UNCHANGED << call, pc, vl, tail, quarter, filled >>

SwarTail ==
  /\ pc = "words" /\ n = 0
  /\ Handle(tail)
  /\ pc' = "done"
  /\ UNCHANGED << call, n, vl, tail, quarter, filled >>

AtWord == (addr + p) % Word = 0

\* memrand: bytes while the address is no multiple of the word, and again
\* when a word or less is left
RandByte ==
  /\ pc \in { "enter", "bytes" } /\ kernel = "memrand" /\ n > 0
  /\ pc = "enter" => ~AtWord
  /\ Handle(1)
  /\ n' = n - 1
  /\ UNCHANGED << call, pc, vl, tail, quarter, filled >>

RandWordFits == n > Word

RandWord ==
  /\ pc = "enter" /\ kernel = "memrand" /\ AtWord /\ RandWordFits
  /\ Handle(Word)
  /\ n' = n - Word
  /\ UNCHANGED << call, pc, vl, tail, quarter, filled >>

RandRest ==
  /\ pc = "enter" /\ kernel = "memrand"
  /\ n = 0 \/ (AtWord /\ ~RandWordFits)
  /\ pc' = "bytes"
  /\ UNCHANGED << call, n, p, vl, tail, quarter, filled, touched >>

ScalarByte ==
  /\ pc = "enter" /\ kernel = "scalar" /\ n > 0
  /\ Handle(1)
  /\ n' = n - 1
  /\ UNCHANGED << call, pc, vl, tail, quarter, filled >>

ScalarReturn ==
  /\ n = 0 /\ \/ pc = "enter" /\ kernel = "scalar"
              \/ pc = "bytes" /\ kernel = "memrand"
  /\ pc' = "done"
  /\ UNCHANGED << call, n, p, vl, tail, quarter, filled, touched >>

Terminating == pc = "done" /\ UNCHANGED vars

Next ==
  \/ EnterLoop \/ EnterAlign \/ EnterVlmax \/ EnterTail \/ EnterTail4x
  \/ Enter4xTail \/ EnterSwar
  \/ Strip \/ Chunk \/ WholeRound \/ Tail
  \/ SwarHead \/ SwarWord \/ SwarTail
  \/ RandByte \/ RandWord \/ RandRest
  \/ ScalarByte \/ ScalarReturn
  \/ Terminating

-----------------------------------------------------------------------------
(* Properties.                                                             *)

\* Every variable holds what the code can put there: n never wraps.
TypeOK ==
  /\ function \in Functions /\ kernel \in Kernels(function)
  /\ addr \in 0 .. VLMAX + Word /\ len \in 0 .. MaxLen
  /\ pc \in { "enter", "strip", "chunk", "round", "tail", "head", "words",
              "bytes", "done" }
  /\ n \in 0 .. len /\ p \in 0 .. len
  /\ vl \in 0 .. VLMAX + Word /\ tail \in 0 .. len /\ quarter \in 0 .. 3
  /\ filled \in 0 .. VLMAX
  /\ touched \in [Cells -> Nat]

(***************************************************************************)
(* memset stores no element of v8 that was not filled.  tail_4x fills as   *)
(* many as the first vsetvli grants and goes on to ask for less, sometimes *)
(* for the same: it relies on the answer being the same.                   *)
(***************************************************************************)
FilledOnly ==
  pc \in { "strip", "chunk", "round", "tail" }
    => (IF pc \in { "strip", "tail" } THEN vl' ELSE vl) =< filled

(***************************************************************************)
(* After its first chunk the align kernel accesses full register groups    *)
(* only at multiples of VLMAX, and SWAR reads words at multiples of theirs.*)
(***************************************************************************)
AccessesAligned ==
  /\ pc = "chunk" /\ kernel = "align" /\ p > 0 /\ vl = VLMAX
       => (addr + p) % VLMAX = 0
  /\ pc = "words" /\ n > 0 => AtWord
=============================================================================
