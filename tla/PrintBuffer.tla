---------------------------- MODULE PrintBuffer ----------------------------
(***************************************************************************)
(* The output of nolibc.h: literal text and numbers are collected in       *)
(* printBuffer, which is written when there may be no room for more, when  *)
(* the program asks for it, and when main has returned.                    *)
(*                                                                         *)
(* A program is the sequence of things it prints.  Character k of all it   *)
(* prints is the number k; an item is what print_x is called for and the   *)
(* number of characters it consists of.                                    *)
(***************************************************************************)
EXTENDS Integers, Sequences, SequencesExt

CONSTANTS
  Size,        \* sizeof printBuffer (1024)
  UXTOA_MAX, FTOA_MAX,
  Programs

Kinds == { "raw", "u", "h", "b", "fn", "flush" }
Items == [kind : Kinds, len : Nat]

(***************************************************************************)
(* uxtoa and ftoa produce at most as many characters as they reserve: they *)
(* build them in a local array of that size.                               *)
(***************************************************************************)
ASSUME SizesAssumption ==
  /\ Size \in Nat /\ UXTOA_MAX \in 0 .. Size /\ FTOA_MAX \in 0 .. Size
ASSUME ProgramsAssumption ==
  \A p \in Programs :
    /\ p \in Seq(Items)
    /\ \A k \in DOMAIN p : /\ p[k].kind = "u"  => p[k].len \in 1 .. UXTOA_MAX
                           /\ p[k].kind = "fn" => p[k].len \in 1 .. FTOA_MAX

VARIABLES
  program,
  next,        \* the item that is printed next
  asked,       \* characters produced for the items before
  printBuffer, printIt,
  written      \* what memwrite was called with

vars == << program, next, asked, printBuffer, printIt, written >>

Init ==
  /\ program \in Programs
  /\ next = 1 /\ asked = 0
  /\ printBuffer = [k \in 0 .. Size - 1 |-> 0] /\ printIt = 0
  /\ written = << >>

-----------------------------------------------------------------------------
Room == Size - printIt
Item == program[next]

Contents == [k \in 1 .. printIt |-> printBuffer[k - 1]]
Chars(n) == [k \in 1 .. n |-> asked + k]

\* n characters are put in the buffer, which has just been flushed if "fresh"
Put(n, fresh) ==
  LET it == IF fresh THEN 0 ELSE printIt
  IN  /\ printBuffer' = [k \in DOMAIN printBuffer |->
                           IF k \in it .. it + n - 1 THEN asked + 1 + k - it
                                                     ELSE printBuffer[k]]
      /\ printIt' = it + n
      /\ written' = IF fresh THEN written \o Contents ELSE written

Start(kind) ==
  /\ next =< Len(program) /\ Item.kind = kind
  /\ next' = next + 1
  /\ UNCHANGED program

Flush ==
  /\ Start("flush")
  /\ Put(0, TRUE)
  /\ UNCHANGED asked

\* mutant: the buffer is emptied without being written
UnflushedText == written \o Chars(Item.len)

\* the output when the buffer is written and then text that does not fit in it
FlushedText == (written \o Contents) \o Chars(Item.len)

\* print_raw, print_s, print_c: text that does not fit is not buffered
Raw ==
  /\ Start("raw")
  /\ IF Room > Item.len
       THEN Put(Item.len, FALSE)
       ELSE /\ written' = FlushedText
            /\ printIt' = 0
            /\ UNCHANGED printBuffer
  /\ asked' = asked + Item.len

\* mutant: the buffer must only have some room
Full(max) == Room = 0

\* is there room for the longest number?
Short(max) == Room < max

Number(kind, max) ==
  /\ Start(kind)
  /\ Put(Item.len, Short(max))
  /\ asked' = asked + Item.len

Unsigned == Number("u", UXTOA_MAX)
Float    == Number("fn", FTOA_MAX)

\* print_h and print_b print nothing when they are asked for too many digits
HexDropped(n)    == 4 * n >= Size
BinaryDropped(n) == n >= Size

Digits(kind, dropped) ==
  /\ Start(kind)
  /\ IF dropped
       THEN UNCHANGED << asked, printBuffer, printIt, written >>
       ELSE /\ Put(Item.len, Room < Item.len)
            /\ asked' = asked + Item.len

Hex    == Digits("h", HexDropped(Item.len))
Binary == Digits("b", BinaryDropped(Item.len))

\* mutant: what is buffered when main returns is not written
NoFlushAtExit == UNCHANGED << printBuffer, printIt, written >>

FlushAtExit == Put(0, TRUE)

\* after main has returned
Exit ==
  /\ next = Len(program) + 1
  /\ next' = next + 1
  /\ FlushAtExit
  /\ UNCHANGED << program, asked >>

Exited == next = Len(program) + 2

Terminating == Exited /\ UNCHANGED vars

Next == \/ Flush \/ Raw \/ Unsigned \/ Float \/ Hex \/ Binary
        \/ Exit \/ Terminating

Spec == Init /\ [][Next]_vars /\ WF_vars(Next)

-----------------------------------------------------------------------------
(* Properties.                                                             *)

\* Every variable holds what the code can put there: printIt in the buffer.
TypeOK ==
  /\ program \in Seq(Items)
  /\ next \in 1 .. Len(program) + 2 /\ asked \in Nat
  /\ printBuffer \in [0 .. Size - 1 -> 0 .. asked] /\ printIt \in 0 .. Size
  /\ written \in Seq(1 .. asked)

(***************************************************************************)
(* No character is lost, printed twice or out of order, wherever the       *)
(* buffer was flushed: what was written and what is buffered are all there *)
(* is.                                                                     *)
(***************************************************************************)
NothingLost == written \o Contents = [k \in 1 .. asked |-> k]

\* the characters of an item
Length(item) ==
  CASE item.kind = "flush" -> 0
    [] item.kind = "h" -> IF HexDropped(item.len) THEN 0 ELSE item.len
    [] item.kind = "b" -> IF BinaryDropped(item.len) THEN 0 ELSE item.len
    [] OTHER -> item.len

OutputOf(p) ==
  [k \in 1 .. FoldLeft(LAMBDA n, item : n + Length(item), 0, p) |-> k]

Abstract == INSTANCE InOrderOutput
              WITH Result <- OutputOf, input <- program, out <- written,
                   returned <- Exited

\* What was written is never changed, and it is all of the output at exit.
ImplementsInOrderOutput == Abstract!Spec
=============================================================================
