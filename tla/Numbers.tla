------------------------------ MODULE Numbers ------------------------------
(***************************************************************************)
(* Functions of nolibc.h on numbers:                                       *)
(*                                                                         *)
(*   usqrt   which the mandelbrot benchmark makes the width of its picture *)
(*           with: a binary search in numbers of a fixed width             *)
(*   uxtoa   an integer in decimal                                         *)
(*   ftoa    the same with prec digits after the point, for the numbers    *)
(*           the programs print, none of which is negative                 *)
(*                                                                         *)
(* Digits are made from the last to the first.  A floating point number is *)
(* a multiple of 1/Scale, and its arithmetic exact.                        *)
(***************************************************************************)
EXTENDS Integers, Sequences

CONSTANTS
  Modulus,    \* of the arithmetic of ux, 2 to the number of its bits
  MaxSquare,  \* the largest y of usqrt
  MaxNumber,  \* the largest number that is printed, for ftoa times Scale
  Scale,
  MaxPrec,    \* entries of pow10 after the first
  UXTOA_MAX   \* characters of the buffer of uxtoa

VARIABLES
  function,
  len,       \* y, or val
  pc,
  p, n,      \* usqrt: L and R; else what is left of frac, and of val or ival
  asked,     \* prec, in the call
  prec,
  text       \* the characters from it on

qvars == << function, len, pc, p, n, asked, prec, text >>

Functions == { "usqrt", "uxtoa", "ftoa" }

ToWidth(x) == x % Modulus

Point == 10    \* no digit

\* powers of ten; the table in ftoa has the first MaxPrec + 1
pow10[k \in 0 .. UXTOA_MAX] == IF k = 0 THEN 1 ELSE 10 * pow10[k - 1]

\* the fraction, and prec after prec > 9 ? 9 : prec
Fraction(val, k) == ((val % Scale) * pow10[k]) \div Scale
Capped(k)        == IF k > MaxPrec THEN MaxPrec ELSE k

Init ==
  /\ function \in Functions
  /\ text = << >>
  /\ \/ /\ function = "usqrt" /\ len \in 0 .. MaxSquare
        /\ pc = "search" /\ p = 0 /\ n = ToWidth(len + 1) /\ asked = 0 /\ prec = 0
     \/ /\ function = "uxtoa" /\ len \in 0 .. MaxNumber
        /\ pc = "digits" /\ p = 0 /\ n = len /\ asked = 0 /\ prec = 0
     \/ /\ function = "ftoa" /\ len \in 0 .. MaxNumber
        /\ asked \in 1 .. MaxPrec + 1 /\ prec = Capped(asked)
        /\ pc = "fraction" /\ p = Fraction(len, prec) /\ n = len \div Scale

Middle == ToWidth(p + n) \div 2

AtMostRoot == ToWidth(Middle * Middle) =< len

Halve ==
  /\ pc = "search" /\ p # ToWidth(n - 1)
  /\ IF AtMostRoot THEN p' = Middle /\ UNCHANGED n ELSE n' = Middle /\ UNCHANGED p
  /\ UNCHANGED << function, len, pc, asked, prec, text >>

\* mutant: until nothing is left of frac
UntilZero == p' = 0

NoMoreDecimals == prec' = 0

\* do *--it = ... while ((frac /= 10, --prec)), and the point
Decimal ==
  /\ pc = "fraction"
  /\ p' = p \div 10 /\ prec' = prec - 1
  /\ text' = (IF NoMoreDecimals THEN << Point >> ELSE << >>) \o << p % 10 >> \o text
  /\ pc' = IF NoMoreDecimals THEN "digits" ELSE pc
  /\ UNCHANGED << function, len, n, asked >>

\* do *--it = ... while ((val /= 10)), and the copy to str
Digit ==
  /\ pc = "digits"
  /\ n' = n \div 10
  /\ text' = << n % 10 >> \o text
  /\ pc' = IF n' = 0 THEN "done" ELSE pc
  /\ UNCHANGED << function, len, p, asked, prec >>

Return ==
  /\ pc = "search" /\ p = ToWidth(n - 1)
  /\ pc' = "done"
  /\ UNCHANGED << function, len, p, n, asked, prec, text >>

Terminating == pc = "done" /\ UNCHANGED qvars

Next == Halve \/ Decimal \/ Digit \/ Return \/ Terminating

-----------------------------------------------------------------------------
\* Every variable holds what the code can put there; uxtoa and ftoa stay in
\* their buffers.
TypeOK ==
  /\ function \in Functions /\ len \in 0 .. (IF function = "usqrt" THEN MaxSquare ELSE MaxNumber)
  /\ pc \in { "search", "fraction", "digits", "done" }
  /\ p \in 0 .. Modulus - 1 /\ n \in 0 .. Modulus - 1 /\ prec \in 0 .. MaxPrec
  /\ Len(text) =< UXTOA_MAX + (IF function = "ftoa" THEN MaxPrec + 1 ELSE 0)

(***************************************************************************)
(* The root is always between L and R, and L in the end, although y + 1    *)
(* and the square of the middle are cut to the width.                      *)
(***************************************************************************)
RootBetween ==
  function = "usqrt" =>
    /\ p * p =< len /\ len < n * n
    /\ pc = "done" => n = p + 1

\* what a sequence of digits denotes
Number(s) ==
  LET upTo[i \in 0 .. Len(s)] == IF i = 0 THEN 0 ELSE 10 * upTo[i - 1] + s[i]
  IN  upTo[Len(s)]

\* an integer in decimal
Denotes(s, v) == /\ \A i \in DOMAIN s : s[i] \in 0 .. 9
                 /\ Number(s) = v
                 /\ Len(s) > 0 /\ (s[1] = 0 => Len(s) = 1)

(***************************************************************************)
(* The text is the number: its digits without leading zeros, and for ftoa  *)
(* as many after the point as were asked for, zeros included, of what the  *)
(* number has, cut off.                                                    *)
(***************************************************************************)
TextRight ==
  pc = "done" =>
    /\ function = "uxtoa" => Denotes(text, len)
    /\ function = "ftoa" =>
         LET k == Len(text) - Capped(asked)
             f == SubSeq(text, k + 1, Len(text))
         IN  /\ k > 1 /\ text[k] = Point
             /\ Denotes(SubSeq(text, 1, k - 1), len \div Scale)
             /\ \A i \in DOMAIN f : f[i] \in 0 .. 9
             /\ LET rest == (len % Scale) * pow10[Capped(asked)] - Number(f) * Scale
                IN  0 =< rest /\ rest < Scale
=============================================================================
