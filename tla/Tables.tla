------------------------------- MODULE Tables -------------------------------
(***************************************************************************)
(* The kernels of bench/ that change every element by itself:              *)
(*                                                                         *)
(*   LUT4, LUT6            a byte, in place, to its entry in a table of 16 *)
(*                         or 64 bytes: by an indexed load, or by gathers  *)
(*                         from the registers that hold the table          *)
(*   byteswap32            a word, in place, to its bytes reversed: by     *)
(*                         vrev8, by a segment load and store, or by       *)
(*                         gathers                                         *)
(*   ascii_to_utf16, _32   a byte to a word: by a segment store, by an     *)
(*                         extension, or by a strided store over zeros     *)
(*                                                                         *)
(* All go in chunks of as many elements as vsetvli grants.  Byte j of the  *)
(* source is represented by j.                                             *)
(***************************************************************************)
EXTENDS Integers

CONSTANTS VLMAX, MaxLen

VARIABLES
  function, kernel,
  grant,     \* what vsetvli answers (module Strips)
  table,     \* bytes of the table
  len, pc,
  n,         \* elements left
  p,         \* elements done
  vl,
  t1, t0,    \* LUT6: whether a register, whether two are too small; and later
             \* what vsetvli put in t1
  touched    \* the bytes that are written

bvars == << function, kernel, grant, table, len, pc, n, p, vl, t1, t0, touched >>

Functions == { "LUT4", "LUT6", "byteswap32", "ascii_to_utf16", "ascii_to_utf32" }
Kernels(f) ==
  { "scalar" } \cup
  CASE f = "LUT4"       -> { "vluxei8", "vrgather", "m1_vrgathers" }
    [] f = "LUT6"       -> { "vluxei8", "vrgather", "m1m2m4_vrgathers" }
    [] f = "byteswap32" -> { "vrev8", "seg4", "vrgatherei16", "m1_vrgatherei16s" }
    [] OTHER            -> { "vsseg", "ext", "vss" }

Size == CASE function \in { "LUT4", "LUT6" } -> 1
          [] function = "ascii_to_utf16"     -> 2
          [] OTHER                           -> 4

\* bytes of a register, of which a group has four
Register == (Size * VLMAX) \div 4

\* what is not a byte of the source
NotStored == -1
Zero      == -2
Entry(j)  == MaxLen + j    \* the table's entry for byte j

InPlaceFunction == function \in { "LUT4", "LUT6", "byteswap32" }

(***************************************************************************)
(* LUT4's table fits in a register, which has at least 16 bytes; LUT6's in *)
(* one, two or four.                                                       *)
(***************************************************************************)
TablesInit ==
  /\ function \in Functions /\ kernel \in Kernels(function)
  /\ len \in 0 .. MaxLen
  /\ table \in CASE function = "LUT4" -> { Register }
                 [] function = "LUT6" -> { Register, 2 * Register, 4 * Register }
                 [] OTHER             -> { 0 }
  /\ pc = "loop" /\ n = len /\ p = 0 /\ vl = 0
  /\ t1 = IF Register < table THEN 1 ELSE 0
  /\ t0 = IF 2 * Register < table THEN 1 ELSE 0
  /\ touched = [j \in 0 .. Size * MaxLen - 1 |->
                  IF InPlaceFunction THEN j ELSE NotStored]

\* the next k elements are stored: byte j becomes made(j)
Store(k, made(_)) ==
  touched' = [j \in DOMAIN touched |->
                IF j \in Size * p .. Size * (p + k) - 1 THEN made(j) ELSE touched[j]]

Advance(k) ==
  /\ vl' = k /\ n' = n - k /\ p' = p + k
  /\ pc' = IF n' = 0 THEN "done" ELSE "loop"

\* a gather from reach bytes finds zero beyond; the byte is masked before
LookedUp(x, reach) ==
  IF x \in 0 .. MaxLen - 1 /\ table =< reach THEN Entry(x) ELSE Zero

\* bytes of the registers that LUT6 gathers from
Reach ==
  IF kernel # "m1m2m4_vrgathers" THEN table
  ELSE IF t1 = 0 THEN Register ELSE IF t0 = 0 THEN 2 * Register ELSE 4 * Register

LookUp ==
  /\ function \in { "LUT4", "LUT6" } /\ kernel # "scalar" /\ pc = "loop"
  /\ Store(grant[n], LAMBDA j : LookedUp(touched[j], Reach))
  /\ Advance(grant[n])
  /\ t1' = IF kernel # "m1m2m4_vrgathers" \/ (t1 # 0 /\ t0 # 0) THEN t1
           ELSE IF t1 = 0 THEN Register ELSE 2 * Register
  /\ UNCHANGED << function, kernel, grant, table, len, t0 >>

\* the byte that comes to j
Reversed(j) == j + 3 - 2 * (j % 4)

\* mutant: the bytes of a double word
IndexOf8(e) == (e \div 8) * 8 + (7 - (e % 8))

\* for byte e of a register, or of a group
Index(e) == (e \div 4) * 4 + (3 - (e % 4))

Gathered(j, bytes) == LET e == j - Size * p
                      IN  touched[Size * p + (e \div bytes) * bytes + Index(e % bytes)]

Swap ==
  /\ function = "byteswap32" /\ kernel # "scalar" /\ pc = "loop"
  /\ Store(grant[n], LAMBDA j :
       CASE kernel = "vrgatherei16"         -> Gathered(j, 4 * VLMAX)
         [] kernel = "m1_vrgatherei16s"     -> Gathered(j, Register)
         [] kernel \in { "vrev8", "seg4" }  -> touched[Reversed(j)])
  /\ Advance(grant[n])
  /\ UNCHANGED << function, kernel, grant, table, len, t1, t0 >>

Widened(j) == IF j % Size = 0 THEN j \div Size ELSE Zero

Widen ==
  /\ ~InPlaceFunction /\ kernel \in { "vsseg", "ext" } /\ pc = "loop"
  /\ Store(grant[n], Widened)
  /\ Advance(grant[n])
  /\ UNCHANGED << function, kernel, grant, table, len, t1, t0 >>

\* vse16.v, vse32.v of zeros
StoreZeros ==
  /\ ~InPlaceFunction /\ kernel = "vss" /\ pc = "loop"
  /\ vl' = grant[n]
  /\ Store(vl', LAMBDA j : Zero)
  /\ pc' = "bytes"
  /\ UNCHANGED << function, kernel, grant, table, len, n, p, t1, t0 >>

StoreBytes ==
  /\ pc = "bytes"
  /\ Store(grant[n], LAMBDA j : IF j % Size = 0 THEN j \div Size ELSE touched[j])
  /\ Advance(grant[n])
  /\ UNCHANGED << function, kernel, grant, table, len, t1, t0 >>

ScalarElement ==
  /\ kernel = "scalar" /\ pc = "loop"
  /\ IF n = 0
       THEN pc' = "done" /\ UNCHANGED << n, p, touched >>
       ELSE /\ Store(1, LAMBDA j :
                 CASE function \in { "LUT4", "LUT6" } -> LookedUp(touched[j], table)
                   [] function = "byteswap32"         -> touched[Reversed(j)]
                   [] OTHER                           -> Widened(j))
            /\ n' = n - 1 /\ p' = p + 1
            /\ UNCHANGED pc
  /\ UNCHANGED << function, kernel, grant, table, len, vl, t1, t0 >>

TablesNext == \/ LookUp \/ Swap \/ Widen \/ StoreZeros \/ StoreBytes \/ ScalarElement
              \/ pc = "done" /\ UNCHANGED bvars

-----------------------------------------------------------------------------
(* Properties.                                                             *)

\* Every variable holds what the code can put there: n never wraps.
TablesTypeOK ==
  /\ pc \in { "loop", "bytes", "done" }
  /\ n \in 0 .. len /\ p = len - n /\ vl \in 0 .. VLMAX
  /\ t1 \in { 0, 1, Register, 2 * Register } /\ t0 \in { 0, 1 }

\* Every byte of the elements that are done is the right one, and no other
\* has changed, but those that vss is at; all are done when the call returns.
TablesInPlace ==
  /\ pc = "done" => p = len
  /\ \A j \in DOMAIN touched :
       \/ j \div Size < p /\ touched[j] =
            CASE function \in { "LUT4", "LUT6" } -> Entry(j)
              [] function = "byteswap32"         -> Reversed(j)
              [] OTHER                           -> Widened(j)
       \/ j \div Size >= p /\ touched[j] = (IF InPlaceFunction THEN j ELSE NotStored)
       \/ pc = "bytes" /\ j \div Size \in p .. p + vl - 1
=============================================================================
