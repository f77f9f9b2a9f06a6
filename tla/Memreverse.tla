----------------------------- MODULE Memreverse -----------------------------
(***************************************************************************)
(* The memreverse kernels of bench/memreverse.S and memreverse.c:          *)
(*                                                                         *)
(*   scalar  byte by byte                                                  *)
(*   vsse    a chunk is loaded, and stored with a stride of -1             *)
(*   vlse    a chunk is loaded with a stride of -1, from the end           *)
(*   gather  (vrgatherei16, m1_vrgatherei16) a full register group is      *)
(*           reversed by a gather of the group, or of each of its          *)
(*           registers, with indices made for that length; the rest as vsse*)
(*                                                                         *)
(* Source byte i is represented by i.                                      *)
(***************************************************************************)
EXTENDS Integers

CONSTANTS VLMAX, MaxLen

VARIABLES
  kernel,
  grant,    \* what vsetvli answers (module Strips)
  len, pc,
  n,        \* bytes left
  p,        \* bytes done
  vl,
  touched   \* the bytes of dest

wvars == << kernel, grant, len, pc, n, p, vl, touched >>

ReverseKernels == { "scalar", "vsse", "vlse", "vrgatherei16", "m1_vrgatherei16" }

NotStored == -1

Init ==
  /\ kernel \in ReverseKernels
  /\ len \in 0 .. MaxLen
  /\ pc = "loop" /\ n = len /\ p = 0 /\ vl = 0
  /\ touched = [i \in 0 .. MaxLen - 1 |-> NotStored]

Gathers == kernel \in { "vrgatherei16", "m1_vrgatherei16" }

\* a chunk of k bytes from src + p on becomes the k bytes up to dest + len - p,
\* the element at place e of it being byte from(e)
Store(k, from(_)) ==
  touched' = [i \in DOMAIN touched |->
                IF i \in len - p - k .. len - p - 1
                  THEN p + from(i - (len - p - k)) ELSE touched[i]]

ScalarStep ==
  /\ kernel = "scalar" /\ pc = "loop"
  /\ IF n = 0
       THEN pc' = "done" /\ UNCHANGED << n, p, vl, touched >>
       ELSE /\ touched' = [touched EXCEPT ![p] = len - p - 1]
            /\ p' = p + 1 /\ n' = n - 1
            /\ UNCHANGED << pc, vl >>
  /\ UNCHANGED << kernel, grant, len >>

\* from the beginning of src to the end of dest
VsseStep ==
  /\ kernel = "vsse" /\ pc = "loop"
  /\ vl' = grant[n]
  /\ Store(vl', LAMBDA e : vl' - 1 - e)
  /\ p' = p + vl' /\ n' = n - vl'
  /\ pc' = IF n' = 0 THEN "done" ELSE "loop"
  /\ UNCHANGED << kernel, grant, len >>

\* from the end of src, which is n bytes away, to the beginning of dest
VlseStep ==
  /\ kernel = "vlse" /\ pc = "loop"
  /\ vl' = grant[n]
  /\ touched' = [i \in DOMAIN touched |->
                   IF i \in p .. p + vl' - 1 THEN n - 1 - (i - p) ELSE touched[i]]
  /\ p' = p + vl' /\ n' = n - vl'
  /\ pc' = IF n' = 0 THEN "done" ELSE "loop"
  /\ UNCHANGED << kernel, grant, len >>

\* the elements a gather works on, for which the indices are made
GatherLen == IF kernel = "vrgatherei16" THEN VLMAX ELSE VLMAX \div 2

WholeGroup == n >= VLMAX

\* mutant: each register is reversed where it is
RegisterInPlace(e) == e \div GatherLen

\* the source register of element e of what is stored
Register(e) == VLMAX \div GatherLen - 1 - (e \div GatherLen)

GatherStep ==
  /\ Gathers /\ pc = "loop" /\ WholeGroup
  /\ vl' = VLMAX
  /\ Store(VLMAX, LAMBDA e : Register(e) * GatherLen
                               + (GatherLen - 1 - (e % GatherLen)))
  /\ p' = p + VLMAX /\ n' = n - VLMAX
  /\ UNCHANGED << kernel, grant, len, pc >>

\* less than a group, nothing included
GatherTail ==
  /\ Gathers /\ pc = "loop" /\ ~WholeGroup
  /\ vl' = grant[n]
  /\ Store(vl', LAMBDA e : vl' - 1 - e)
  /\ pc' = "done"
  /\ UNCHANGED << kernel, grant, len, n, p >>

Terminating == pc = "done" /\ UNCHANGED wvars

Next == ScalarStep \/ VsseStep \/ VlseStep \/ GatherStep \/ GatherTail \/ Terminating

-----------------------------------------------------------------------------
(* Properties.                                                             *)

\* Every variable holds what the code can put there: n never wraps.
TypeOK ==
  /\ kernel \in ReverseKernels /\ len \in 0 .. MaxLen
  /\ pc \in { "loop", "done" }
  /\ n \in 0 .. len /\ p \in 0 .. len /\ vl \in 0 .. VLMAX

\* Every byte that has been stored is the one of its place, none is stored
\* outside, and none is missing when the call returns.
InPlace ==
  \A i \in DOMAIN touched :
    /\ touched[i] \in { NotStored, len - 1 - i }
    /\ i >= len => touched[i] = NotStored
    /\ i < len /\ pc = "done" => touched[i] = len - 1 - i
=============================================================================
