------------------------------- MODULE Vsetvl -------------------------------
(***************************************************************************)
(* The one instruction every kernel of this repository is built around:    *)
(* vsetvli rd, rs1.  It is given the application vector length avl (what   *)
(* is left to do) and answers with the vector length vl the next vector    *)
(* instructions work on.  The instruction is defined by the RISC-V V       *)
(* extension, not by this repository; single/uarch.c:47-48 measures which  *)
(* of the permitted answers a processor gives, and the kernels must be     *)
(* right for all of them.                                                  *)
(***************************************************************************)
EXTENDS Integers

(***************************************************************************)
(* The answers the instruction may give: avl itself when it fits in one    *)
(* register group, vlmax when there are at least two groups' worth, and    *)
(* in between anything that leaves at most as much as it takes.            *)
(***************************************************************************)
LegalVl(avl, vlmax) ==
  { vl \in 0 .. vlmax :
      /\ avl =< vlmax     => vl = avl
      /\ avl >= 2 * vlmax => vl = vlmax
      /\ avl < 2 * vlmax  => 2 * vl >= avl }

(***************************************************************************)
(* remu: the remainder of a division by zero is the dividend.              *)
(***************************************************************************)
Remu(a, b) == IF b = 0 THEN a ELSE a % b
=============================================================================
