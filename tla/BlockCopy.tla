----------------------------- MODULE BlockCopy -----------------------------
(***************************************************************************)
(* What every memcpy of bench/memcpy.S promises its caller: the destination*)
(* fills up with the source's bytes from the front, in pieces the caller   *)
(* cannot predict, nothing after byte len is ever touched, and the call    *)
(* returns when, and only when, all len bytes are there.                   *)
(***************************************************************************)
EXTENDS Integers

CONSTANTS Cells,      \* the destination bytes a caller can see
          Untouched   \* the value of a destination byte nothing was stored to

VARIABLES len,        \* number of bytes asked for
          copied,     \* number of bytes already there
          dest,       \* dest[i]: the index of the source byte stored at i
          returned    \* has the call returned?

vars == << len, copied, dest, returned >>

\* the destination when its first k bytes, and no others, are copied
FirstBytes(k) == [i \in Cells |-> IF i < k THEN i ELSE Untouched]

Init ==
  /\ len \in Nat
  /\ copied = 0
  /\ dest = FirstBytes(0)
  /\ returned = FALSE

Copy ==
  /\ ~returned
  /\ copied' \in copied .. len
  /\ dest' = FirstBytes(copied')
  /\ returned' \in { FALSE, copied' = len }
  /\ UNCHANGED len

Next == Copy

SafeSpec == Init /\ [][Next]_vars

Spec == SafeSpec /\ <>returned
=============================================================================
