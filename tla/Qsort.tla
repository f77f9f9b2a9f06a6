------------------------------- MODULE Qsort -------------------------------
(***************************************************************************)
(* qsort of nolibc.h, which bench_time and the instruction benchmarks sort *)
(* their samples with.  The pivot is an element of the array and moves     *)
(* when it is swapped; nothing but the elements themselves stops the two   *)
(* scans.                                                                  *)
(*                                                                         *)
(* A call works on the elements base .. base + len - 1 and calls itself    *)
(* for the part before l and then for the part after h.  The calls that    *)
(* are running or still to be made are kept in the order they are made.    *)
(***************************************************************************)
EXTENDS Integers, Sequences

CONSTANTS
  Values,   \* the elements
  MaxLen,   \* bound on their number
  Word      \* 2^w for the w bits of size_t

ASSUME ValuesAssumption == Values \subseteq Int
ASSUME WordAssumption   == MaxLen \in Nat /\ Word \in Nat /\ Word > MaxLen

VARIABLES
  a,        \* the array
  calls,    \* the calls from the running one on: where, and how long
  pc,
  pivot,
  l, h

vars == << a, calls, pc, pivot, l, h >>

Cells == DOMAIN a
base  == calls[1].base
len   == calls[1].len

\* element i of the part the running call sorts
Element(i) == a[base + i]

Init ==
  /\ \E n \in 0 .. MaxLen :
       /\ a \in [0 .. n - 1 -> Values]
       /\ calls = << [base |-> 0, len |-> n] >>
  /\ pc = "call"
  /\ pivot = 0 /\ l = 0 /\ h = 0

-----------------------------------------------------------------------------
Short ==
  /\ pc = "call" /\ calls # << >> /\ len < 2
  /\ calls' = Tail(calls)
  /\ UNCHANGED << a, pc, pivot, l, h >>

Enter ==
  /\ pc = "call" /\ calls # << >> /\ len >= 2
  /\ pivot' = len \div 2
  /\ l' = 0
  /\ h' = len - 1
  /\ pc' = "up"
  /\ UNCHANGED << a, calls >>

\* mutant: equal elements do not stop the scan
BelowPivotOrEqual(i) == Element(i) =< Element(pivot)

BelowPivot(i) == Element(i) < Element(pivot)

ScanUp ==
  /\ pc = "up"
  /\ IF BelowPivot(l) THEN l' = (l + 1) % Word /\ UNCHANGED pc
                      ELSE pc' = "down" /\ UNCHANGED l
  /\ UNCHANGED << a, calls, pivot, h >>

\* mutant: equal elements do not stop the scan
AbovePivotOrEqual(i) == Element(i) >= Element(pivot)

AbovePivot(i) == Element(i) > Element(pivot)

ScanDown ==
  /\ pc = "down"
  /\ IF AbovePivot(h) THEN h' = (h - 1) % Word /\ UNCHANGED pc
                      ELSE pc' = "meet" /\ UNCHANGED h
  /\ UNCHANGED << a, calls, pivot, l >>

\* mutant: memswap without its temporary
Overwritten(x, y) == [a EXCEPT ![base + x] = Element(y)]

\* memswap
Swapped(x, y) == [a EXCEPT ![base + x] = Element(y), ![base + y] = Element(x)]

MovedPivot == IF pivot = l THEN h ELSE IF pivot = h THEN l ELSE pivot

Swap ==
  /\ pc = "meet" /\ l < h
  /\ a' = Swapped(l, h)
  /\ pivot' = MovedPivot
  /\ l' = l + 1
  /\ h' = h - 1
  /\ pc' = "up"
  /\ UNCHANGED calls

\* mutant: the first part ends before h
PartsToH == << [base |-> base, len |-> h],
               [base |-> base + h + 1, len |-> (len - h - 1) % Word] >>

Parts == << [base |-> base, len |-> l],
            [base |-> base + h + 1, len |-> (len - h - 1) % Word] >>

Split ==
  /\ pc = "meet" /\ l >= h
  /\ calls' = Parts \o Tail(calls)
  /\ pc' = "call"
  /\ UNCHANGED << a, pivot, l, h >>

Returned == calls = << >>

Terminating == Returned /\ UNCHANGED vars

Next ==
  \/ Short \/ Enter \/ ScanUp \/ ScanDown \/ Swap \/ Split
  \/ Terminating

\* the only thread sorts, and nothing in it waits
Spec == Init /\ [][Next]_vars /\ WF_vars(Next)

-----------------------------------------------------------------------------
(* Properties.                                                             *)

\* Every variable holds what the code can put there.
TypeOK ==
  /\ \E n \in 0 .. MaxLen : a \in [0 .. n - 1 -> Values]
  /\ calls \in Seq([base : Nat, len : 0 .. MaxLen])
  /\ pc \in { "call", "up", "down", "meet" }
  /\ pivot \in 0 .. MaxLen /\ l \in 0 .. MaxLen /\ h \in 0 .. MaxLen

Part(c) == c.base .. c.base + c.len - 1

(***************************************************************************)
(* The scans have no bounds check: an element that stops them lies before  *)
(* the end of the part, and h does not pass zero, where it would wrap.     *)
(***************************************************************************)
ScansInside ==
  /\ \A i \in 1 .. Len(calls) : Part(calls[i]) \subseteq Cells
  /\ pc # "call" => l < len /\ h < len /\ pivot < len

(***************************************************************************)
(* Elements a call will not exchange any more are in order: any two that   *)
(* are not together in a part still to be sorted.  When the calls are all  *)
(* made, the array is sorted.                                              *)
(***************************************************************************)
RestInOrder ==
  \A x, y \in Cells :
    x < y => \/ \E i \in 1 .. Len(calls) : {x, y} \subseteq Part(calls[i])
             \/ a[x] =< a[y]

Abstract == INSTANCE Sorting WITH returned <- Returned

(***************************************************************************)
(* qsort sorts: no step takes an element away or moves a larger one before *)
(* a smaller one, and every call returns.                                  *)
(***************************************************************************)
ImplementsSorting == Abstract!Spec
=============================================================================
