---------------------------- MODULE QsortProofs ----------------------------
(***************************************************************************)
(* Theorems about Qsort, for arrays of every length and any integers.      *)
(***************************************************************************)
EXTENDS Qsort, TLAPS

USE ValuesAssumption, WordAssumption

Call == [base : Nat, len : Nat]

(***************************************************************************)
(* The inductive invariant, n being the length of the array.  The parts of *)
(* the calls lie one behind the other, and in the running call the         *)
(* elements passed by l are at most, those passed by h at least the pivot; *)
(* either scan has an element ahead that stops it.                         *)
(***************************************************************************)
ArrayOK(n) ==
  /\ a \in [0 .. n - 1 -> Values]
  /\ calls \in Seq(Call)
  /\ pc \in { "call", "up", "down", "meet" }
  /\ pivot \in 0 .. MaxLen /\ l \in 0 .. MaxLen /\ h \in 0 .. MaxLen

PartsInside(n) ==
  \A i \in 1 .. Len(calls) : calls[i].base + calls[i].len =< n

PartsApart ==
  \A i, j \in 1 .. Len(calls) :
    i < j => calls[i].base + calls[i].len =< calls[j].base

PivotElement == Element(pivot)

ScanOK ==
  /\ calls # << >>
  /\ pivot < len /\ l < len /\ h < len /\ l =< h + 1
  /\ \A i \in 0 .. len - 1 : /\ i < l => Element(i) =< PivotElement
                             /\ i > h => Element(i) >= PivotElement
  /\ \E i \in l .. len - 1 : Element(i) >= PivotElement
  /\ \E i \in 0 .. h : Element(i) =< PivotElement
  /\ pc # "up" => Element(l) >= PivotElement
  /\ pc = "meet" => Element(h) =< PivotElement

IInv(n) ==
  /\ ArrayOK(n)
  /\ PartsInside(n)
  /\ PartsApart
  /\ RestInOrder
  /\ pc # "call" => ScanOK

-----------------------------------------------------------------------------
(* Remainders, and sequences of calls.                                     *)

\* what fits in a word is not changed by wrapping
LEMMA RemainderOfSmall ==
  ASSUME NEW x \in Nat, NEW w \in Nat, x < w
  PROVE  x % w = x
  OBVIOUS

\* a sequence is one of the elements it has
LEMMA ElementsOfSeq ==
  ASSUME NEW S, NEW T, NEW s \in Seq(S), \A i \in 1 .. Len(s) : s[i] \in T
  PROVE  s \in Seq(T)
  OBVIOUS

\* what is left when the first call has returned
LEMMA TailOfCalls ==
  ASSUME NEW s \in Seq(Call), s # << >>
  PROVE  /\ Tail(s) \in Seq(Call)
         /\ Len(Tail(s)) = Len(s) - 1
         /\ \A i \in 1 .. Len(s) - 1 : Tail(s)[i] = s[i + 1]
         /\ Len(s) \in Nat /\ Len(s) >= 1
         /\ s[1] \in Call
  OBVIOUS

\* the call after which nothing is left
LEMMA LastOfCalls ==
  ASSUME NEW s \in Seq(Call), s # << >>, Tail(s) = << >>
  PROVE  Len(s) = 1 /\ s[1] \in Call
<1>1. Len(Tail(s)) = Len(s) - 1 /\ Len(s) \in Nat /\ s[1] \in Call
  BY TailOfCalls
<1>2. Len(Tail(s)) = Len(<< >>)
  OBVIOUS
<1>3. Len(<< >>) = 0
  OBVIOUS
<1>4. Len(s) - 1 = 0
  BY <1>1, <1>2, <1>3, Zenon
<1>5. \A m \in Nat : m - 1 = 0 => m = 1
  OBVIOUS
<1> QED BY <1>1, <1>4, <1>5, Zenon

\* what is left when the first call is replaced by two
LEMMA SplitOfCalls ==
  ASSUME NEW s \in Seq(Call), s # << >>, NEW p \in Call, NEW q \in Call,
         NEW t, t = << p, q >> \o Tail(s)
  PROVE  /\ t \in Seq(Call) /\ Len(s) \in Nat
         /\ Len(t) = Len(s) + 1
         /\ t[1] = p /\ t[2] = q
         /\ \A i \in 3 .. Len(t) : i - 1 \in 2 .. Len(s) /\ t[i] = s[i - 1]
         /\ \A i \in 2 .. Len(s) : i + 1 \in 3 .. Len(t) /\ t[i + 1] = s[i]
<1>1. /\ Tail(s) \in Seq(Call)
      /\ Len(Tail(s)) = Len(s) - 1
      /\ \A i \in 1 .. Len(s) - 1 : Tail(s)[i] = s[i + 1]
      /\ Len(s) \in Nat /\ Len(s) >= 1
  BY TailOfCalls
<1>2. << p, q >> \in Seq(Call) /\ Len(<< p, q >>) = 2
  OBVIOUS
<1>3. t \in Seq(Call) /\ Len(t) = Len(s) + 1
  BY <1>1, <1>2
<1>4. t[1] = p /\ t[2] = q
  BY <1>1, <1>2
<1>5. ASSUME NEW i \in 3 .. Len(t)
      PROVE  i - 1 \in 2 .. Len(s) /\ t[i] = s[i - 1]
  <2>1. t[i] = Tail(s)[i - 2]
    BY <1>1, <1>2, <1>3
  <2>2. i - 2 \in 1 .. Len(s) - 1
    BY <1>1, <1>3
  <2> QED BY <2>1, <2>2, <1>1
<1>6. ASSUME NEW i \in 2 .. Len(s)
      PROVE  i + 1 \in 3 .. Len(t) /\ t[i + 1] = s[i]
  <2>1. i + 1 \in 3 .. Len(t)
    BY <1>1, <1>3
  <2>2. t[i + 1] = s[(i + 1) - 1]
    BY <2>1, <1>5
  <2> QED BY <2>1, <2>2, <1>1
<1> QED BY <1>1, <1>3, <1>4, <1>5, <1>6

-----------------------------------------------------------------------------
LEMMA InitIInv == Init => \E n \in 0 .. MaxLen : IInv(n)
<1> SUFFICES ASSUME Init PROVE \E n \in 0 .. MaxLen : IInv(n)
  OBVIOUS
<1>1. PICK n \in 0 .. MaxLen :
        /\ a \in [0 .. n - 1 -> Values]
        /\ calls = << [base |-> 0, len |-> n] >>
  BY DEF Init
<1>2. ArrayOK(n)
  BY <1>1 DEF Init, ArrayOK, Call
<1>3. Len(calls) = 1 /\ calls[1] = [base |-> 0, len |-> n]
  BY <1>1
<1>4. PartsInside(n) /\ PartsApart
  BY <1>3 DEF PartsInside, PartsApart
<1>5. RestInOrder
  <2> SUFFICES ASSUME NEW x \in Cells, NEW y \in Cells
               PROVE  {x, y} \subseteq Part(calls[1])
    BY <1>3 DEF RestInOrder
  <2> QED BY <1>1, <1>3 DEF Cells, Part
<1> QED BY <1>2, <1>4, <1>5 DEF IInv, Init

-----------------------------------------------------------------------------
(* One lemma per action.                                                   *)

LEMMA ShortStep ==
  ASSUME NEW n \in 0 .. MaxLen, IInv(n), Short
  PROVE  IInv(n)'
<1> USE DEF Short, IInv
<1>1. /\ calls' \in Seq(Call) /\ Len(calls') = Len(calls) - 1
      /\ \A i \in 1 .. Len(calls') : calls'[i] = calls[i + 1]
      /\ Len(calls) \in Nat /\ calls[1] \in Call
  BY TailOfCalls DEF ArrayOK
<1>2. \A i \in 1 .. Len(calls') : i + 1 \in 1 .. Len(calls)
  BY <1>1
<1>3. ArrayOK(n)'
  BY <1>1 DEF ArrayOK
<1>4. PartsInside(n)'
  BY <1>1, <1>2 DEF PartsInside
<1>5. PartsApart'
  BY <1>1, <1>2 DEF PartsApart
<1>6. RestInOrder'
  <2> SUFFICES ASSUME NEW x \in Cells, NEW y \in Cells, x < y, ~(a[x] =< a[y])
               PROVE  \E i \in 1 .. Len(calls') : {x, y} \subseteq Part(calls'[i])
    BY DEF RestInOrder, Cells
  <2>1. PICK i \in 1 .. Len(calls) : {x, y} \subseteq Part(calls[i])
    BY DEF RestInOrder
  <2>2. i # 1
    BY <2>1, <1>1 DEF Part, len, Call, Cells, ArrayOK
  <2>3. i - 1 \in 1 .. Len(calls') /\ calls'[i - 1] = calls[i]
    BY <2>2, <1>1
  <2> QED BY <2>1, <2>3
<1> QED BY <1>3, <1>4, <1>5, <1>6

LEMMA RunningCall ==
  ASSUME NEW n \in 0 .. MaxLen, IInv(n), calls # << >>
  PROVE  /\ 1 \in 1 .. Len(calls)
         /\ base \in Nat /\ len \in Nat /\ base + len =< n
         /\ \A i \in 0 .. len - 1 : base + i \in Cells /\ Element(i) \in Int
         /\ Cells = 0 .. n - 1
<1>1. /\ Len(calls) \in Nat /\ Len(calls) >= 1 /\ calls[1] \in Call
  BY TailOfCalls DEF IInv, ArrayOK
<1>2. base \in Nat /\ len \in Nat /\ base + len =< n
  BY <1>1 DEF IInv, PartsInside, base, len, Call
<1> QED BY <1>1, <1>2 DEF IInv, ArrayOK, Element, Cells

LEMMA EnterStep ==
  ASSUME NEW n \in 0 .. MaxLen, IInv(n), Enter
  PROVE  IInv(n)'
<1> USE DEF Enter, IInv
<1>1. /\ base \in Nat /\ len \in Nat /\ base + len =< n
      /\ \A i \in 0 .. len - 1 : Element(i) \in Int
  BY RunningCall
<1>2. pivot' \in 0 .. len - 1
  BY <1>1
<1>3. ArrayOK(n)'
  BY <1>1, <1>2 DEF ArrayOK
<1>4. PartsInside(n)' /\ PartsApart' /\ RestInOrder'
  BY DEF PartsInside, PartsApart, RestInOrder, Cells
<1>5. /\ base' = base /\ len' = len
      /\ \A i \in 0 .. len - 1 : Element(i)' = Element(i)
  BY DEF base, len, Element
<1>6. PivotElement' = Element(pivot') /\ PivotElement' \in Int
  BY <1>1, <1>2, <1>5 DEF PivotElement, Element
<1>7. ScanOK'
  <2>1. calls' # << >> /\ pivot' < len' /\ l' < len' /\ h' < len' /\ l' =< h' + 1
    BY <1>1, <1>2, <1>5
  <2>2. \A i \in 0 .. len' - 1 : i >= l' /\ i =< h'
    BY <1>1, <1>5
  <2>3. pivot' \in l' .. len' - 1 /\ pivot' \in 0 .. h'
    BY <1>1, <1>2, <1>5
  <2>4. Element(pivot)' >= PivotElement' /\ Element(pivot)' =< PivotElement'
    BY <1>6 DEF PivotElement
  <2> QED BY <2>1, <2>2, <2>3, <2>4 DEF ScanOK
<1> QED BY <1>3, <1>4, <1>7

\* the parts of the invariant that a scan leaves alone
LEMMA ScansMoveNothing ==
  ASSUME NEW n \in 0 .. MaxLen, IInv(n), a' = a, calls' = calls, pivot' = pivot
  PROVE  /\ PartsInside(n)' /\ PartsApart' /\ RestInOrder'
         /\ base' = base /\ len' = len
         /\ \A i : Element(i)' = a[base + i]
         /\ PivotElement' = PivotElement
  BY DEF IInv, PartsInside, PartsApart, RestInOrder, Cells, base, len, Element,
         PivotElement

LEMMA ScanUpStep ==
  ASSUME NEW n \in 0 .. MaxLen, IInv(n), ScanUp
  PROVE  IInv(n)'
<1> USE DEF ScanUp, IInv
<1>1. ScanOK /\ ArrayOK(n)
  OBVIOUS
<1>2. /\ base \in Nat /\ len \in Nat /\ base + len =< n
      /\ \A i \in 0 .. len - 1 : Element(i) \in Int
  BY <1>1, RunningCall DEF ScanOK
<1>3. /\ PartsInside(n)' /\ PartsApart' /\ RestInOrder'
      /\ base' = base /\ len' = len
      /\ \A i : Element(i)' = a[base + i]
      /\ PivotElement' = PivotElement
  BY ScansMoveNothing
<1>4. /\ l \in 0 .. len - 1 /\ h \in 0 .. len - 1 /\ pivot \in 0 .. len - 1
      /\ PivotElement \in Int /\ Element(l) \in Int
  BY <1>1, <1>2 DEF ScanOK, ArrayOK, PivotElement
<1>5. CASE BelowPivot(l)
  <2>1. Element(l) < PivotElement
    BY <1>5 DEF BelowPivot, PivotElement
  <2>2. PICK i \in l .. len - 1 : Element(i) >= PivotElement
    BY <1>1 DEF ScanOK
  <2>3. i \in l + 1 .. len - 1
    BY <1>2, <1>4, <2>1, <2>2
  <2>4. l =< h
    BY <1>1, <1>2, <1>4, <2>1 DEF ScanOK
  <2>5. l' = l + 1 /\ pc' = pc /\ h' = h
    BY <1>2, <1>4, <1>5, <2>3
  <2>6. ScanOK'
    <3>1. l' < len' /\ l' =< h' + 1
      BY <1>2, <1>3, <1>4, <2>3, <2>4, <2>5
    <3>2. \A k \in 0 .. len' - 1 : /\ k < l' => Element(k)' =< PivotElement'
                                   /\ k > h' => Element(k)' >= PivotElement'
      <4>1. ASSUME NEW k \in 0 .. len - 1
            PROVE  /\ k < l + 1 => Element(k) =< PivotElement
                   /\ k > h => Element(k) >= PivotElement
        <5>1. /\ k < l => Element(k) =< PivotElement
              /\ k > h => Element(k) >= PivotElement
          BY <1>1 DEF ScanOK
        <5>2. k = l => Element(k) =< PivotElement
          BY <1>4, <2>1
        <5> QED BY <5>1, <5>2, <1>2, <1>4
      <4> QED BY <4>1, <1>3, <2>5 DEF Element
    <3>3. \E k \in l' .. len' - 1 : Element(k)' >= PivotElement'
      BY <1>3, <2>2, <2>3, <2>5 DEF Element
    <3>4. \E k \in 0 .. h' : Element(k)' =< PivotElement'
      BY <1>1, <1>3, <2>5 DEF ScanOK, Element
    <3> QED BY <1>1, <1>3, <2>5, <3>1, <3>2, <3>3, <3>4 DEF ScanOK
  <2>7. ArrayOK(n)'
    BY <1>1, <1>2, <1>4, <2>3, <2>5 DEF ArrayOK
  <2> QED BY <1>3, <2>6, <2>7
<1>6. CASE ~BelowPivot(l)
  <2>1. Element(l) >= PivotElement /\ pc' = "down" /\ l' = l /\ h' = h
    BY <1>4, <1>6 DEF BelowPivot, PivotElement
  <2>2. ScanOK'
    BY <1>1, <1>3, <2>1 DEF ScanOK, Element
  <2>3. ArrayOK(n)'
    BY <1>1, <2>1 DEF ArrayOK
  <2> QED BY <1>3, <2>2, <2>3
<1> QED BY <1>5, <1>6

LEMMA ScanDownStep ==
  ASSUME NEW n \in 0 .. MaxLen, IInv(n), ScanDown
  PROVE  IInv(n)'
<1> USE DEF ScanDown, IInv
<1>1. ScanOK /\ ArrayOK(n)
  OBVIOUS
<1>2. /\ base \in Nat /\ len \in Nat /\ base + len =< n
      /\ \A i \in 0 .. len - 1 : Element(i) \in Int
  BY <1>1, RunningCall DEF ScanOK
<1>3. /\ PartsInside(n)' /\ PartsApart' /\ RestInOrder'
      /\ base' = base /\ len' = len
      /\ \A i : Element(i)' = a[base + i]
      /\ PivotElement' = PivotElement
  BY ScansMoveNothing
<1>4. /\ l \in 0 .. len - 1 /\ h \in 0 .. len - 1 /\ pivot \in 0 .. len - 1
      /\ PivotElement \in Int /\ Element(h) \in Int
  BY <1>1, <1>2 DEF ScanOK, ArrayOK, PivotElement
<1>5. CASE AbovePivot(h)
  <2>1. Element(h) > PivotElement
    BY <1>5 DEF AbovePivot, PivotElement
  <2>2. PICK i \in 0 .. h : Element(i) =< PivotElement
    BY <1>1 DEF ScanOK
  <2>3. i \in 0 .. h - 1
    BY <1>2, <1>4, <2>1, <2>2
  <2>4. l =< h
    BY <1>1, <1>2, <1>4, <2>1 DEF ScanOK
  <2>5. h' = h - 1 /\ pc' = pc /\ l' = l
    BY <1>2, <1>4, <1>5, <2>3
  <2>6. ScanOK'
    <3>1. h' < len' /\ l' =< h' + 1
      BY <1>2, <1>3, <1>4, <2>4, <2>5
    <3>2. \A k \in 0 .. len' - 1 : /\ k < l' => Element(k)' =< PivotElement'
                                   /\ k > h' => Element(k)' >= PivotElement'
      <4>1. \A k \in 0 .. len - 1 : /\ k < l => Element(k) =< PivotElement
                                    /\ k > h - 1 => Element(k) >= PivotElement
        BY <1>1, <1>2, <1>4, <2>1 DEF ScanOK
      <4> QED BY <4>1, <1>3, <2>5 DEF Element
    <3>3. \E k \in 0 .. h' : Element(k)' =< PivotElement'
      BY <1>3, <2>2, <2>3, <2>5 DEF Element
    <3>4. \E k \in l' .. len' - 1 : Element(k)' >= PivotElement'
      BY <1>1, <1>3, <2>5 DEF ScanOK, Element
    <3> QED BY <1>1, <1>3, <2>5, <3>1, <3>2, <3>3, <3>4 DEF ScanOK, Element
  <2>7. ArrayOK(n)'
    BY <1>1, <1>2, <1>4, <2>3, <2>5 DEF ArrayOK
  <2> QED BY <1>3, <2>6, <2>7
<1>6. CASE ~AbovePivot(h)
  <2>1. Element(h) =< PivotElement /\ pc' = "meet" /\ l' = l /\ h' = h
    BY <1>4, <1>6 DEF AbovePivot, PivotElement
  <2>2. ScanOK'
    BY <1>1, <1>3, <2>1 DEF ScanOK, Element
  <2>3. ArrayOK(n)'
    BY <1>1, <2>1 DEF ArrayOK
  <2> QED BY <1>3, <2>2, <2>3
<1> QED BY <1>5, <1>6

(***************************************************************************)
(* The parts before the running one do not exist, and an element of its    *)
(* part is in no other: what is compared across the border of the part is  *)
(* in order whichever element of the part it is.                           *)
(***************************************************************************)
LEMMA AcrossTheBorder ==
  ASSUME NEW n \in 0 .. MaxLen, IInv(n), calls # << >>,
         NEW x \in Part(calls[1]), NEW y \in Cells, y \notin Part(calls[1])
  PROVE  /\ x \in Cells
         /\ x < y => a[x] =< a[y]
         /\ y < x => a[y] =< a[x]
<1>1. /\ 1 \in 1 .. Len(calls) /\ Len(calls) \in Nat
      /\ base \in Nat /\ len \in Nat /\ base + len =< n
      /\ Cells = 0 .. n - 1
  BY RunningCall DEF IInv, ArrayOK
<1>2. Part(calls[1]) = base .. base + len - 1
  BY DEF Part, base, len
<1>3. x \in Cells
  BY <1>1, <1>2
<1>4. \A i \in 1 .. Len(calls) : ~({x, y} \subseteq Part(calls[i]))
  <2> SUFFICES ASSUME NEW i \in 1 .. Len(calls), {x, y} \subseteq Part(calls[i])
               PROVE  FALSE
    OBVIOUS
  <2>1. i # 1
    OBVIOUS
  <2>2. base + len =< calls[i].base
    BY <1>1, <2>1 DEF IInv, PartsApart, base, len
  <2>3. calls[i] \in Call
    BY DEF IInv, ArrayOK
  <2>4. x >= calls[i].base
    BY <2>3 DEF Part, Call
  <2> QED BY <1>1, <1>2, <2>2, <2>3, <2>4 DEF Call
<1>5. \A z, w \in Cells : z < w /\ {z, w} = {x, y} => a[z] =< a[w]
  BY <1>4 DEF IInv, RestInOrder
<1> QED BY <1>3, <1>5

LEMMA SwapStep ==
  ASSUME NEW n \in 0 .. MaxLen, IInv(n), Swap
  PROVE  /\ IInv(n)'
         /\ base + l \in Cells /\ base + h \in Cells /\ base + l < base + h
         /\ a[base + l] >= a[base + h]
<1> USE DEF Swap, IInv
<1>1. ScanOK /\ ArrayOK(n) /\ RestInOrder
  OBVIOUS
<1>2. /\ base \in Nat /\ len \in Nat /\ base + len =< n
      /\ \A i \in 0 .. len - 1 : base + i \in Cells /\ Element(i) \in Int
      /\ Cells = 0 .. n - 1
  BY <1>1, RunningCall DEF ScanOK
<1>3. /\ l \in 0 .. len - 1 /\ h \in 0 .. len - 1 /\ pivot \in 0 .. len - 1
      /\ PivotElement \in Int /\ Element(l) \in Int /\ Element(h) \in Int
      /\ Element(l) >= PivotElement /\ Element(h) =< PivotElement
      /\ base + l \in Cells /\ base + h \in Cells
  BY <1>1, <1>2 DEF ScanOK, ArrayOK, PivotElement
<1>4. /\ a' \in [0 .. n - 1 -> Values]
      /\ \A x \in Cells : a'[x] = IF x = base + l THEN a[base + h]
                                   ELSE IF x = base + h THEN a[base + l]
                                   ELSE a[x]
  BY <1>1, <1>2, <1>3 DEF Swapped, Element, ArrayOK
<1>5. base' = base /\ len' = len /\ Cells' = Cells
  BY <1>2, <1>4 DEF base, len, Cells
<1>6. \A i \in 0 .. len - 1 : Element(i)' = IF i = l THEN Element(h)
                                            ELSE IF i = h THEN Element(l)
                                            ELSE Element(i)
  BY <1>2, <1>3, <1>4, <1>5 DEF Element
<1>7. pivot' \in 0 .. len - 1 /\ PivotElement' = PivotElement
  BY <1>2, <1>3, <1>4, <1>5 DEF MovedPivot, PivotElement, Element
<1>8. ArrayOK(n)'
  BY <1>1, <1>2, <1>3, <1>4, <1>7 DEF ArrayOK
<1>9. PartsInside(n)' /\ PartsApart'
  BY DEF PartsInside, PartsApart
<1>10. RestInOrder'
  <2>1. ASSUME NEW x \in Cells, NEW y \in Cells, x < y,
               ~\E i \in 1 .. Len(calls) : {x, y} \subseteq Part(calls[i])
        PROVE  a'[x] =< a'[y]
    <3> DEFINE P == Part(calls[1])
    <3>1. base + l \in P /\ base + h \in P
      <4>1. P = base .. base + len - 1
        BY DEF Part, base, len
      <4> QED BY <4>1, <1>2, <1>3
    <3>2. ~(x \in P /\ y \in P)
      BY <1>1, <2>1, RunningCall DEF ScanOK
    <3>3. CASE x \notin P /\ y \notin P
      BY <1>1, <1>4, <2>1, <3>1, <3>3 DEF RestInOrder
    <3>4. CASE x \in P /\ y \notin P
      <4>1. \A z \in P : z < y
        BY <1>2, <2>1, <3>4 DEF Part, base, len
      <4>2. \A z \in P : a[z] =< a[y]
        BY <1>1, <4>1, <3>4, AcrossTheBorder DEF ScanOK
      <4> QED BY <1>4, <3>1, <3>4, <4>2
    <3>5. CASE x \notin P /\ y \in P
      <4>1. \A z \in P : x < z
        BY <1>2, <2>1, <3>5 DEF Part, base, len
      <4>2. \A z \in P : a[x] =< a[z]
        BY <1>1, <4>1, <3>5, AcrossTheBorder DEF ScanOK
      <4> QED BY <1>4, <3>1, <3>5, <4>2
    <3> QED BY <3>2, <3>3, <3>4, <3>5
  <2> QED BY <1>5, <2>1 DEF RestInOrder
<1>11. ScanOK'
  <2>1. /\ calls' # << >> /\ pivot' < len' /\ l' < len' /\ h' < len'
        /\ l' =< h' + 1
    BY <1>1, <1>2, <1>3, <1>5, <1>7 DEF ScanOK
  <2>2. ASSUME NEW i \in 0 .. len - 1
        PROVE  /\ i < l' => Element(i)' =< PivotElement'
               /\ i > h' => Element(i)' >= PivotElement'
    <3>1. /\ i < l => Element(i) =< PivotElement
          /\ i > h => Element(i) >= PivotElement
      BY <1>1 DEF ScanOK
    <3>2. i < l' => i =< l /\ i # h
      BY <1>2, <1>3
    <3>3. i > h' => i >= h /\ i # l
      BY <1>2, <1>3
    <3>4. i < l' => Element(i)' =< PivotElement'
      BY <3>1, <3>2, <1>2, <1>3, <1>6, <1>7
    <3>5. i > h' => Element(i)' >= PivotElement'
      BY <3>1, <3>3, <1>2, <1>3, <1>6, <1>7
    <3> QED BY <3>4, <3>5
  <2>3. \E i \in l' .. len' - 1 : Element(i)' >= PivotElement'
    <3>1. PICK i \in 0 .. len - 1 : i = h
      BY <1>3
    <3>2. Element(i)' >= PivotElement'
      BY <3>1, <1>2, <1>3, <1>6, <1>7
    <3>3. i \in l' .. len' - 1
      BY <3>1, <1>2, <1>3, <1>5
    <3> QED BY <3>2, <3>3
  <2>4. \E i \in 0 .. h' : Element(i)' =< PivotElement'
    <3>1. PICK i \in 0 .. len - 1 : i = l
      BY <1>3
    <3>2. Element(i)' =< PivotElement'
      BY <3>1, <1>2, <1>3, <1>6, <1>7
    <3>3. i \in 0 .. h'
      BY <3>1, <1>2, <1>3, <1>5
    <3> QED BY <3>2, <3>3
  <2> QED BY <1>5, <2>1, <2>2, <2>3, <2>4 DEF ScanOK
<1>12. base + l < base + h /\ a[base + l] >= a[base + h]
  BY <1>2, <1>3 DEF Element
<1> QED BY <1>3, <1>8, <1>9, <1>10, <1>11, <1>12

LEMMA SplitStep ==
  ASSUME NEW n \in 0 .. MaxLen, IInv(n), Split
  PROVE  IInv(n)'
<1> DEFINE first == [base |-> base, len |-> l]
           rest  == [base |-> base + h + 1, len |-> len - h - 1]
<1>1. /\ ScanOK /\ ArrayOK(n) /\ RestInOrder /\ PartsInside(n) /\ PartsApart
      /\ pc = "meet" /\ l >= h
      /\ calls' = Parts \o Tail(calls)
      /\ pc' = "call" /\ UNCHANGED << a, pivot, l, h >>
  BY DEF Split, IInv
<1>2. /\ base \in Nat /\ len \in Nat /\ base + len =< n
      /\ \A i \in 0 .. len - 1 : base + i \in Cells /\ Element(i) \in Int
      /\ Cells = 0 .. n - 1 /\ 1 \in 1 .. Len(calls) /\ Len(calls) \in Nat
  BY <1>1, RunningCall DEF ScanOK, ArrayOK
<1>3. /\ l \in 0 .. len - 1 /\ h \in 0 .. len - 1 /\ l =< h + 1 /\ h =< l
      /\ PivotElement \in Int /\ Element(l) \in Int /\ Element(h) \in Int
      /\ Element(l) >= PivotElement /\ Element(h) =< PivotElement
  BY <1>1, <1>2 DEF ScanOK, ArrayOK, PivotElement
<1>4. (len - h - 1) % Word = len - h - 1
  <2>1. len - h - 1 \in Nat /\ len - h - 1 < Word
    BY <1>2, <1>3
  <2> QED BY <2>1, RemainderOfSmall
<1>5. first \in Call /\ rest \in Call /\ calls' = << first, rest >> \o Tail(calls)
  <2>1. first \in Call /\ rest \in Call
    BY <1>2, <1>3 DEF Call
  <2>2. Parts = << first, rest >>
    BY <1>4 DEF Parts
  <2> QED BY <1>1, <2>1, <2>2
<1>6. /\ calls' \in Seq(Call) /\ Len(calls') = Len(calls) + 1
      /\ calls'[1] = first /\ calls'[2] = rest
      /\ \A i \in 3 .. Len(calls') : i - 1 \in 2 .. Len(calls) /\ calls'[i] = calls[i - 1]
      /\ \A i \in 2 .. Len(calls) : i + 1 \in 3 .. Len(calls') /\ calls'[i + 1] = calls[i]
  <2>1. calls \in Seq(Call) /\ calls # << >>
    BY <1>1 DEF ScanOK, ArrayOK
  <2> HIDE DEF first, rest
  <2> QED BY <1>5, <2>1, SplitOfCalls
<1>7. ArrayOK(n)'
  BY <1>1, <1>6 DEF ArrayOK
<1>8. \A i \in 2 .. Len(calls) : base + len =< calls[i].base /\ calls[i] \in Call
  BY <1>1, <1>2 DEF PartsApart, ArrayOK, base, len
<1>9. PartsInside(n)'
  <2>1. calls'[1].base + calls'[1].len =< n /\ calls'[2].base + calls'[2].len =< n
    BY <1>2, <1>3, <1>6
  <2>2. \A i \in 3 .. Len(calls') : calls'[i].base + calls'[i].len =< n
    <3>1. \A i \in 2 .. Len(calls) : calls[i].base + calls[i].len =< n
      BY <1>1, <1>2 DEF PartsInside
    <3> QED BY <1>6, <3>1
  <2>3. ASSUME NEW i \in 1 .. Len(calls')
        PROVE  i = 1 \/ i = 2 \/ i \in 3 .. Len(calls')
    <3>1. Len(calls') \in Nat
      BY <1>2, <1>6
    <3> QED BY <3>1
  <2> QED BY <2>1, <2>2, <2>3, Zenon DEF PartsInside
<1>10. PartsApart'
  <2> SUFFICES ASSUME NEW i \in 1 .. Len(calls'), NEW j \in 1 .. Len(calls'), i < j
               PROVE  calls'[i].base + calls'[i].len =< calls'[j].base
    BY DEF PartsApart
  <2>1. CASE i = 1 /\ j = 2
    BY <1>2, <1>3, <1>6, <2>1
  <2>2. CASE i \in 1 .. 2 /\ j \in 3 .. Len(calls')
    <3>1. base + len =< calls'[j].base /\ calls'[j].base \in Nat
      BY <1>2, <1>6, <1>8, <2>2 DEF Call
    <3>2. /\ calls'[i].base + calls'[i].len =< base + len
          /\ calls'[i].base + calls'[i].len \in Nat
      <4>1. CASE i = 1
        BY <1>2, <1>3, <1>6, <4>1
      <4>2. CASE i = 2
        BY <1>2, <1>3, <1>6, <4>2
      <4> QED BY <2>2, <4>1, <4>2
    <3> QED BY <1>2, <3>1, <3>2
  <2>3. CASE i \in 3 .. Len(calls') /\ j \in 3 .. Len(calls')
    <3>1. /\ i - 1 \in 1 .. Len(calls) /\ j - 1 \in 1 .. Len(calls) /\ i - 1 < j - 1
          /\ calls'[i] = calls[i - 1] /\ calls'[j] = calls[j - 1]
      BY <1>2, <1>6, <2>3
    <3> QED BY <1>1, <3>1 DEF PartsApart
  <2> QED BY <1>2, <1>6, <2>1, <2>2, <2>3
<1>11. RestInOrder'
  <2> SUFFICES ASSUME NEW x \in Cells, NEW y \in Cells, x < y,
                      ~\E i \in 1 .. Len(calls') : {x, y} \subseteq Part(calls'[i])
               PROVE  a[x] =< a[y]
    BY <1>1 DEF RestInOrder, Cells
  <2>1. CASE ~({x, y} \subseteq Part(calls[1]))
    <3>1. ASSUME NEW i \in 1 .. Len(calls), {x, y} \subseteq Part(calls[i])
          PROVE  FALSE
      <4>1. i # 1
        BY <2>1, <3>1
      <4>2. i + 1 \in 3 .. Len(calls') /\ calls'[i + 1] = calls[i]
        BY <1>2, <1>6, <4>1
      <4>3. i + 1 \in 1 .. Len(calls')
        BY <1>2, <1>6, <4>2
      <4>4. {x, y} \subseteq Part(calls'[i + 1])
        BY <3>1, <4>2, Zenon
      <4> QED BY <4>3, <4>4, Zenon
    <3> QED BY <1>1, <3>1 DEF RestInOrder
  <2>2. CASE {x, y} \subseteq Part(calls[1])
    <3> DEFINE i == x - base
               j == y - base
    <3>1. /\ i \in 0 .. len - 1 /\ j \in 0 .. len - 1 /\ i < j
          /\ a[x] = Element(i) /\ a[y] = Element(j)
      <4>1. Part(calls[1]) = base .. base + len - 1
        BY DEF Part, base, len
      <4>2. x = base + i /\ y = base + j
        BY <1>2
      <4> QED BY <1>2, <2>2, <4>1, <4>2 DEF Element
    <3>2. ~(j < l) /\ ~(i > h)
      <4>1. 1 \in 1 .. Len(calls') /\ 2 \in 1 .. Len(calls')
        BY <1>2, <1>6
      <4>2. Part(calls'[1]) = base .. base + l - 1
        BY <1>6 DEF Part
      <4>3. Part(calls'[2]) = base + h + 1 .. base + len - 1
        BY <1>2, <1>3, <1>6 DEF Part
      <4>4. x = base + i /\ y = base + j
        BY <1>2
      <4>5. j < l => {x, y} \subseteq Part(calls'[1])
        BY <1>2, <1>3, <3>1, <4>2, <4>4
      <4>6. i > h => {x, y} \subseteq Part(calls'[2])
        BY <1>2, <1>3, <3>1, <4>3, <4>4
      <4> QED BY <4>1, <4>5, <4>6
    <3>3. Element(i) =< PivotElement
      <4>1. i < l \/ i = h
        BY <1>2, <1>3, <3>1, <3>2
      <4> QED BY <1>1, <1>3, <3>1, <4>1 DEF ScanOK
    <3>4. Element(j) >= PivotElement
      <4>1. j > h \/ j = l
        BY <1>2, <1>3, <3>1, <3>2
      <4> QED BY <1>1, <1>3, <3>1, <4>1 DEF ScanOK
    <3> QED BY <1>2, <1>3, <3>1, <3>3, <3>4
  <2> QED BY <2>1, <2>2
<1> QED BY <1>1, <1>7, <1>9, <1>10, <1>11 DEF IInv

-----------------------------------------------------------------------------
(* The theorems.                                                           *)

LEMMA NextIInv ==
  ASSUME NEW n \in 0 .. MaxLen, IInv(n), [Next]_vars
  PROVE  IInv(n)'
<1>1. CASE Short
  BY <1>1, ShortStep
<1>2. CASE Enter
  BY <1>2, EnterStep
<1>3. CASE ScanUp
  BY <1>3, ScanUpStep
<1>4. CASE ScanDown
  BY <1>4, ScanDownStep
<1>5. CASE Swap
  BY <1>5, SwapStep
<1>6. CASE Split
  BY <1>6, SplitStep
<1>7. CASE UNCHANGED vars
  BY <1>7 DEF vars, IInv, ArrayOK, PartsInside, PartsApart, RestInOrder, ScanOK,
              Cells, base, len, Element, PivotElement
<1> QED BY <1>1, <1>2, <1>3, <1>4, <1>5, <1>6, <1>7 DEF Next, Terminating

SomeIInv == \E n \in 0 .. MaxLen : IInv(n)

LEMMA Invariance == Spec => []SomeIInv
<1>1. Init => SomeIInv
  BY InitIInv DEF SomeIInv
<1>2. SomeIInv /\ [Next]_vars => SomeIInv'
  <2> SUFFICES ASSUME SomeIInv, [Next]_vars PROVE SomeIInv'
    OBVIOUS
  <2>1. PICK n \in 0 .. MaxLen : IInv(n)
    BY DEF SomeIInv
  <2>2. IInv(n)'
    BY <2>1, NextIInv
  <2> QED BY <2>2 DEF SomeIInv
<1> QED BY <1>1, <1>2, PTL DEF Spec

(***************************************************************************)
(* For arrays of every length the variables stay in their types: neither l *)
(* nor h ever wraps.                                                       *)
(***************************************************************************)
THEOREM TypeCorrect == Spec => []TypeOK
<1>1. SomeIInv => TypeOK
  <2> SUFFICES ASSUME NEW n \in 0 .. MaxLen, IInv(n) PROVE TypeOK
    BY DEF SomeIInv
  <2>1. ArrayOK(n) /\ PartsInside(n)
    BY DEF IInv
  <2>2. ASSUME NEW i \in 1 .. Len(calls)
        PROVE  calls[i] \in [base : Nat, len : 0 .. MaxLen]
    <3>1. calls[i] \in Call /\ calls[i].base + calls[i].len =< n
      BY <2>1 DEF ArrayOK, PartsInside
    <3>2. calls[i].len \in 0 .. MaxLen
      BY <3>1 DEF Call
    <3> QED BY <3>1, <3>2 DEF Call
  <2>3. calls \in Seq([base : Nat, len : 0 .. MaxLen])
    <3>1. calls \in Seq(Call)
      BY <2>1 DEF ArrayOK
    <3> QED BY <3>1, <2>2, ElementsOfSeq
  <2> QED BY <2>1, <2>3 DEF TypeOK, ArrayOK
<1> QED BY <1>1, Invariance, PTL

(***************************************************************************)
(* The scans of qsort never leave the part they work on.                   *)
(***************************************************************************)
THEOREM ScansStayInside == Spec => []ScansInside
<1>1. SomeIInv => ScansInside
  <2> SUFFICES ASSUME NEW n \in 0 .. MaxLen, IInv(n) PROVE ScansInside
    BY DEF SomeIInv
  <2>1. ASSUME NEW i \in 1 .. Len(calls) PROVE Part(calls[i]) \subseteq Cells
    <3>1. calls[i] \in Call /\ calls[i].base + calls[i].len =< n /\ Cells = 0 .. n - 1
      BY DEF IInv, ArrayOK, PartsInside, Cells
    <3> QED BY <3>1 DEF Part, Call
  <2>2. pc # "call" => l < len /\ h < len /\ pivot < len
    BY DEF IInv, ScanOK
  <2> QED BY <2>1, <2>2 DEF ScansInside
<1> QED BY <1>1, Invariance, PTL

(***************************************************************************)
(* What no call will exchange any more is in order.                        *)
(***************************************************************************)
THEOREM RestStaysInOrder == Spec => []RestInOrder
<1>1. SomeIInv => RestInOrder
  BY DEF SomeIInv, IInv
<1> QED BY <1>1, Invariance, PTL

(***************************************************************************)
(* When qsort has returned the array is sorted.                            *)
(***************************************************************************)
THEOREM ReturnsSorted == Spec => [](Returned => Abstract!Sorted)
<1>1. RestInOrder => (Returned => Abstract!Sorted)
  BY DEF RestInOrder, Returned, Abstract!Sorted, Cells
<1> QED BY <1>1, RestStaysInOrder, PTL

(***************************************************************************)
(* Every step of qsort exchanges two elements that are in the wrong order, *)
(* or returns with the array sorted, or changes nothing a caller can see.  *)
(***************************************************************************)
THEOREM RefinesSorting == Spec => Abstract!SafeSpec
<1>1. Init => Abstract!Init
  BY DEF Init, Abstract!Init, Returned
<1>2. SomeIInv /\ [Next]_vars
        => [Abstract!Exchange \/ Abstract!Return]_(Abstract!vars)
  <2> SUFFICES ASSUME NEW n \in 0 .. MaxLen, IInv(n), [Next]_vars
               PROVE  [Abstract!Exchange \/ Abstract!Return]_(Abstract!vars)
    BY DEF SomeIInv
  <2> USE DEF Returned, Abstract!vars
  <2>1. CASE Short
    <3>1. CASE Tail(calls) = << >>
      <4>1. Len(calls) = 1 /\ len < 2 /\ calls[1] \in Call
        <5>1. calls \in Seq(Call) /\ calls # << >> /\ len < 2
          BY <2>1 DEF Short, IInv, ArrayOK
        <5> QED BY <5>1, <3>1, LastOfCalls
      <4>2. Abstract!Sorted
        <5> SUFFICES ASSUME NEW x \in Cells, NEW y \in Cells, x < y
                     PROVE  ~({x, y} \subseteq Part(calls[1]))
          BY <4>1 DEF IInv, RestInOrder, Abstract!Sorted, Cells
        <5> QED BY <4>1 DEF Part, len, Call, IInv, ArrayOK, Cells
      <4> QED BY <2>1, <3>1, <4>2 DEF Short, Abstract!Return
    <3>2. CASE Tail(calls) # << >>
      BY <2>1, <3>2 DEF Short
    <3> QED BY <3>1, <3>2
  <2>2. CASE Enter
    BY <2>2 DEF Enter
  <2>3. CASE ScanUp
    BY <2>3 DEF ScanUp
  <2>4. CASE ScanDown
    BY <2>4 DEF ScanDown
  <2>5. CASE Swap
    <3> DEFINE x == base + l
               y == base + h
    <3>1. /\ x \in Cells /\ y \in Cells /\ x < y /\ a[x] >= a[y]
      BY <2>5, SwapStep
    <3>2. /\ a' = [a EXCEPT ![x] = a[y], ![y] = a[x]]
          /\ calls' = calls /\ calls # << >>
      BY <2>5 DEF Swap, Swapped, Element, IInv, ScanOK
    <3>3. a \in [0 .. n - 1 -> Int]
      BY DEF IInv, ArrayOK
    <3> HIDE DEF x, y
    <3>4. CASE a[x] = a[y]
      <4>1. a' = a
        BY <3>1, <3>2, <3>3, <3>4 DEF Cells
      <4> QED BY <3>2, <4>1
    <3>5. CASE a[x] > a[y]
      BY <3>1, <3>2, <3>5 DEF Abstract!Exchange, Cells
    <3> QED BY <3>1, <3>3, <3>4, <3>5 DEF Cells
  <2>6. CASE Split
    <3>1. calls' # << >> /\ calls # << >>
      <4>1. calls # << >> /\ calls' \in Seq(Call) /\ calls' = Parts \o Tail(calls)
        BY <2>6, SplitStep DEF Split, IInv, ScanOK, ArrayOK
      <4>2. Tail(calls) \in Seq(Call)
        BY <4>1, TailOfCalls DEF IInv, ArrayOK
      <4> QED BY <4>1, <4>2 DEF Parts
    <3> QED BY <2>6, <3>1 DEF Split
  <2>7. CASE UNCHANGED vars
    BY <2>7 DEF vars
  <2> QED BY <2>1, <2>2, <2>3, <2>4, <2>5, <2>6, <2>7 DEF Next, Terminating
<1> QED BY <1>1, <1>2, Invariance, PTL DEF Spec, Abstract!SafeSpec
=============================================================================
