------------------------- MODULE PrintBufferProofs -------------------------
(* Theorems about PrintBuffer, for every size of the buffer and program.   *)
EXTENDS PrintBuffer, TLAPS

(***************************************************************************)
(* The inductive invariant: NothingLost character by character.  What was  *)
(* written is the beginning of the text, and what is buffered follows it.  *)
(***************************************************************************)
Shape ==
  /\ program \in Programs
  /\ next \in 1 .. Len(program) + 2
  /\ asked \in Nat
  /\ printIt \in 0 .. Size
  /\ printBuffer \in [0 .. Size - 1 -> Nat]
  /\ written \in Seq(Nat)

InOrder ==
  /\ Len(written) + printIt = asked
  /\ \A k \in 1 .. Len(written) : written[k] = k
  /\ \A k \in 0 .. printIt - 1 : printBuffer[k] = Len(written) + k + 1
  /\ \A k \in 0 .. Size - 1 : printBuffer[k] =< asked

IInv == Shape /\ InOrder

LEMMA SizeFacts == Size \in Nat /\ UXTOA_MAX \in 0 .. Size /\ FTOA_MAX \in 0 .. Size
BY SizesAssumption

\* an item that is about to be printed
LEMMA ItemFacts ==
  ASSUME Shape, next =< Len(program)
  PROVE  /\ program \in Seq(Items)
         /\ Item.len \in Nat
         /\ next + 1 \in 1 .. Len(program) + 2
         /\ Item.kind = "u"  => Item.len =< UXTOA_MAX
         /\ Item.kind = "fn" => Item.len =< FTOA_MAX
<1>1. program \in Seq(Items) /\ next \in DOMAIN program
  BY ProgramsAssumption DEF Shape
<1>2. Item \in Items
  BY <1>1 DEF Item
<1>3. /\ Item.kind = "u"  => Item.len \in 1 .. UXTOA_MAX
      /\ Item.kind = "fn" => Item.len \in 1 .. FTOA_MAX
  BY <1>1, ProgramsAssumption DEF Shape, Item
<1> QED
  BY <1>1, <1>2, <1>3, SizeFacts DEF Items, Shape

\* concatenation, as far as it is needed
LEMMA Concatenation ==
  ASSUME NEW s \in Seq(Nat), NEW t \in Seq(Nat)
  PROVE  /\ s \o t \in Seq(Nat)
         /\ Len(s \o t) = Len(s) + Len(t)
         /\ \A k \in 1 .. Len(s) : (s \o t)[k] = s[k]
         /\ \A k \in 1 .. Len(t) : (s \o t)[Len(s) + k] = t[k]
OBVIOUS

LEMMA Restricted ==
  ASSUME NEW S, NEW T, NEW s \in Seq(S), \A k \in 1 .. Len(s) : s[k] \in T
  PROVE  s \in Seq(T)
OBVIOUS

LEMMA ContentsSeq ==
  ASSUME Shape
  PROVE  /\ Contents \in Seq(Nat)
         /\ Len(Contents) = printIt
         /\ \A k \in 1 .. printIt : Contents[k] = printBuffer[k - 1]
BY SizeFacts DEF Contents, Shape

\* the text up to the last character that was produced
LEMMA Flushed ==
  ASSUME IInv
  PROVE  /\ written \o Contents \in Seq(Nat)
         /\ Len(written \o Contents) = asked
         /\ \A k \in 1 .. asked : (written \o Contents)[k] = k
<1>1. /\ Contents \in Seq(Nat) /\ Len(Contents) = printIt
      /\ \A k \in 1 .. printIt : Contents[k] = printBuffer[k - 1]
  BY ContentsSeq DEF IInv
<1>2. written \in Seq(Nat)
  BY DEF IInv, Shape
<1>3. /\ written \o Contents \in Seq(Nat)
      /\ Len(written \o Contents) = Len(written) + printIt
      /\ \A k \in 1 .. Len(written) : (written \o Contents)[k] = written[k]
      /\ \A k \in 1 .. printIt : (written \o Contents)[Len(written) + k] = Contents[k]
  BY <1>1, <1>2, Concatenation
<1>4. ASSUME NEW k \in 1 .. asked
      PROVE  (written \o Contents)[k] = k
  <2>1. CASE k =< Len(written)
    BY <2>1, <1>2, <1>3 DEF IInv, InOrder
  <2>2. CASE k > Len(written)
    <3>1. PICK j \in 1 .. printIt : k = Len(written) + j
      <4>1. k - Len(written) \in 1 .. printIt
        BY <2>2, <1>2 DEF IInv, InOrder, Shape
      <4> QED BY <4>1, <1>2
    <3>2. (written \o Contents)[k] = printBuffer[j - 1]
      BY <3>1, <1>3, <1>1
    <3>3. printBuffer[j - 1] = Len(written) + j
      BY <3>1 DEF IInv, InOrder, Shape
    <3> QED BY <3>1, <3>2, <3>3
  <2>3. k =< Len(written) \/ k > Len(written)
    BY <1>2 DEF IInv, Shape
  <2> QED BY <2>1, <2>2, <2>3, Zenon
<1> QED BY <1>3, <1>4 DEF IInv, InOrder

\* n characters are put where there is room for them
LEMMA PutInOrder ==
  ASSUME IInv, NEW n \in Nat, NEW fresh \in BOOLEAN,
         Put(n, fresh), asked' = asked + n,
         n =< Size, fresh \/ n =< Room
  PROVE  /\ printIt' \in 0 .. Size
         /\ printBuffer' \in [0 .. Size - 1 -> Nat]
         /\ written' \in Seq(Nat)
         /\ InOrder'
<1> DEFINE it == IF fresh THEN 0 ELSE printIt
<1>1. /\ it \in Nat /\ it + n =< Size
      /\ printIt' = it + n
      /\ printBuffer' = [k \in 0 .. Size - 1 |->
                           IF k \in it .. it + n - 1 THEN asked + 1 + k - it
                                                     ELSE printBuffer[k]]
  BY SizeFacts DEF Put, Room, IInv, Shape
<1>2. /\ written' \in Seq(Nat)
      /\ Len(written') + it = asked
      /\ \A k \in 1 .. Len(written') : written'[k] = k
  <2>1. CASE fresh
    BY <2>1, Flushed DEF Put, IInv, Shape
  <2>2. CASE ~fresh
    BY <2>2 DEF Put, IInv, InOrder, Shape
  <2> QED BY <2>1, <2>2
<1>3. asked \in Nat /\ printIt \in 0 .. Size /\ printBuffer \in [0 .. Size - 1 -> Nat]
  BY DEF IInv, Shape
<1>4. ~fresh => /\ it = printIt
                /\ \A k \in 0 .. it - 1 : printBuffer[k] = Len(written) + k + 1
                /\ Len(written') = Len(written)
  BY DEF IInv, InOrder, Put
<1>5. \A k \in 0 .. Size - 1 : printBuffer[k] =< asked
  BY DEF IInv, InOrder
<1>6. fresh => it = 0
  OBVIOUS
<1> HIDE DEF it
<1>7. printBuffer' \in [0 .. Size - 1 -> Nat]
  BY <1>1, <1>3, SizeFacts
<1>8. \A k \in 0 .. printIt' - 1 : printBuffer'[k] = Len(written') + k + 1
  <2> SUFFICES ASSUME NEW k \in 0 .. printIt' - 1
               PROVE  printBuffer'[k] = Len(written') + k + 1
    OBVIOUS
  <2>1. k \in 0 .. Size - 1
    BY <1>1, SizeFacts
  <2>2. CASE k \in it .. it + n - 1
    <3>1. printBuffer'[k] = asked + 1 + k - it
      BY <2>1, <2>2, <1>1
    <3>2. Len(written') \in Nat /\ asked = Len(written') + it
      BY <1>2
    <3>3. asked + 1 + k - it = Len(written') + k + 1
      BY <3>2, <1>1, <1>3
    <3> QED BY <3>1, <3>3, Zenon
  <2>3. CASE k \notin it .. it + n - 1
    <3>1. k \in 0 .. it - 1
      BY <2>3, <1>1
    <3>2. ~fresh
      BY <3>1, <1>6, <1>1
    <3>5. Len(written') \in Nat
      BY <1>2
    <3>3. printBuffer[k] = Len(written') + k + 1
      BY <3>1, <3>2, <1>4
    <3>4. printBuffer'[k] = printBuffer[k]
      BY <2>1, <2>3, <1>1
    <3> QED BY <3>3, <3>4, <3>5, Zenon
  <2> QED BY <2>2, <2>3
<1>9. \A k \in 0 .. Size - 1 : printBuffer'[k] =< asked'
  BY <1>1, <1>3, <1>5, SizeFacts
<1>10. printIt' \in 0 .. Size /\ Len(written') + printIt' = asked'
  <2>1. printIt' \in Nat /\ printIt' =< Size
    BY <1>1, SizeFacts
  <2>2. Len(written') \in Nat
    BY <1>2
  <2>3. Len(written') + printIt' = asked'
    BY <1>1, <1>2, <1>3, <2>2
  <2> QED BY <2>1, <2>3, SizeFacts
<1> QED
  BY <1>2, <1>7, <1>8, <1>9, <1>10 DEF InOrder

-----------------------------------------------------------------------------
LEMMA InitIInv ==
  ASSUME Init
  PROVE  IInv
<1>1. program \in Seq(Items)
  BY ProgramsAssumption DEF Init
<1>2. Len(program) \in Nat
  BY <1>1
<1>3. Shape
  BY <1>2, SizeFacts DEF Init, Shape
<1>4. InOrder
  BY SizeFacts DEF Init, InOrder
<1> QED BY <1>3, <1>4 DEF IInv

\* a step that prints the item that is next, into the buffer
LEMMA Printed ==
  ASSUME IInv, NEW kind, Start(kind), NEW n \in Nat, NEW fresh \in BOOLEAN,
         Put(n, fresh), asked' = asked + n, n =< Size, fresh \/ n =< Room
  PROVE  IInv'
<1>1. next + 1 \in 1 .. Len(program) + 2
  BY ItemFacts DEF IInv, Start
<1>2. /\ printIt' \in 0 .. Size
      /\ printBuffer' \in [0 .. Size - 1 -> Nat]
      /\ written' \in Seq(Nat)
      /\ InOrder'
  BY PutInOrder
<1> QED BY <1>1, <1>2 DEF IInv, Shape, Start

LEMMA NextIInv ==
  ASSUME IInv, [Next]_vars
  PROVE  IInv'
<1>1. /\ Size \in Nat /\ UXTOA_MAX \in 0 .. Size /\ FTOA_MAX \in 0 .. Size
      /\ printIt \in 0 .. Size /\ asked \in Nat
      /\ Room = Size - printIt
  BY SizeFacts DEF IInv, Shape, Room
<1>2. CASE Flush
  <2>1. Start("flush") /\ Put(0, TRUE) /\ asked' = asked
    BY <1>2, Zenon DEF Flush
  <2>2. asked' = asked + 0 /\ 0 =< Size /\ 0 \in Nat
    BY <2>1, <1>1
  <2> QED BY <2>1, <2>2, Printed, Zenon
<1>3. CASE Raw
  <2>1. Item.len \in Nat /\ next + 1 \in 1 .. Len(program) + 2
    BY <1>3, ItemFacts DEF Raw, Start, IInv
  <2>2. CASE Room > Item.len
    <3>1. Start("raw") /\ Put(Item.len, FALSE) /\ asked' = asked + Item.len
      BY <1>3, <2>2, Zenon DEF Raw
    <3>2. Item.len =< Size /\ Item.len =< Room
      BY <1>1, <2>1, <2>2
    <3> QED BY <3>1, <3>2, <2>1, Printed, Zenon
  <2>3. CASE ~(Room > Item.len)
    <3>1. /\ written' = (written \o Contents) \o Chars(Item.len)
          /\ printIt' = 0 /\ printBuffer' = printBuffer
          /\ asked' = asked + Item.len
      BY <1>3, <2>3, Zenon DEF Raw, FlushedText
    <3>2. /\ Chars(Item.len) \in Seq(Nat)
          /\ Len(Chars(Item.len)) = Item.len
          /\ \A k \in 1 .. Item.len : Chars(Item.len)[k] = asked + k
      BY <1>1, <2>1 DEF Chars
    <3> DEFINE text == written \o Contents
    <3>4. /\ text \in Seq(Nat) /\ Len(text) = asked
          /\ \A k \in 1 .. asked : text[k] = k
      BY Flushed
    <3> HIDE DEF text
    <3>5. /\ written' \in Seq(Nat)
          /\ Len(written') = asked + Item.len
          /\ \A k \in 1 .. asked : written'[k] = text[k]
          /\ \A k \in 1 .. Item.len : written'[asked + k] = Chars(Item.len)[k]
      <4>1. written' = text \o Chars(Item.len)
        BY <3>1 DEF text
      <4> DEFINE more == Chars(Item.len)
      <4>2. /\ text \o more \in Seq(Nat)
            /\ Len(text \o more) = Len(text) + Len(more)
            /\ \A k \in 1 .. Len(text) : (text \o more)[k] = text[k]
            /\ \A k \in 1 .. Len(more) : (text \o more)[Len(text) + k] = more[k]
        BY <3>2, <3>4, Concatenation, Zenon
      <4> QED BY <4>1, <4>2, <3>2, <3>4, Zenon
    <3>6. ASSUME NEW k \in 1 .. asked + Item.len
          PROVE  written'[k] = k
      <4>1. CASE k =< asked
        BY <4>1, <3>4, <3>5, <1>1
      <4>2. CASE k > asked
        <5>1. PICK j \in 1 .. Item.len : k = asked + j
          <6>1. k - asked \in 1 .. Item.len
            BY <4>2, <1>1, <2>1
          <6> QED BY <6>1, <1>1
        <5> QED BY <5>1, <3>2, <3>5
      <4>3. k =< asked \/ k > asked
        BY <1>1, <2>1
      <4> QED BY <4>1, <4>2, <4>3, Zenon
    <3>7. InOrder'
      <4>1. \A k \in 0 .. Size - 1 : printBuffer'[k] =< asked'
        BY <1>1, <2>1, <3>1 DEF IInv, InOrder, Shape
      <4>2. asked + Item.len \in Nat /\ Len(written') = asked' /\ printIt' = 0
        BY <3>1, <3>5, <1>1, <2>1
      <4>3. Len(written') + printIt' = asked'
        BY <4>2, <3>1
      <4>4. \A k \in 1 .. Len(written') : written'[k] = k
        BY <4>2, <3>1, <3>6, Zenon
      <4>5. \A k \in 0 .. printIt' - 1 : FALSE
        BY <4>2
      <4> QED BY <4>1, <4>3, <4>4, <4>5, Zenon DEF InOrder
    <3>8. Shape'
      BY <3>1, <3>5, <2>1, <1>1, <1>3 DEF IInv, Shape, Raw, Start
    <3> QED BY <3>7, <3>8 DEF IInv
  <2> QED BY <2>2, <2>3
<1>4. ASSUME NEW kind \in { "u", "fn" }, NEW max \in 0 .. Size,
             kind = "u" => max = UXTOA_MAX, kind = "fn" => max = FTOA_MAX,
             Number(kind, max)
      PROVE  IInv'
  <2>1. Item.len \in Nat /\ Item.len =< max
    BY <1>4, <1>1, ItemFacts DEF Number, Start, IInv
  <2>2. Item.len =< Size /\ (Short(max) \/ Item.len =< Room)
    BY <1>1, <1>4, <2>1 DEF Short
  <2>3. Short(max) \in BOOLEAN
    BY DEF Short
  <2> QED BY <1>4, <2>1, <2>2, <2>3, Printed DEF Number
<1>5. ASSUME NEW kind, NEW dropped \in BOOLEAN, ~dropped => Item.len =< Size,
             Digits(kind, dropped)
      PROVE  IInv'
  <2>1. Item.len \in Nat /\ next + 1 \in 1 .. Len(program) + 2
    BY <1>5, ItemFacts DEF Digits, Start, IInv
  <2>2. CASE dropped
    BY <1>5, <2>1, <2>2 DEF Digits, Start, IInv, Shape, InOrder
  <2>3. CASE ~dropped
    <3>1. (Room < Item.len) \in BOOLEAN /\ ((Room < Item.len) \/ Item.len =< Room)
      BY <1>1, <2>1
    <3> QED BY <1>5, <2>1, <2>3, <3>1, Printed DEF Digits
  <2> QED BY <2>2, <2>3
<1>6. CASE Unsigned
  BY <1>1, <1>4, <1>6 DEF Unsigned
<1>7. CASE Float
  BY <1>1, <1>4, <1>7 DEF Float
<1>8. CASE Hex
  <2>1. Item.len \in Nat
    BY <1>8, ItemFacts DEF Hex, Digits, Start, IInv
  <2>2. ~HexDropped(Item.len) => Item.len =< Size
    BY <2>1, <1>1 DEF HexDropped
  <2>3. HexDropped(Item.len) \in BOOLEAN
    BY DEF HexDropped
  <2> QED BY <1>5, <1>8, <2>2, <2>3 DEF Hex
<1>9. CASE Binary
  <2>1. Item.len \in Nat
    BY <1>9, ItemFacts DEF Binary, Digits, Start, IInv
  <2>2. ~BinaryDropped(Item.len) => Item.len =< Size
    BY <2>1, <1>1 DEF BinaryDropped
  <2>3. BinaryDropped(Item.len) \in BOOLEAN
    BY DEF BinaryDropped
  <2> QED BY <1>5, <1>9, <2>2, <2>3 DEF Binary
<1>10. CASE Exit
  <2>1. /\ printIt' \in 0 .. Size
        /\ printBuffer' \in [0 .. Size - 1 -> Nat]
        /\ written' \in Seq(Nat)
        /\ InOrder'
    <3>1. Put(0, TRUE) /\ asked' = asked + 0
      <4>1. Put(0, TRUE) /\ asked' = asked
        BY <1>10, Zenon DEF Exit, FlushAtExit
      <4>2. asked' = asked + 0
        BY <4>1, <1>1
      <4> QED BY <4>1, <4>2, Zenon
    <3>2. 0 \in Nat /\ 0 =< Size
      BY <1>1
    <3> QED BY <3>1, <3>2, PutInOrder, Zenon
  <2>2. Len(program) \in Nat
    BY ProgramsAssumption DEF IInv, Shape
  <2> QED BY <1>10, <2>1, <2>2 DEF Exit, IInv, Shape
<1>11. CASE UNCHANGED vars
  BY <1>11 DEF vars, IInv, Shape, InOrder
<1> QED
  BY <1>2, <1>3, <1>6, <1>7, <1>8, <1>9, <1>10, <1>11 DEF Next, Terminating

LEMMA Invariance == Spec => []IInv
<1>1. Init => IInv
  BY InitIInv
<1>2. IInv /\ [Next]_vars => IInv'
  BY NextIInv
<1> QED BY <1>1, <1>2, PTL DEF Spec

-----------------------------------------------------------------------------
(***************************************************************************)
(* printIt stays in the buffer, and the variables in their types.          *)
(***************************************************************************)
THEOREM TypeCorrect == Spec => []TypeOK
<1>1. IInv => TypeOK
  <2> SUFFICES ASSUME IInv PROVE TypeOK
    OBVIOUS
  <2>1. program \in Seq(Items)
    BY ProgramsAssumption DEF IInv, Shape
  <2>2. \A k \in 1 .. Len(written) : written[k] \in 1 .. asked
    BY DEF IInv, InOrder, Shape
  <2>3. written \in Seq(1 .. asked)
    BY <2>2, Restricted DEF IInv, Shape
  <2>4. printBuffer \in [0 .. Size - 1 -> 0 .. asked]
    BY SizeFacts DEF IInv, InOrder, Shape
  <2> QED BY <2>1, <2>3, <2>4 DEF TypeOK, IInv, Shape
<1> QED BY <1>1, Invariance, PTL

(***************************************************************************)
(* Whatever a program prints, and whenever the buffer is flushed, the text *)
(* that was written and the text that is buffered are all of it, in order. *)
(***************************************************************************)
THEOREM NothingIsLost == Spec => []NothingLost
<1>1. IInv => NothingLost
  <2> SUFFICES ASSUME IInv PROVE NothingLost
    OBVIOUS
  <2> DEFINE text == written \o Contents
  <2>1. /\ text \in Seq(Nat) /\ Len(text) = asked
        /\ \A k \in 1 .. asked : text[k] = k
    BY Flushed
  <2> HIDE DEF text
  <2>2. text = [k \in 1 .. asked |-> k]
    BY <2>1
  <2> QED BY <2>2 DEF NothingLost, text
<1> QED BY <1>1, Invariance, PTL

(***************************************************************************)
(* When the program has exited, all it printed has been written.           *)
(***************************************************************************)
THEOREM AllWrittenAtExit ==
  Spec => [][Exit => written' = [k \in 1 .. asked |-> k]]_vars
<1>1. IInv /\ [Next]_vars => [Exit => written' = [k \in 1 .. asked |-> k]]_vars
  <2> SUFFICES ASSUME IInv, Exit
               PROVE  written' = [k \in 1 .. asked |-> k]
    OBVIOUS
  <2>1. written' = written \o Contents
    BY DEF Exit, FlushAtExit, Put
  <2> DEFINE text == written \o Contents
  <2>2. /\ text \in Seq(Nat) /\ Len(text) = asked
        /\ \A k \in 1 .. asked : text[k] = k
    BY Flushed
  <2> HIDE DEF text
  <2>3. text = [k \in 1 .. asked |-> k]
    BY <2>2
  <2> QED BY <2>1, <2>3 DEF text
<1> QED BY <1>1, Invariance, PTL DEF Spec
=============================================================================
