---------------------------- MODULE MatrixProofs ----------------------------
(***************************************************************************)
(* Proofs about the matrix multiplications, for tiles and registers of     *)
(* every size and matrices of every shape.                                 *)
(***************************************************************************)
EXTENDS MatrixKernels, Division, SequenceTheorems, FiniteSetTheorems, TLAPS

(***************************************************************************)
(* The shapes the tile kernel multiplies right: the number of A tiles in a *)
(* row is even, or one, or there is one column of C tiles only, so that no *)
(* A tile is prefetched for the next one.                                  *)
(***************************************************************************)
CleanShape(s) == (s[2] \div T) % 2 = 0 \/ s[2] = T \/ s[3] = T

-----------------------------------------------------------------------------
(* The tile kernel: the invariant.                                         *)

InColumn == pc \in { "multiply", "store", "prefetch" }

\* where the kernel is
ControlInv ==
  /\ shape \in Shapes /\ machine \in Vme!Machines
  /\ pc \in { "enter", "rows", "multiply", "store", "prefetch", "columns", "done" }
  /\ pc \notin { "enter", "done" } => Vme!Accepted /\ machine # "short_vectors"
  /\ m0 \in Nat /\ n0 \in Nat /\ k0 \in Nat /\ k \in Vme!Blk
  /\ m0 % T = 0 /\ n0 % T = 0 /\ k0 % T = 0
  /\ m0 =< Vme!M
  /\ InColumn \/ pc = "columns" => machine = "fits" /\ m0 < Vme!M /\ n0 < Vme!N
  /\ InColumn => k0 < Vme!K
  /\ pc = "columns" => k = 0 /\ k0 = Vme!K
  /\ pc = "enter" \/ ~ Vme!Accepted \/ machine # "fits" => m0 = 0
  /\ pc = "done" /\ Vme!Accepted /\ machine = "fits" => m0 = Vme!M

ATiles == [{ "mt0", "mt8" } -> [Vme!Blk \X Vme!Blk -> Int \X Int]]

\* the first columns of tile t hold the rows from m0 on of A, from kk on
HoldsA(t, x, columns) ==
  \A r \in Vme!Blk, c \in 0 .. columns - 1 : aTile[t][<< r, c >>] = << m0 + c, x + r >>

(***************************************************************************)
(* The A tile that is multiplied is there as a whole, and of the one after *)
(* it as many columns as rows have been multiplied.                        *)
(***************************************************************************)
TilesInv ==
  /\ aTile \in ATiles
  /\ CleanShape(shape) /\ InColumn =>
       /\ HoldsA(Vme!ATile, k0, T)
       /\ k0 + T < Vme!K => HoldsA(Vme!OtherA, k0 + T, k)
       /\ k0 + T >= Vme!K /\ n0 + T < Vme!N => HoldsA("mt0", 0, k)
  /\ CleanShape(shape) /\ pc = "columns" /\ n0 + T < Vme!N => HoldsA("mt0", 0, T)


LEMMA VmeSizes ==
  ASSUME ControlInv
  PROVE  /\ Vme!M \in Nat /\ Vme!K \in Nat /\ Vme!N \in Nat /\ T \in Nat \ {0}
         /\ Vme!Accepted => /\ Vme!M > 0 /\ Vme!K > 0 /\ Vme!N > 0
                            /\ Vme!M % T = 0 /\ Vme!K % T = 0 /\ Vme!N % T = 0
         /\ Vme!Blk \subseteq Nat /\ k \in Nat /\ k < T /\ m0 \in Nat /\ n0 \in Nat /\ k0 \in Nat
BY TAssumption, ShapesAssumption
DEF ControlInv, Vme!M, Vme!K, Vme!N, Vme!Accepted, Vme!Blk

LEMMA VmeControlInit == Vme!Init => ControlInv
<1>. SUFFICES ASSUME Vme!Init PROVE ControlInv
  OBVIOUS
<1>1. T \in Nat \ {0} /\ Vme!M \in Nat
  BY TAssumption, ShapesAssumption DEF Vme!Init, Vme!M
<1>2. 0 % T = 0
  BY <1>1
<1>. QED  BY <1>1, <1>2 DEF Vme!Init, ControlInv, Vme!Blk, InColumn

LEMMA SameShape ==
  ASSUME [Vme!Next]_(Vme!vars)
  PROVE  /\ shape' = shape /\ machine' = machine
         /\ Vme!M' = Vme!M /\ Vme!K' = Vme!K /\ Vme!N' = Vme!N
         /\ Vme!Accepted' = Vme!Accepted /\ CleanShape(shape)' = CleanShape(shape)
<1>1. shape' = shape /\ machine' = machine
  BY DEF Vme!Next, Vme!vars, Vme!Enter, Vme!EnterRows, Vme!LeaveRows, Vme!Multiply,
     Vme!StorePrevious, Vme!PrefetchA, Vme!PrefetchNextColumn, Vme!PrefetchNothing,
     Vme!NextColumn, Vme!Terminating
<1>2. Vme!M' = Vme!M /\ Vme!K' = Vme!K /\ Vme!N' = Vme!N
  BY <1>1 DEF Vme!M, Vme!K, Vme!N
<1>. QED  BY <1>1, <1>2 DEF Vme!Accepted, CleanShape

\* the three prefetches do the same to the indices
Prefetching == Vme!PrefetchA \/ Vme!PrefetchNextColumn \/ Vme!PrefetchNothing

LEMMA PrefetchControl ==
  ASSUME ControlInv, Prefetching
  PROVE  /\ pc = "prefetch" /\ UNCHANGED << shape, machine, m0, n0 >>
         /\ \/ k + 1 < T /\ k' = k + 1 /\ k0' = k0 /\ pc' = "multiply"
            \/ /\ k + 1 = T /\ k' = 0 /\ k0' = k0 + T
               /\ \/ k0 + T < Vme!K /\ pc' = "multiply"
                  \/ k0 + T = Vme!K /\ pc' = "columns"
<1>1. pc = "prefetch" /\ UNCHANGED << shape, machine, m0, n0 >> /\ Vme!NextK
  BY DEF Prefetching, Vme!PrefetchA, Vme!PrefetchNextColumn, Vme!PrefetchNothing
<1>2. k0 < Vme!K /\ Vme!Accepted /\ k0 % T = 0
  BY <1>1 DEF ControlInv, InColumn
<1>3. k0 + T =< Vme!K
  BY <1>2, VmeSizes, MultiplesApart
<1>4. ~ (k + 1 < T) => k + 1 = T
  BY VmeSizes
<1>5. ~ (k0 + T < Vme!K) => k0 + T = Vme!K
  BY <1>3, VmeSizes
<1>. QED  BY <1>1, <1>4, <1>5 DEF Vme!NextK

LEMMA VmeControlStep == ControlInv /\ [Vme!Next]_(Vme!vars) => ControlInv'
<1>. SUFFICES ASSUME ControlInv, [Vme!Next]_(Vme!vars) PROVE ControlInv'
  OBVIOUS
<1>. USE SameShape DEF ControlInv, InColumn
<1>0. /\ Vme!M \in Nat /\ Vme!K \in Nat /\ Vme!N \in Nat /\ T \in Nat \ {0}
      /\ Vme!Accepted => Vme!M % T = 0 /\ Vme!M > 0 /\ Vme!K > 0 /\ Vme!N > 0 /\ Vme!N % T = 0
  BY VmeSizes
<1>1. 0 \in Vme!Blk /\ 0 % T = 0
  BY <1>0 DEF Vme!Blk
<1>2. CASE Vme!Enter
  BY <1>2 DEF Vme!Enter
<1>3. CASE Vme!EnterRows
  <2>1. machine = "fits"
    BY <1>3 DEF Vme!EnterRows, Vme!Machines
  <2>. QED  BY <1>0, <1>1, <1>3, <2>1 DEF Vme!EnterRows
<1>4. CASE Vme!LeaveRows
  <2>1. Vme!Accepted /\ m0 =< Vme!M
    BY <1>4 DEF Vme!LeaveRows
  <2>2. machine = "fits" => m0 = Vme!M
    BY <1>0, <1>4 DEF Vme!LeaveRows
  <2>. QED  BY <1>4, <2>1, <2>2 DEF Vme!LeaveRows
<1>5. CASE Vme!Multiply \/ Vme!StorePrevious
  BY <1>5 DEF Vme!Multiply, Vme!StorePrevious
<1>6. CASE Prefetching
  <2>1. (k0 + T) % T = 0
    BY <1>0, NextMultiple
  <2>2. k + 1 < T => k + 1 \in Vme!Blk
    BY <1>0 DEF Vme!Blk
  <2>. QED  BY <1>0, <1>1, <1>6, <2>1, <2>2, PrefetchControl
<1>7. CASE Vme!NextColumn
  <2>1. (n0 + T) % T = 0 /\ (m0 + T) % T = 0
    BY <1>0, NextMultiple
  <2>2. m0 + T =< Vme!M /\ machine = "fits" /\ Vme!Accepted
    BY <1>0, <1>7, MultiplesApart DEF Vme!NextColumn
  <2>3. n0' = n0 + T /\ k0' = 0 /\ k' = k /\ k = 0 /\ n0 + T \in Nat
    BY <1>0, <1>7 DEF Vme!NextColumn
  <2>4. CASE n0 + T < Vme!N
    <3>1. pc' = "multiply" /\ m0' = m0 /\ 0 < Vme!K
      BY <1>0, <1>7, <2>2, <2>4 DEF Vme!NextColumn
    <3>2. m0 < Vme!M
      BY <1>7 DEF Vme!NextColumn
    <3>. QED  BY <1>1, <2>1, <2>2, <2>3, <2>4, <3>1, <3>2
  <2>5. CASE ~ (n0 + T < Vme!N)
    <3>1. pc' = "rows" /\ m0' = m0 + T /\ m0 + T \in Nat
      BY <1>0, <1>7, <2>5 DEF Vme!NextColumn
    <3>. QED  BY <1>1, <2>1, <2>2, <2>3, <3>1
  <2>. QED  BY <2>4, <2>5
<1>8. CASE UNCHANGED Vme!vars
  BY <1>8 DEF Vme!vars
<1>. QED
  BY <1>2, <1>3, <1>4, <1>5, <1>6, <1>7, <1>8 DEF Vme!Next, Vme!Terminating, Prefetching

-----------------------------------------------------------------------------
(* The tile kernel: A.                                                     *)

LEMMA TilesAlternate ==
  ASSUME ControlInv
  PROVE  /\ Vme!ATile \in { "mt0", "mt8" } /\ Vme!OtherA \in { "mt0", "mt8" }
         /\ Vme!OtherA # Vme!ATile
         /\ k0' = k0 => Vme!ATile' = Vme!ATile /\ Vme!OtherA' = Vme!OtherA
         /\ k0' = k0 + T => Vme!ATile' = Vme!OtherA
         /\ k0' = 0 => Vme!ATile' = "mt0"
<1>1. T \in Nat \ {0} /\ k0 \in Nat /\ k0 % T = 0
  BY VmeSizes DEF ControlInv
<1>2. (k0 + T) \div T = (k0 \div T) + 1 /\ k0 \div T \in Nat
  BY <1>1, NextMultiple, MultipleIs
<1>3. 0 \div T = 0
  BY <1>1, Multiple
<1>. QED  BY <1>2, <1>3 DEF Vme!ATile, Vme!OtherA

\* the last A tile of a row is in mt8, unless it is the only one
LEMMA LastTile ==
  ASSUME ControlInv, CleanShape(shape), InColumn, k0 + T >= Vme!K, n0 + T < Vme!N
  PROVE  Vme!ATile = "mt8" \/ k0 = 0
<1>1. /\ T \in Nat \ {0} /\ k0 \in Nat /\ k0 % T = 0 /\ k0 < Vme!K
      /\ Vme!K \in Nat /\ Vme!K % T = 0 /\ Vme!N \in Nat /\ n0 \in Nat
  BY VmeSizes DEF ControlInv, InColumn
<1>2. k0 + T = Vme!K
  <2>1. k0 + T =< Vme!K
    BY <1>1, MultiplesApart
  <2>. QED  BY <1>1, <2>1
<1>3. Vme!K \div T = (k0 \div T) + 1 /\ k0 \div T \in Nat
  BY <1>1, <1>2, NextMultiple, MultipleIs
<1>4. Vme!N # T
  BY <1>1
<1>5. CASE Vme!K = T
  BY <1>1, <1>2, <1>5
<1>6. CASE (Vme!K \div T) % 2 = 0
  <2>1. (k0 \div T) % 2 = 1
    BY <1>3, <1>6
  <2>. QED  BY <2>1 DEF Vme!ATile
<1>. QED  BY <1>4, <1>5, <1>6 DEF CleanShape, Vme!K, Vme!N

\* one more column of tile t has been loaded
LEMMA ColumnLoaded ==
  ASSUME ControlInv, aTile \in ATiles, NEW t \in { "mt0", "mt8" }, NEW x \in Nat,
         aTile' = Vme!LoadACol(t, k, x)
  PROVE  /\ aTile' \in ATiles
         /\ \A r \in Vme!Blk, c \in Vme!Blk :
              aTile'[t][<< r, c >>] = IF c = k THEN << m0 + c, x + r >> ELSE aTile[t][<< r, c >>]
         /\ \A u \in { "mt0", "mt8" } : u # t => aTile'[u] = aTile[u]
<1>1. Vme!Blk \subseteq Nat /\ k \in Nat /\ m0 \in Nat
  BY VmeSizes
<1>2. ASSUME NEW rc \in Vme!Blk \X Vme!Blk
      PROVE  << m0 + k, x + rc[1] >> \in Int \X Int
  <2>1. rc[1] \in Vme!Blk
    OBVIOUS
  <2>2. rc[1] \in Nat
    BY <1>1, <2>1
  <2>. QED  BY <1>1, <2>2
<1>3. aTile' \in ATiles
  BY <1>2 DEF Vme!LoadACol, ATiles
<1>4. \A rc \in Vme!Blk \X Vme!Blk :
        aTile'[t][rc] = IF rc[2] = k THEN << m0 + k, x + rc[1] >> ELSE aTile[t][rc]
  BY DEF Vme!LoadACol, ATiles
<1>5. ASSUME NEW r \in Vme!Blk, NEW c \in Vme!Blk
      PROVE  aTile'[t][<< r, c >>] = IF c = k THEN << m0 + c, x + r >> ELSE aTile[t][<< r, c >>]
  <2>1. << r, c >> \in Vme!Blk \X Vme!Blk /\ << r, c >>[1] = r /\ << r, c >>[2] = c
    OBVIOUS
  <2>. QED  BY <1>4, <2>1
<1>6. \A u \in { "mt0", "mt8" } : u # t => aTile'[u] = aTile[u]
  BY DEF Vme!LoadACol, ATiles
<1>. QED  BY <1>3, <1>5, <1>6

\* a tile that is complete, in columns
LEMMA Complete == 0 .. T - 1 = Vme!Blk
BY DEF Vme!Blk

(***************************************************************************)
(* After the prefetch of column k: what is multiplied is still there, and  *)
(* what is prefetched has one more column.                                 *)
(***************************************************************************)
Prefetched ==
  /\ \A r \in Vme!Blk, c \in Vme!Blk :
       aTile'[Vme!ATile][<< r, c >>] = << m0 + c, k0 + r >>
  /\ k0 + T < Vme!K =>
       \A r \in Vme!Blk, c \in 0 .. k :
         aTile'[Vme!OtherA][<< r, c >>] = << m0 + c, (k0 + T) + r >>
  /\ k0 + T >= Vme!K /\ n0 + T < Vme!N =>
       \A r \in Vme!Blk, c \in 0 .. k : aTile'["mt0"][<< r, c >>] = << m0 + c, 0 + r >>

LEMMA PrefetchTiles ==
  ASSUME ControlInv, TilesInv, Prefetching
  PROVE  aTile' \in ATiles /\ (CleanShape(shape) => Prefetched)
<1>0. /\ T \in Nat \ {0} /\ k \in Nat /\ k < T /\ k \in Vme!Blk
      /\ k0 \in Nat /\ n0 \in Nat /\ Vme!K \in Nat /\ Vme!N \in Nat
  BY VmeSizes DEF ControlInv
<1>1. pc = "prefetch" /\ InColumn
  BY PrefetchControl DEF InColumn
<1>2. 0 .. k \subseteq Vme!Blk /\ \A c \in 0 .. k : c # k => c \in 0 .. k - 1
  BY <1>0 DEF Vme!Blk
<1>3. CASE Vme!PrefetchA
  <2>1. k0 + T < Vme!K /\ aTile' = Vme!LoadACol(Vme!OtherA, k, k0 + T) /\ k0 + T \in Nat
    BY <1>0, <1>3 DEF Vme!PrefetchA
  <2>2. /\ aTile' \in ATiles
        /\ \A r \in Vme!Blk, c \in Vme!Blk :
             aTile'[Vme!OtherA][<< r, c >>] =
               IF c = k THEN << m0 + c, (k0 + T) + r >> ELSE aTile[Vme!OtherA][<< r, c >>]
        /\ aTile'[Vme!ATile] = aTile[Vme!ATile]
    BY <2>1, ColumnLoaded, TilesAlternate DEF TilesInv
  <2>3. ~ (k0 + T >= Vme!K)
    BY <1>0, <2>1
  <2>4. ASSUME CleanShape(shape) PROVE Prefetched
    <3>1. HoldsA(Vme!ATile, k0, T) /\ HoldsA(Vme!OtherA, k0 + T, k)
      BY <1>1, <2>1, <2>4 DEF TilesInv
    <3>2. ASSUME NEW r \in Vme!Blk, NEW c \in Vme!Blk
          PROVE  aTile'[Vme!ATile][<< r, c >>] = << m0 + c, k0 + r >>
      <4>1. aTile[Vme!ATile][<< r, c >>] = << m0 + c, k0 + r >>
        BY <3>1, Complete DEF HoldsA
      <4>. QED  BY <2>2, <4>1
    <3>3. \A r \in Vme!Blk, c \in 0 .. k :
            aTile'[Vme!OtherA][<< r, c >>] = << m0 + c, (k0 + T) + r >>
      BY <1>2, <2>2, <3>1 DEF HoldsA
    <3>. QED  BY <2>3, <3>2, <3>3 DEF Prefetched
  <2>. QED  BY <2>2, <2>4
<1>4. CASE Vme!PrefetchNextColumn
  <2>1. k0 + T >= Vme!K /\ n0 + T < Vme!N /\ aTile' = Vme!LoadACol("mt0", k, 0)
    BY <1>4 DEF Vme!PrefetchNextColumn, Vme!NextColumnATile
  <2>2. /\ aTile' \in ATiles
        /\ \A r \in Vme!Blk, c \in Vme!Blk :
             aTile'["mt0"][<< r, c >>] =
               IF c = k THEN << m0 + c, 0 + r >> ELSE aTile["mt0"][<< r, c >>]
        /\ aTile'["mt8"] = aTile["mt8"]
    BY <2>1, ColumnLoaded DEF TilesInv
  <2>3. ~ (k0 + T < Vme!K)
    BY <1>0, <2>1
  <2>4. ASSUME CleanShape(shape) PROVE Prefetched
    <3>1. HoldsA(Vme!ATile, k0, T) /\ HoldsA("mt0", 0, k)
      BY <1>1, <2>1, <2>4 DEF TilesInv
    <3>2. ASSUME NEW r \in Vme!Blk, NEW c \in Vme!Blk
          PROVE  aTile'[Vme!ATile][<< r, c >>] = << m0 + c, k0 + r >>
      <4>1. aTile[Vme!ATile][<< r, c >>] = << m0 + c, k0 + r >>
        BY <3>1, Complete DEF HoldsA
      <4>. QED  BY <1>1, <2>1, <2>2, <2>4, <4>1, LastTile, TilesAlternate
    <3>. QED  BY <1>2, <2>2, <2>3, <3>1, <3>2 DEF Prefetched, HoldsA
  <2>. QED  BY <2>2, <2>4
<1>5. CASE Vme!PrefetchNothing
  <2>1. k0 + T >= Vme!K /\ n0 + T >= Vme!N /\ aTile' = aTile
    BY <1>5 DEF Vme!PrefetchNothing
  <2>2. ~ (k0 + T < Vme!K) /\ ~ (n0 + T < Vme!N)
    BY <1>0, <2>1
  <2>3. ASSUME CleanShape(shape) PROVE Prefetched
    <3>1. HoldsA(Vme!ATile, k0, T)
      BY <1>1, <2>3 DEF TilesInv
    <3>. QED  BY <2>1, <2>2, <3>1, Complete DEF Prefetched, HoldsA
  <2>. QED  BY <2>1, <2>3 DEF TilesInv
<1>. QED  BY <1>3, <1>4, <1>5 DEF Prefetching
LEMMA VmeTilesStep ==
  ASSUME ControlInv, TilesInv, [Vme!Next]_(Vme!vars)
  PROVE  TilesInv'
<1>0. /\ T \in Nat \ {0} /\ k \in Nat /\ k < T /\ k \in Vme!Blk /\ Vme!Blk \subseteq Nat
      /\ k0 \in Nat /\ n0 \in Nat /\ m0 \in Nat /\ Vme!K \in Nat /\ Vme!N \in Nat
  BY VmeSizes DEF ControlInv
<1>. USE SameShape
<1>1. CASE Vme!Enter \/ Vme!LeaveRows
  BY <1>1 DEF Vme!Enter, Vme!LeaveRows, TilesInv, InColumn
<1>2. CASE Vme!EnterRows
  <2>1. /\ aTile' = [aTile EXCEPT !["mt0"] = [rc \in Vme!Blk \X Vme!Blk |-> << m0 + rc[2], rc[1] >>]]
        /\ pc' = "multiply" /\ k0' = 0 /\ k' = 0 /\ n0' = 0 /\ m0' = m0
    BY <1>2 DEF Vme!EnterRows
  <2>2. [rc \in Vme!Blk \X Vme!Blk |-> << m0 + rc[2], rc[1] >>] \in [Vme!Blk \X Vme!Blk -> Int \X Int]
    <3>1. ASSUME NEW rc \in Vme!Blk \X Vme!Blk
          PROVE  << m0 + rc[2], rc[1] >> \in Int \X Int
      <4>1. rc[1] \in Nat /\ rc[2] \in Nat
        BY <1>0
      <4>. QED  BY <1>0, <4>1
    <3>. QED  BY <3>1
  <2>3. aTile' \in ATiles
    BY <2>1, <2>2 DEF TilesInv, ATiles
  <2>4. ASSUME NEW r \in Vme!Blk, NEW c \in Vme!Blk
        PROVE  aTile'["mt0"][<< r, c >>] = << m0 + c, 0 + r >>
    <3>1. aTile'["mt0"] = [rc \in Vme!Blk \X Vme!Blk |-> << m0 + rc[2], rc[1] >>]
      BY <2>1 DEF TilesInv, ATiles
    <3>. QED  BY <1>0, <3>1
  <2>5. Vme!ATile' = "mt0" /\ 0 .. k' - 1 = {}
    BY <2>1, TilesAlternate
  <2>6. HoldsA(Vme!ATile, k0, T)'
    BY <2>1, <2>4, <2>5, Complete DEF HoldsA, Vme!Blk
  <2>. QED  BY <2>1, <2>3, <2>5, <2>6 DEF TilesInv, InColumn, HoldsA
<1>3. CASE Vme!Multiply \/ Vme!StorePrevious \/ UNCHANGED Vme!vars
  <2>1. UNCHANGED << aTile, m0, n0, k0, k >> /\ (InColumn' <=> InColumn) /\ (pc' = "columns" <=> pc = "columns")
    BY <1>3 DEF Vme!Multiply, Vme!StorePrevious, Vme!vars, InColumn
  <2>. QED  BY <2>1, TilesAlternate DEF TilesInv, HoldsA
<1>4. CASE Prefetching
  <2>1. aTile' \in ATiles /\ (CleanShape(shape) => Prefetched)
    BY <1>4, PrefetchTiles
  <2>2. SUFFICES ASSUME CleanShape(shape)
                 PROVE  /\ InColumn' => /\ HoldsA(Vme!ATile, k0, T)'
                                        /\ (k0 + T < Vme!K)' => HoldsA(Vme!OtherA, k0 + T, k)'
                                        /\ (k0 + T >= Vme!K /\ n0 + T < Vme!N)' => HoldsA("mt0", 0, k)'
                        /\ (pc = "columns" /\ n0 + T < Vme!N)' => HoldsA("mt0", 0, T)'
    BY <2>1 DEF TilesInv
  <2>3. Prefetched /\ UNCHANGED << m0, n0 >> /\ Vme!K' = Vme!K /\ Vme!N' = Vme!N
    BY <1>4, <2>1, <2>2, PrefetchControl
  <2>4. CASE k + 1 < T
    <3>1. k' = k + 1 /\ k0' = k0 /\ pc' = "multiply" /\ 0 .. k' - 1 = 0 .. k
      BY <1>0, <1>4, <2>4, PrefetchControl
    <3>2. Vme!ATile' = Vme!ATile /\ Vme!OtherA' = Vme!OtherA
      BY <3>1, TilesAlternate
    <3>. QED  BY <2>3, <3>1, <3>2, Complete DEF Prefetched, HoldsA, Vme!Blk
  <2>5. CASE k + 1 = T
    <3>1. k' = 0 /\ k0' = k0 + T /\ 0 .. k' - 1 = {} /\ 0 .. k = Vme!Blk
          /\ \/ k0 + T < Vme!K /\ pc' = "multiply"
             \/ k0 + T = Vme!K /\ pc' = "columns"
      BY <1>0, <1>4, <2>5, PrefetchControl DEF Vme!Blk
    <3>2. Vme!ATile' = Vme!OtherA
      BY <3>1, TilesAlternate
    <3>3. CASE k0 + T < Vme!K /\ pc' = "multiply"
      <4>1. HoldsA(Vme!ATile, k0, T)'
        BY <2>3, <3>1, <3>2, <3>3, Complete DEF Prefetched, HoldsA, Vme!Blk
      <4>. QED  BY <3>1, <3>3, <4>1 DEF HoldsA
    <3>4. CASE k0 + T = Vme!K /\ pc' = "columns"
      <4>1. n0 + T < Vme!N => \A r \in Vme!Blk, c \in Vme!Blk : aTile'["mt0"][<< r, c >>] = << m0 + c, 0 + r >>
        <5>1. k0 + T >= Vme!K
          BY <1>0, <3>4
        <5>2. n0 + T < Vme!N =>
                \A r \in Vme!Blk, c \in 0 .. k : aTile'["mt0"][<< r, c >>] = << m0 + c, 0 + r >>
          BY <2>3, <5>1 DEF Prefetched
        <5>. QED  BY <3>1, <5>2
      <4>2. ~ InColumn'
        BY <3>4 DEF InColumn
      <4>. QED  BY <2>3, <3>4, <4>1, <4>2, Complete DEF HoldsA, Vme!Blk
    <3>. QED  BY <3>1, <3>3, <3>4
  <2>. QED  BY <1>4, <2>4, <2>5, PrefetchControl
<1>5. CASE Vme!NextColumn
  <2>1. pc = "columns" /\ aTile' = aTile /\ k' = k /\ k = 0 /\ k0' = 0 /\ n0' = n0 + T
    BY <1>5 DEF Vme!NextColumn, ControlInv
  <2>2. Vme!ATile' = "mt0" /\ 0 .. k' - 1 = {}
    BY <2>1, TilesAlternate
  <2>3. CASE n0 + T < Vme!N
    <3>1. pc' = "multiply" /\ m0' = m0
      BY <1>5, <2>3 DEF Vme!NextColumn
    <3>2. CleanShape(shape) => HoldsA(Vme!ATile, k0, T)'
      BY <2>1, <2>2, <2>3, <3>1 DEF TilesInv, HoldsA, Vme!Blk
    <3>. QED  BY <2>1, <2>2, <3>1, <3>2 DEF TilesInv, HoldsA
  <2>4. CASE ~ (n0 + T < Vme!N)
    <3>1. pc' = "rows"
      BY <1>5, <2>4 DEF Vme!NextColumn
    <3>. QED  BY <2>1, <3>1 DEF TilesInv, InColumn
  <2>. QED  BY <2>3, <2>4
<1>. QED
  BY <1>1, <1>2, <1>3, <1>4, <1>5 DEF Vme!Next, Vme!Terminating, Prefetching, Vme!vars

LEMMA VmeTilesInit == Vme!Init => TilesInv
<1>1. << -1, -1 >> \in Int \X Int
  OBVIOUS
<1>. QED  BY <1>1 DEF Vme!Init, TilesInv, ATiles, Vme!NoElement, InColumn

LEMMA VmeOperand ==
  ASSUME ControlInv, TilesInv, CleanShape(shape)
  PROVE  Vme!OperandInTile
<1>1. SUFFICES ASSUME pc = "multiply", NEW r \in Vme!Blk
               PROVE  aTile[Vme!ATile][<< k, r >>] = << m0 + r, k0 + k >>
  BY DEF Vme!OperandInTile
<1>2. HoldsA(Vme!ATile, k0, T) /\ k \in Vme!Blk
  BY <1>1 DEF TilesInv, InColumn, ControlInv
<1>. QED  BY <1>2, Complete DEF HoldsA

-----------------------------------------------------------------------------
(* The tile kernel: C.                                                     *)

Term == (Int \X Int) \X (Int \X Int)
Row  == [from : Int \X Int, sum : Seq(Term)]

(***************************************************************************)
(* The row holds the sums for row i of C from column j, with s products    *)
(* added: for a clean shape those of A's row i and B's column j, in order. *)
(***************************************************************************)
IsRow(row, i, j, s) ==
  /\ row \in Row /\ row.from = << i, j >> /\ Len(row.sum) = s
  /\ CleanShape(shape) => \A x \in 1 .. s : row.sum[x] = << << i, x - 1 >>, << x - 1, j >> >>

\* rows of the C tile before this one that have been stored, in the first of
\* its A tiles
StoredRows == IF pc = "prefetch" THEN k + 1 ELSE k
Pending(r) == n0 # 0 /\ k0 = 0 /\ r >= StoredRows

\* the pieces of C that have been stored
StoredPiece(i, j) ==
  \/ i < m0
  \/ /\ InColumn \/ pc = "columns"
     /\ i < m0 + T
     /\ \/ j + T < n0
        \/ j + T = n0 /\ ~ Pending(i - m0)

PiecesInv ==
  /\ C = [p \in Vme!Pieces |-> C[p]]
  /\ \A p \in Vme!Pieces :
       /\ StoredPiece(p[1], p[2]) => IsRow(C[p], p[1], p[2], Vme!K)
       /\ ~ StoredPiece(p[1], p[2]) => C[p] = Vme!Before(p[1], p[2])

CTiles == [{ "mt4", "mt12" } -> [Vme!Blk -> Row]]

\* products added to the C tile so far
Added == IF pc = "multiply" THEN k0 + k ELSE IF pc = "columns" THEN Vme!K ELSE k0 + k + 1

\* rows of the next C tile that have been loaded
LoadedRows ==
  IF k0 + T >= Vme!K /\ n0 + T < Vme!N THEN IF pc = "columns" THEN T ELSE k ELSE 0

SumsInv ==
  /\ cTile \in CTiles
  /\ InColumn \/ pc = "columns" =>
       /\ \A r \in Vme!Blk : IsRow(cTile[Vme!CTile][r], m0 + r, n0, Added)
       /\ \A r \in Vme!Blk : Pending(r) => IsRow(cTile[Vme!OtherC][r], m0 + r, n0 - T, Vme!K)
       /\ \A r \in Vme!Blk :
            r < LoadedRows => cTile[Vme!OtherC][r] = Vme!Before(m0 + r, n0 + T)

\* the row is not finished, or it is in C
Kept(t, r) ==
  Len(cTile[t][r].sum) = Vme!K =>
    cTile[t][r].from \in Vme!Pieces /\ C[cTile[t][r].from] = cTile[t][r]

KeptInv ==
  Vme!Accepted =>
    \A t \in { "mt4", "mt12" }, r \in Vme!Blk :
      \/ (InColumn \/ pc = "columns") /\ (t = Vme!CTile \/ Pending(r))
      \/ Kept(t, r)

CInv == PiecesInv /\ SumsInv /\ KeptInv

LEMMA VmePieces == Vme!Pieces = (0 .. Vme!M - 1) \X { j \in 0 .. Vme!N - 1 : j % T = 0 }
BY DEF Vme!Pieces, Vme!Sums!Pieces, Vme!Asked

LEMMA SamePieces == [Vme!Next]_(Vme!vars) => Vme!Pieces' = Vme!Pieces
BY SameShape DEF Vme!Pieces, Vme!Sums!Pieces, Vme!Asked

LEMMA VmeBefore ==
  ASSUME NEW i, NEW j
  PROVE  Vme!Before(i, j) = [from |-> << i, j >>, sum |-> << >>]
BY DEF Vme!Before, Vme!Sums!Before

LEMMA BeforeIsRow ==
  ASSUME NEW i \in Nat, NEW j \in Nat
  PROVE  IsRow(Vme!Before(i, j), i, j, 0) /\ Len(Vme!Before(i, j).sum) = 0
<1>1. Vme!Before(i, j) \in Row
  <2>1. << >> \in Seq(Term) /\ << i, j >> \in Int \X Int
    OBVIOUS
  <2>. QED  BY <2>1, VmeBefore DEF Row
<1>. QED  BY <1>1, VmeBefore DEF IsRow

LEMMA RowAdd ==
  ASSUME NEW i \in Nat, NEW row, NEW a \in Int \X Int, ControlInv,
         IsRow(row, i, n0, k0 + k), CleanShape(shape) => a = << i, k0 + k >>
  PROVE  IsRow(Vme!AddProduct(row, a), i, n0, k0 + k + 1)
<1>1. k0 + k \in Nat /\ n0 \in Nat
  BY VmeSizes
<1>2. PICK s \in Nat : s = k0 + k
  BY <1>1
<1>3. << a, << s, n0 >> >> \in Term
  BY <1>1, <1>2 DEF Term
<1>4. row.sum \in Seq(Term) /\ row.from = << i, n0 >> /\ Len(row.sum) = s /\ row \in Row
  BY <1>2 DEF IsRow, Row
<1>5. PICK u \in Seq(Term) : u = Append(row.sum, << a, << s, n0 >> >>)
  BY <1>3, <1>4, AppendProperties
<1>6. /\ Len(u) = s + 1 /\ u[s + 1] = << a, << s, n0 >> >>
      /\ \A x \in 1 .. s : u[x] = row.sum[x]
  BY <1>3, <1>4, <1>5, AppendProperties
<1>7. Vme!AddProduct(row, a) = [from |-> << i, n0 >>, sum |-> u]
  <2>1. row = [from |-> << i, n0 >>, sum |-> row.sum]
    BY <1>4 DEF Row
  <2>2. Vme!AddProduct(row, a) = [row EXCEPT !.sum = u]
    BY <1>2, <1>5 DEF Vme!AddProduct
  <2>. QED  BY <2>1, <2>2
<1>8. Vme!AddProduct(row, a) \in Row
  BY <1>1, <1>7 DEF Row
<1>9. CleanShape(shape) => \A x \in 1 .. s + 1 : u[x] = << << i, x - 1 >>, << x - 1, n0 >> >>
  <2>1. CleanShape(shape) => \A x \in 1 .. s : row.sum[x] = << << i, x - 1 >>, << x - 1, n0 >> >>
    BY <1>2 DEF IsRow
  <2>2. CleanShape(shape) => a = << i, s >>
    BY <1>2
  <2>3. \A x \in 1 .. s + 1 : x \in 1 .. s \/ x = s + 1
    OBVIOUS
  <2>4. (s + 1) - 1 = s
    OBVIOUS
  <2>. QED  BY <1>6, <2>1, <2>2, <2>3, <2>4
<1>. QED  BY <1>2, <1>6, <1>7, <1>8, <1>9 DEF IsRow

LEMMA CTilesAlternate ==
  ASSUME ControlInv
  PROVE  /\ Vme!CTile \in { "mt4", "mt12" } /\ Vme!OtherC \in { "mt4", "mt12" }
         /\ Vme!OtherC # Vme!CTile
         /\ \A t \in { "mt4", "mt12" } : t = Vme!CTile \/ t = Vme!OtherC
         /\ n0' = n0 => Vme!CTile' = Vme!CTile /\ Vme!OtherC' = Vme!OtherC
         /\ n0' = n0 + T => Vme!CTile' = Vme!OtherC /\ Vme!OtherC' = Vme!CTile
         /\ n0' = 0 => Vme!CTile' = "mt4"
<1>1. T \in Nat \ {0} /\ n0 \in Nat /\ n0 % T = 0
  BY VmeSizes DEF ControlInv
<1>2. (n0 + T) \div T = (n0 \div T) + 1 /\ n0 \div T \in Nat
  BY <1>1, NextMultiple, MultipleIs
<1>3. 0 \div T = 0
  BY <1>1, Multiple
<1>. QED  BY <1>2, <1>3 DEF Vme!CTile, Vme!OtherC

\* the rows of a tile are rows of C
LEMMA PieceHere ==
  ASSUME ControlInv, InColumn \/ pc = "columns" \/ (pc = "rows" /\ m0 < Vme!M),
         NEW r \in Vme!Blk, NEW j \in Nat, j % T = 0, j < Vme!N
  PROVE  << m0 + r, j >> \in Vme!Pieces /\ m0 + r \in Nat
<1>0. /\ T \in Nat \ {0} /\ m0 \in Nat /\ Vme!M \in Nat /\ Vme!N \in Nat /\ m0 < Vme!M
      /\ m0 % T = 0 /\ Vme!Accepted /\ Vme!M % T = 0
  BY VmeSizes DEF ControlInv, InColumn
<1>1. m0 + T =< Vme!M
  BY <1>0, MultiplesApart
<1>2. r \in Nat /\ r < T
  BY <1>0 DEF Vme!Blk
<1>3. m0 + r \in 0 .. Vme!M - 1 /\ j \in 0 .. Vme!N - 1
  BY <1>0, <1>1, <1>2
<1>. QED  BY <1>3, VmePieces

\* a step leaves a piece of C alone or takes it from what it was at first
WrittenOnce == \A p \in Vme!Pieces : C'[p] = C[p] \/ C[p] = Vme!Before(p[1], p[2])

\* a row that is in C stays there while only untouched pieces are written
LEMMA StaysKept ==
  ASSUME ControlInv, [Vme!Next]_(Vme!vars), Vme!Accepted,
         NEW t \in { "mt4", "mt12" }, NEW r \in Vme!Blk, Kept(t, r), cTile'[t][r] = cTile[t][r],
         WrittenOnce
  PROVE  Kept(t, r)'
<1>1. Vme!Pieces' = Vme!Pieces /\ Vme!K' = Vme!K /\ Vme!K # 0
  <2>1. Vme!K # 0
    BY VmeSizes
  <2>2. Vme!K' = Vme!K
    BY SameShape
  <2>3. Vme!Pieces' = Vme!Pieces
    BY SamePieces
  <2>. QED  BY <2>1, <2>2, <2>3
<1>2. SUFFICES ASSUME Len(cTile[t][r].sum) = Vme!K
               PROVE  C'[cTile[t][r].from] = cTile[t][r] /\ cTile[t][r].from \in Vme!Pieces
  BY <1>1 DEF Kept
<1>3. cTile[t][r].from \in Vme!Pieces /\ C[cTile[t][r].from] = cTile[t][r]
  BY <1>2 DEF Kept
<1>4. PICK p \in Vme!Pieces : p = cTile[t][r].from
  BY <1>3
<1>5. p[1] \in Nat /\ p[2] \in Nat
  BY VmePieces
<1>6. C[p] # Vme!Before(p[1], p[2])
  BY <1>1, <1>2, <1>3, <1>4, <1>5, BeforeIsRow
<1>. QED  BY <1>3, <1>4, <1>6 DEF WrittenOnce

\* the facts about the sizes that the steps below need
LEMMA VmeRanges ==
  ASSUME ControlInv
  PROVE  /\ T \in Nat \ {0} /\ k \in Nat /\ k < T /\ k \in Vme!Blk
         /\ \A r \in Vme!Blk : r \in Nat /\ r < T
         /\ k0 \in Nat /\ n0 \in Nat /\ m0 \in Nat
         /\ Vme!M \in Nat /\ Vme!K \in Nat /\ Vme!N \in Nat
         /\ m0 % T = 0 /\ n0 % T = 0 /\ k0 % T = 0
BY VmeSizes DEF ControlInv, Vme!Blk

LEMMA MultiplySums ==
  ASSUME ControlInv, TilesInv, CInv, Vme!Multiply, [Vme!Next]_(Vme!vars)
  PROVE  CInv'
<1>. USE VmeRanges, SameShape
<1>1. /\ pc = "multiply" /\ pc' = "store"
      /\ cTile' = [cTile EXCEPT ![Vme!CTile] =
                     [r \in Vme!Blk |-> Vme!AddProduct(@[r], aTile[Vme!ATile][<< k, r >>])]]
      /\ UNCHANGED << m0, n0, k0, k, C >>
  BY DEF Vme!Multiply
<1>2. /\ InColumn /\ InColumn' /\ Added = k0 + k /\ Added' = k0 + k + 1
      /\ StoredRows' = StoredRows /\ LoadedRows' = LoadedRows
      /\ Vme!CTile' = Vme!CTile /\ Vme!OtherC' = Vme!OtherC
      /\ \A r : Pending(r)' = Pending(r)
  BY <1>1, CTilesAlternate DEF InColumn, Added, StoredRows, LoadedRows, Pending
<1>3. ASSUME NEW r \in Vme!Blk
      PROVE  LET row == Vme!AddProduct(cTile[Vme!CTile][r], aTile[Vme!ATile][<< k, r >>])
             IN  IsRow(row, m0 + r, n0, k0 + k + 1)
  <2>1. PICK a : a = aTile[Vme!ATile][<< k, r >>]
    OBVIOUS
  <2>2. a \in Int \X Int
    BY <2>1, TilesAlternate DEF TilesInv, ATiles
  <2>3. CleanShape(shape) => a = << m0 + r, k0 + k >>
    BY <1>2, <2>1, Complete DEF TilesInv, HoldsA
  <2>4. IsRow(cTile[Vme!CTile][r], m0 + r, n0, k0 + k)
    BY <1>2 DEF CInv, SumsInv
  <2>5. PICK i \in Nat : i = m0 + r
    OBVIOUS
  <2>6. IsRow(Vme!AddProduct(cTile[Vme!CTile][r], a), i, n0, k0 + k + 1)
    BY <2>2, <2>3, <2>4, <2>5, RowAdd
  <2>. QED  BY <2>1, <2>5, <2>6
<1>4. PICK sums \in [Vme!Blk -> Row] :
        /\ cTile' = [cTile EXCEPT ![Vme!CTile] = sums]
        /\ \A r \in Vme!Blk : IsRow(sums[r], m0 + r, n0, k0 + k + 1)
  <2>1. PICK sums : sums = [r \in Vme!Blk |-> Vme!AddProduct(cTile[Vme!CTile][r],
                                                            aTile[Vme!ATile][<< k, r >>])]
    OBVIOUS
  <2>2. \A r \in Vme!Blk : IsRow(sums[r], m0 + r, n0, k0 + k + 1)
    BY <1>3, <2>1
  <2>3. sums \in [Vme!Blk -> Row]
    BY <2>1, <2>2 DEF IsRow
  <2>. QED  BY <1>1, <2>1, <2>2, <2>3
<1>5. /\ cTile' \in CTiles /\ cTile'[Vme!CTile] = sums
      /\ cTile'[Vme!OtherC] = cTile[Vme!OtherC]
  BY <1>4, CTilesAlternate DEF CInv, SumsInv, CTiles
<1>6. PiecesInv'
  <2>1. \A i, j : StoredPiece(i, j)' = StoredPiece(i, j)
    BY <1>1, <1>2 DEF StoredPiece
  <2>. QED  BY <1>1, <2>1, SamePieces DEF CInv, PiecesInv, IsRow, Vme!Before, Vme!Sums!Before
<1>7. SumsInv'
  <2>1. \A r \in Vme!Blk : IsRow(cTile[Vme!CTile][r], m0 + r, n0, Added)'
    BY <1>1, <1>2, <1>4, <1>5 DEF IsRow
  <2>2. ASSUME NEW r \in Vme!Blk, Pending(r)
        PROVE  IsRow(cTile[Vme!OtherC][r], m0 + r, n0 - T, Vme!K)'
    <3>1. IsRow(cTile[Vme!OtherC][r], m0 + r, n0 - T, Vme!K)
      BY <1>2, <2>2 DEF CInv, SumsInv
    <3>. QED  BY <1>1, <1>2, <1>5, <3>1 DEF IsRow
  <2>3. ASSUME NEW r \in Vme!Blk, r < LoadedRows
        PROVE  (cTile[Vme!OtherC][r] = Vme!Before(m0 + r, n0 + T))'
    <3>1. cTile[Vme!OtherC][r] = Vme!Before(m0 + r, n0 + T)
      BY <1>2, <2>3 DEF CInv, SumsInv
    <3>. QED  BY <1>1, <1>2, <1>5, <3>1, VmeBefore DEF Vme!Before, Vme!Sums!Before
  <2>. QED  BY <1>2, <1>5, <2>1, <2>2, <2>3 DEF SumsInv, CTiles, Vme!Blk
<1>8. KeptInv'
  <2>1. SUFFICES ASSUME Vme!Accepted, NEW t \in { "mt4", "mt12" }, NEW r \in Vme!Blk,
                        t # Vme!CTile, ~ Pending(r)
                 PROVE  Kept(t, r)'
    BY <1>2 DEF KeptInv, Vme!Blk
  <2>2. Kept(t, r) /\ cTile'[t][r] = cTile[t][r]
    BY <1>5, <2>1, CTilesAlternate DEF CInv, KeptInv
  <2>. QED  BY <1>1, <2>1, <2>2, StaysKept DEF WrittenOnce
<1>. QED  BY <1>6, <1>7, <1>8 DEF CInv

LEMMA StoreSums ==
  ASSUME ControlInv, CInv, Vme!StorePrevious, [Vme!Next]_(Vme!vars)
  PROVE  CInv' /\ WrittenOnce
<1>. USE VmeRanges, SameShape
<1>1. /\ pc = "store" /\ pc' = "prefetch" /\ UNCHANGED << m0, n0, k0, k, cTile >>
      /\ C' = IF k0 = 0 /\ n0 # 0 THEN Vme!StoreCRow(Vme!OtherC, k, n0 - T) ELSE C
  BY DEF Vme!StorePrevious
<1>2. /\ InColumn /\ InColumn' /\ Added' = Added /\ LoadedRows' = LoadedRows
      /\ StoredRows = k /\ StoredRows' = k + 1
      /\ Vme!CTile' = Vme!CTile /\ Vme!OtherC' = Vme!OtherC
  BY <1>1, CTilesAlternate DEF InColumn, Added, StoredRows, LoadedRows
<1>3. \A r \in Vme!Blk : Pending(r)' <=> Pending(r) /\ r # k
  BY <1>1, <1>2 DEF Pending
<1>4. SumsInv'
  <2>1. \A r \in Vme!Blk : IsRow(cTile[Vme!CTile][r], m0 + r, n0, Added)'
    BY <1>1, <1>2 DEF CInv, SumsInv, IsRow
  <2>2. ASSUME NEW r \in Vme!Blk, Pending(r)'
        PROVE  IsRow(cTile[Vme!OtherC][r], m0 + r, n0 - T, Vme!K)'
    <3>1. IsRow(cTile[Vme!OtherC][r], m0 + r, n0 - T, Vme!K)
      BY <1>2, <1>3, <2>2 DEF CInv, SumsInv
    <3>. QED  BY <1>1, <1>2, <3>1 DEF IsRow
  <2>3. ASSUME NEW r \in Vme!Blk, r < LoadedRows
        PROVE  (cTile[Vme!OtherC][r] = Vme!Before(m0 + r, n0 + T))'
    <3>1. cTile[Vme!OtherC][r] = Vme!Before(m0 + r, n0 + T)
      BY <1>2, <2>3 DEF CInv, SumsInv
    <3>. QED  BY <1>1, <1>2, <3>1 DEF Vme!Before, Vme!Sums!Before
  <2>. QED  BY <1>1, <1>2, <2>1, <2>2, <2>3 DEF CInv, SumsInv, Vme!Blk
<1>5. CASE k0 = 0 /\ n0 # 0
  <2>1. PICK q : q = << m0 + k, n0 - T >>
    OBVIOUS
  <2>2. n0 - T \in Nat /\ (n0 - T) % T = 0 /\ n0 - T < Vme!N
    <3>1. 0 % T = 0 /\ 0 < n0 /\ 0 \in Nat
      BY <1>5
    <3>2. T =< n0
      BY <3>1, MultiplesApart
    <3>3. n0 < Vme!N
      BY <1>2 DEF ControlInv
    <3>4. (n0 - T) % T = 0
      <4>1. PICK a \in Nat : n0 = a * T
        BY MultipleIs
      <4>2. a # 0
        BY <3>1, <4>1
      <4>3. n0 - T = (a - 1) * T /\ a - 1 \in Nat
        BY <4>1, <4>2
      <4>. QED  BY <4>3, Multiple
    <3>. QED  BY <3>2, <3>3, <3>4
  <2>3. q \in Vme!Pieces /\ q[1] = m0 + k /\ q[2] = n0 - T /\ m0 + k \in Nat
    BY <1>2, <2>1, <2>2, PieceHere
  <2>4. C' = [C EXCEPT ![q] = cTile[Vme!OtherC][k]]
    BY <1>1, <1>5, <2>1 DEF Vme!StoreCRow
  <2>5. /\ C' = [p \in Vme!Pieces |-> C'[p]] /\ C'[q] = cTile[Vme!OtherC][k]
        /\ \A p \in Vme!Pieces : p # q => C'[p] = C[p]
    BY <2>3, <2>4 DEF CInv, PiecesInv
  <2>6. Pending(k) /\ IsRow(cTile[Vme!OtherC][k], m0 + k, n0 - T, Vme!K)
    BY <1>2, <1>5 DEF Pending, CInv, SumsInv
  <2>7. ~ StoredPiece(q[1], q[2])
    BY <1>2, <2>2, <2>3, <2>6 DEF StoredPiece
  <2>8. StoredPiece(q[1], q[2])'
    BY <1>1, <1>2, <2>2, <2>3 DEF StoredPiece, Pending
  <2>9. \A p \in Vme!Pieces : p # q => StoredPiece(p[1], p[2])' = StoredPiece(p[1], p[2])
    <3>1. SUFFICES ASSUME NEW i \in Nat, NEW j \in Nat, << i, j >> # << m0 + k, n0 - T >>
                   PROVE  StoredPiece(i, j)' = StoredPiece(i, j)
      <4>1. \A p \in Vme!Pieces : p[1] \in Nat /\ p[2] \in Nat /\ p = << p[1], p[2] >>
        BY VmePieces
      <4>. QED  BY <2>1, <4>1
    <3>2. CASE j + T = n0
      <4>1. i # m0 + k
        BY <3>1, <3>2
      <4>2. m0 =< i => (Pending(i - m0)' <=> Pending(i - m0))
        BY <1>1, <1>2, <4>1 DEF Pending
      <4>. QED  BY <1>1, <1>2, <4>2 DEF StoredPiece
    <3>3. CASE j + T # n0
      BY <1>1, <1>2, <3>3 DEF StoredPiece
    <3>. QED  BY <3>2, <3>3
  <2>10. PiecesInv'
    <3>1. ASSUME NEW p \in Vme!Pieces
          PROVE  /\ StoredPiece(p[1], p[2])' => IsRow(C'[p], p[1], p[2], Vme!K)
                 /\ ~ StoredPiece(p[1], p[2])' => C'[p] = Vme!Before(p[1], p[2])
      <4>1. CASE p = q
        BY <2>3, <2>5, <2>6, <2>8, <4>1
      <4>2. CASE p # q
        BY <2>5, <2>9, <4>2 DEF CInv, PiecesInv
      <4>. QED  BY <4>1, <4>2
    <3>. QED  BY <2>5, <3>1, SamePieces DEF PiecesInv, IsRow, Vme!Before, Vme!Sums!Before
  <2>11. WrittenOnce
    BY <2>5, <2>7 DEF CInv, PiecesInv, WrittenOnce
  <2>12. KeptInv'
    <3>1. SUFFICES ASSUME Vme!Accepted, NEW t \in { "mt4", "mt12" }, NEW r \in Vme!Blk,
                          t # Vme!CTile, ~ (Pending(r) /\ r # k)
                   PROVE  Kept(t, r)'
      BY <1>2, <1>3 DEF KeptInv, Vme!Blk
    <3>2. t = Vme!OtherC
      BY <3>1, CTilesAlternate
    <3>3. CASE r = k
      <4>1. cTile'[t][r] = cTile[Vme!OtherC][k] /\ cTile'[t][r].from = q
        BY <1>1, <2>1, <2>6, <3>2, <3>3 DEF IsRow
      <4>. QED  BY <2>3, <2>5, <4>1, SamePieces DEF Kept
    <3>4. CASE r # k
      <4>1. Kept(t, r)
        BY <3>1, <3>4 DEF CInv, KeptInv
      <4>. QED  BY <1>1, <2>11, <3>1, <4>1, StaysKept
    <3>. QED  BY <3>3, <3>4
  <2>. QED  BY <1>4, <2>10, <2>11, <2>12 DEF CInv
<1>6. CASE ~ (k0 = 0 /\ n0 # 0)
  <2>1. C' = C /\ \A r : ~ Pending(r) /\ ~ Pending(r)'
    BY <1>1, <1>6 DEF Pending
  <2>2. \A i, j : StoredPiece(i, j)' = StoredPiece(i, j)
    BY <1>1, <1>2, <2>1 DEF StoredPiece
  <2>3. PiecesInv'
    BY <2>1, <2>2, SamePieces DEF CInv, PiecesInv, IsRow, Vme!Before, Vme!Sums!Before
  <2>4. KeptInv'
    <3>1. SUFFICES ASSUME Vme!Accepted, NEW t \in { "mt4", "mt12" }, NEW r \in Vme!Blk,
                          t # Vme!CTile
                   PROVE  Kept(t, r)'
      BY <1>2 DEF KeptInv, Vme!Blk
    <3>2. Kept(t, r)
      BY <2>1, <3>1 DEF CInv, KeptInv
    <3>. QED  BY <1>1, <2>1, <3>1, <3>2, StaysKept DEF WrittenOnce
  <2>. QED  BY <1>4, <2>1, <2>3, <2>4 DEF CInv, WrittenOnce
<1>. QED  BY <1>5, <1>6

LEMMA PrefetchSums ==
  ASSUME ControlInv, CInv, Prefetching, [Vme!Next]_(Vme!vars)
  PROVE  CInv'
<1>. USE VmeRanges, SameShape
<1>1. /\ pc = "prefetch" /\ UNCHANGED << m0, n0, C >>
      /\ InColumn /\ (InColumn' \/ pc' = "columns")
      /\ Vme!CTile' = Vme!CTile /\ Vme!OtherC' = Vme!OtherC
  BY PrefetchControl, CTilesAlternate DEF Prefetching, Vme!PrefetchA, Vme!PrefetchNextColumn,
     Vme!PrefetchNothing, InColumn
<1>2. \A r \in Vme!Blk : Pending(r)' <=> Pending(r)
  BY PrefetchControl DEF Pending, StoredRows
<1>3. Added' = Added
  BY <1>1, PrefetchControl DEF Added
<1>4. /\ cTile' \in CTiles /\ cTile'[Vme!CTile] = cTile[Vme!CTile]
      /\ \A r \in Vme!Blk : cTile'[Vme!OtherC][r] = cTile[Vme!OtherC][r]
                            \/ /\ r = k /\ k0 + T >= Vme!K /\ n0 + T < Vme!N
                               /\ cTile'[Vme!OtherC][r] = Vme!Before(m0 + k, n0 + T)
      /\ k0 + T >= Vme!K /\ n0 + T < Vme!N =>
            cTile'[Vme!OtherC][k] = Vme!Before(m0 + k, n0 + T)
  <2>1. CASE Vme!PrefetchA \/ Vme!PrefetchNothing
    <3>1. cTile' = cTile /\ ~ (k0 + T >= Vme!K /\ n0 + T < Vme!N)
      BY <2>1 DEF Vme!PrefetchA, Vme!PrefetchNothing
    <3>. QED  BY <3>1 DEF CInv, SumsInv
  <2>2. CASE Vme!PrefetchNextColumn
    <3>1. cTile' = [cTile EXCEPT ![Vme!OtherC][k] = C[<< m0 + k, n0 + T >>]]
          /\ k0 + T >= Vme!K /\ n0 + T < Vme!N
      BY <2>2 DEF Vme!PrefetchNextColumn, Vme!LoadCRow
    <3>2. (n0 + T) % T = 0 /\ n0 + T \in Nat
      <4>1. T \in Nat \ {0} /\ n0 \in Nat /\ n0 % T = 0
        OBVIOUS
      <4>2. (n0 + T) % T = 0
        BY ONLY <4>1, NextMultiple
      <4>. QED  BY <4>2
    <3>3. << m0 + k, n0 + T >> \in Vme!Pieces /\ m0 + k \in Nat
      BY <1>1, <3>1, <3>2, PieceHere
    <3>4. ~ StoredPiece(m0 + k, n0 + T)
      BY DEF StoredPiece
    <3>5. C[<< m0 + k, n0 + T >>] = Vme!Before(m0 + k, n0 + T)
      <4>1. PICK p \in Vme!Pieces : p = << m0 + k, n0 + T >>
        BY <3>3
      <4>2. p[1] = m0 + k /\ p[2] = n0 + T
        BY <4>1
      <4>. QED  BY <3>4, <4>1, <4>2 DEF CInv, PiecesInv
    <3>6. Vme!Before(m0 + k, n0 + T) \in Row
      BY <3>2, <3>3, BeforeIsRow DEF IsRow
    <3>. QED  BY <3>1, <3>5, <3>6, CTilesAlternate DEF CInv, SumsInv, CTiles
  <2>. QED  BY <2>1, <2>2 DEF Prefetching
<1>5. PiecesInv'
  <2>1. \A i \in Nat, j \in Nat : StoredPiece(i, j)' = StoredPiece(i, j)
    <3>1. SUFFICES ASSUME NEW i \in Nat, NEW j \in Nat, m0 =< i, i < m0 + T
                   PROVE  StoredPiece(i, j)' = StoredPiece(i, j)
      BY <1>1 DEF StoredPiece
    <3>2. i - m0 \in Vme!Blk
      BY <3>1 DEF Vme!Blk
    <3>. QED  BY <1>1, <1>2, <3>2 DEF StoredPiece
  <2>2. \A p \in Vme!Pieces : p[1] \in Nat /\ p[2] \in Nat
    BY VmePieces
  <2>. QED  BY <1>1, <2>1, <2>2, SamePieces DEF CInv, PiecesInv, IsRow, Vme!Before, Vme!Sums!Before
<1>6. SumsInv'
  <2>1. \A r \in Vme!Blk : IsRow(cTile[Vme!CTile][r], m0 + r, n0, Added)'
    BY <1>1, <1>3, <1>4 DEF CInv, SumsInv, IsRow
  <2>2. ASSUME NEW r \in Vme!Blk, Pending(r)
        PROVE  IsRow(cTile[Vme!OtherC][r], m0 + r, n0 - T, Vme!K)'
    <3>1. IsRow(cTile[Vme!OtherC][r], m0 + r, n0 - T, Vme!K)
      BY <1>1, <2>2 DEF CInv, SumsInv
    <3>2. r # k
      BY <1>1, <2>2 DEF Pending, StoredRows
    <3>. QED  BY <1>1, <1>4, <3>1, <3>2 DEF IsRow
  <2>3. ASSUME NEW r \in Vme!Blk, (r < LoadedRows)'
        PROVE  (cTile[Vme!OtherC][r] = Vme!Before(m0 + r, n0 + T))'
    <3>1. k0 + T >= Vme!K /\ n0 + T < Vme!N /\ r < k + 1
      BY <1>1, <2>3, PrefetchControl DEF LoadedRows
    <3>2. r = k \/ cTile[Vme!OtherC][r] = Vme!Before(m0 + r, n0 + T)
      <4>1. LoadedRows = k
        BY <1>1, <3>1 DEF LoadedRows
      <4>2. r = k \/ r < LoadedRows
        BY <3>1, <4>1
      <4>. QED  BY <1>1, <4>2 DEF CInv, SumsInv
    <3>3. cTile'[Vme!OtherC][r] = Vme!Before(m0 + r, n0 + T)
      BY <1>4, <3>1, <3>2
    <3>. QED  BY <1>1, <3>3 DEF Vme!Before, Vme!Sums!Before
  <2>. QED  BY <1>2, <1>4, <2>1, <2>2, <2>3 DEF SumsInv, Vme!Blk
<1>7. KeptInv'
  <2>1. SUFFICES ASSUME Vme!Accepted, NEW t \in { "mt4", "mt12" }, NEW r \in Vme!Blk,
                        t # Vme!CTile, ~ Pending(r)
                 PROVE  Kept(t, r)'
    BY <1>1, <1>2 DEF KeptInv, Vme!Blk
  <2>2. t = Vme!OtherC /\ Kept(t, r)
    BY <2>1, CTilesAlternate DEF CInv, KeptInv
  <2>3. CASE cTile'[t][r] = cTile[t][r]
    BY <1>1, <2>1, <2>2, <2>3, StaysKept DEF WrittenOnce
  <2>4. CASE cTile'[t][r] # cTile[t][r]
    <3>1. Len(cTile'[t][r].sum) = 0 /\ m0 + k \in Nat /\ n0 + T \in Nat
      BY <1>4, <2>2, <2>4, BeforeIsRow
    <3>2. Vme!K # 0
      BY <2>1, VmeSizes
    <3>. QED  BY <3>1, <3>2 DEF Kept
  <2>. QED  BY <2>3, <2>4
<1>. QED  BY <1>5, <1>6, <1>7 DEF CInv

LEMMA EnterSums ==
  ASSUME ControlInv, CInv, Vme!EnterRows, [Vme!Next]_(Vme!vars)
  PROVE  CInv'
<1>. USE VmeRanges, SameShape
<1>1. /\ pc = "rows" /\ m0 < Vme!M /\ pc' = "multiply"
      /\ cTile' = [cTile EXCEPT !["mt4"] = [r \in Vme!Blk |-> C[<< m0 + r, 0 >>]]]
      /\ n0' = 0 /\ k0' = 0 /\ k' = 0 /\ UNCHANGED << m0, C >>
  BY DEF Vme!EnterRows
<1>2. ~ InColumn /\ InColumn' /\ Added' = 0 /\ LoadedRows' = 0 /\ \A r : ~ Pending(r)'
  BY <1>1 DEF InColumn, Added, LoadedRows, Pending
<1>3. \A i \in Nat, j \in Nat : (StoredPiece(i, j) <=> i < m0) /\ (StoredPiece(i, j)' <=> i < m0)
  BY <1>1, <1>2 DEF StoredPiece
<1>4. ASSUME NEW r \in Vme!Blk
      PROVE  m0 + r \in Nat /\ C[<< m0 + r, 0 >>] = Vme!Before(m0 + r, 0)
  <2>1. 0 % T = 0 /\ 0 < Vme!N
    BY <1>1, VmeSizes DEF ControlInv
  <2>2. PICK p \in Vme!Pieces : p = << m0 + r, 0 >> /\ m0 + r \in Nat
    BY <1>1, <2>1, PieceHere
  <2>3. p[1] = m0 + r /\ p[2] = 0 /\ ~ (m0 + r < m0)
    BY <2>2
  <2>. QED  BY <1>3, <2>2, <2>3 DEF CInv, PiecesInv
<1>5. PICK first \in [Vme!Blk -> Row] :
        /\ cTile' = [cTile EXCEPT !["mt4"] = first]
        /\ \A r \in Vme!Blk : IsRow(first[r], m0 + r, 0, 0)
  <2>1. PICK first : first = [r \in Vme!Blk |-> C[<< m0 + r, 0 >>]]
    OBVIOUS
  <2>2. \A r \in Vme!Blk : IsRow(first[r], m0 + r, 0, 0)
    BY <1>4, <2>1, BeforeIsRow
  <2>3. first \in [Vme!Blk -> Row]
    BY <2>1, <2>2 DEF IsRow
  <2>. QED  BY <1>1, <2>1, <2>2, <2>3
<1>6. /\ cTile' \in CTiles /\ cTile'["mt4"] = first /\ Vme!CTile' = "mt4"
      /\ cTile'["mt12"] = cTile["mt12"]
  BY <1>1, <1>5, CTilesAlternate DEF CInv, SumsInv, CTiles
<1>7. PiecesInv'
  <2>1. \A p \in Vme!Pieces : p[1] \in Nat /\ p[2] \in Nat
    BY VmePieces
  <2>. QED  BY <1>1, <1>3, <2>1, SamePieces DEF CInv, PiecesInv, IsRow, Vme!Before, Vme!Sums!Before
<1>8. SumsInv'
  <2>1. \A r \in Vme!Blk : IsRow(cTile[Vme!CTile][r], m0 + r, n0, Added)'
    BY <1>1, <1>2, <1>5, <1>6 DEF IsRow
  <2>. QED  BY <1>2, <1>6, <2>1 DEF SumsInv, Vme!Blk
<1>9. KeptInv'
  <2>1. SUFFICES ASSUME Vme!Accepted, NEW r \in Vme!Blk PROVE Kept("mt12", r)'
    BY <1>2, <1>6 DEF KeptInv, Vme!Blk
  <2>2. Kept("mt12", r)
    BY <1>1, <1>2, <2>1 DEF CInv, KeptInv
  <2>. QED  BY <1>1, <1>6, <2>1, <2>2, StaysKept DEF WrittenOnce
<1>. QED  BY <1>7, <1>8, <1>9 DEF CInv

LEMMA ColumnSums ==
  ASSUME ControlInv, CInv, Vme!NextColumn, [Vme!Next]_(Vme!vars)
  PROVE  CInv' /\ WrittenOnce
<1>. USE VmeRanges, SameShape
<1>1. /\ pc = "columns" /\ n0' = n0 + T /\ k0' = 0 /\ k' = k /\ k = 0 /\ cTile' = cTile
      /\ ~ InColumn /\ m0 < Vme!M /\ n0 < Vme!N /\ Vme!Accepted
  BY DEF Vme!NextColumn, ControlInv, InColumn
<1>2. /\ Vme!CTile' = Vme!OtherC /\ Vme!OtherC' = Vme!CTile
      /\ \A r \in Vme!Blk : IsRow(cTile[Vme!CTile][r], m0 + r, n0, Vme!K)
  BY <1>1, CTilesAlternate DEF CInv, SumsInv, Added
<1>3. n0 + T =< Vme!N /\ n0 + T \in Nat /\ n0 + T # 0
  BY <1>1, VmeSizes, MultiplesApart
<1>4. \A r : ~ Pending(r)
  BY <1>1, VmeSizes DEF Pending, ControlInv
<1>5. \A p \in Vme!Pieces : /\ p[1] \in Nat /\ p[2] \in Nat /\ p[2] % T = 0 /\ p[2] < Vme!N
                           /\ p = << p[1], p[2] >> /\ (p[2] < n0 => p[2] + T =< n0)
                           /\ (n0 < p[2] => n0 + T =< p[2])
  <2>1. \A p \in Vme!Pieces : /\ p[1] \in Nat /\ p[2] \in Nat /\ p[2] % T = 0 /\ p[2] < Vme!N
                             /\ p = << p[1], p[2] >>
    BY VmePieces
  <2>. QED  BY <2>1, MultiplesApart
<1>6. \A p \in Vme!Pieces :
        StoredPiece(p[1], p[2]) <=> p[1] < m0 \/ (p[1] < m0 + T /\ p[2] < n0)
  BY <1>1, <1>4, <1>5 DEF StoredPiece
<1>7. CASE n0 + T < Vme!N
  <2>1. /\ pc' = "multiply" /\ m0' = m0 /\ C' = C /\ InColumn'
        /\ Added' = 0 /\ LoadedRows' = 0
    BY <1>1, <1>7 DEF Vme!NextColumn, InColumn, Added, LoadedRows
  <2>2. \A r \in Nat : Pending(r)'
    BY <1>1, <1>3, <2>1 DEF Pending, StoredRows
  <2>3. PiecesInv'
    <3>1. \A p \in Vme!Pieces :
            StoredPiece(p[1], p[2])' <=> p[1] < m0 \/ (p[1] < m0 + T /\ p[2] < n0)
      <4>1. SUFFICES ASSUME NEW i \in Nat, NEW j \in Nat
                     PROVE  StoredPiece(i, j)' <=> i < m0 \/ (i < m0 + T /\ j < n0)
        BY <1>5
      <4>2. i < m0 \/ Pending(i - m0)'
        <5>1. i < m0 \/ i - m0 \in Nat
          OBVIOUS
        <5>2. i < m0 \/ \E r \in Nat : r = i - m0' /\ Pending(r)'
          BY <2>1, <2>2, <5>1
        <5>. QED  BY <5>2 DEF Pending, StoredRows
      <4>. QED  BY <1>1, <2>1, <4>2 DEF StoredPiece
    <3>. QED  BY <1>6, <2>1, <3>1, SamePieces DEF CInv, PiecesInv, IsRow, Vme!Before, Vme!Sums!Before
  <2>4. ASSUME NEW r \in Vme!Blk PROVE IsRow(cTile[Vme!OtherC][r], m0 + r, n0 + T, 0)
    <3>1. cTile[Vme!OtherC][r] = Vme!Before(m0 + r, n0 + T) /\ m0 + r \in Nat
      <4>1. LoadedRows = T
        BY <1>1, <1>7 DEF LoadedRows, ControlInv
      <4>2. r < LoadedRows /\ m0 + r \in Nat
        BY <4>1
      <4>. QED  BY <1>1, <4>2 DEF CInv, SumsInv
    <3>. QED  BY <1>3, <3>1, BeforeIsRow
  <2>5. SumsInv'
    <3>1. \A r \in Vme!Blk : IsRow(cTile[Vme!CTile][r], m0 + r, n0, Added)'
      BY <1>1, <1>2, <2>1, <2>4 DEF IsRow
    <3>2. ASSUME NEW r \in Vme!Blk
          PROVE  IsRow(cTile[Vme!OtherC][r], m0 + r, n0 - T, Vme!K)'
      <4>1. (n0 + T) - T = n0
        OBVIOUS
      <4>2. IsRow(cTile[Vme!CTile][r], m0 + r, n0, Vme!K)
        BY <1>2
      <4>. QED  BY <1>1, <1>2, <2>1, <4>1, <4>2 DEF IsRow
    <3>3. cTile \in CTiles
      BY DEF CInv, SumsInv
    <3>. QED  BY <1>1, <2>1, <3>1, <3>2, <3>3 DEF SumsInv, Vme!Blk
  <2>6. KeptInv'
    <3>1. \A t \in { "mt4", "mt12" }, r \in Vme!Blk : t = Vme!CTile' \/ Pending(r)'
      BY <2>2
    <3>. QED  BY <2>1, <3>1 DEF KeptInv, Vme!Blk
  <2>. QED  BY <2>1, <2>3, <2>5, <2>6 DEF CInv, WrittenOnce
<1>8. CASE ~ (n0 + T < Vme!N)
  <2>1. /\ n0 + T = Vme!N /\ pc' = "rows" /\ m0' = m0 + T /\ ~ InColumn'
        /\ C' = [p \in Vme!Pieces |-> IF p[1] \in m0 .. m0 + T - 1 /\ p[2] = n0
                                        THEN cTile[Vme!CTile][p[1] - m0] ELSE C[p]]
    BY <1>1, <1>3, <1>8 DEF Vme!NextColumn, InColumn
  <2>2. \A p \in Vme!Pieces : /\ StoredPiece(p[1], p[2])' <=> p[1] < m0 + T
                             /\ p[2] =< n0
    BY <1>5, <2>1 DEF StoredPiece
  <2>3. ASSUME NEW p \in Vme!Pieces
        PROVE  /\ p[1] < m0 + T => IsRow(C'[p], p[1], p[2], Vme!K)
               /\ ~ (p[1] < m0 + T) => C'[p] = Vme!Before(p[1], p[2])
               /\ C'[p] = C[p] \/ C[p] = Vme!Before(p[1], p[2])
    <3>1. p[1] \in Nat /\ p[2] \in Nat
      BY <1>5
    <3>2. CASE p[1] \in m0 .. m0 + T - 1 /\ p[2] = n0
      <4>1. PICK r \in Vme!Blk : p[1] = m0 + r
        <5>1. p[1] - m0 \in Vme!Blk /\ p[1] = m0 + (p[1] - m0)
          BY <3>1, <3>2 DEF Vme!Blk
        <5>. QED  BY <5>1
      <4>2. C'[p] = cTile[Vme!CTile][r]
        <5>1. (m0 + r) - m0 = r
          OBVIOUS
        <5>. QED  BY <2>1, <3>2, <4>1, <5>1
      <4>3. C[p] = Vme!Before(p[1], p[2])
        BY <1>6, <3>2 DEF CInv, PiecesInv
      <4>. QED  BY <1>2, <3>2, <4>1, <4>2, <4>3
    <3>3. CASE ~ (p[1] \in m0 .. m0 + T - 1 /\ p[2] = n0)
      <4>1. C'[p] = C[p]
        BY <2>1, <3>3
      <4>2. StoredPiece(p[1], p[2]) <=> p[1] < m0 + T
        BY <1>6, <2>2, <3>1, <3>3
      <4>. QED  BY <4>1, <4>2 DEF CInv, PiecesInv
    <3>. QED  BY <3>2, <3>3
  <2>4. PiecesInv'
    BY <2>1, <2>2, <2>3, SamePieces DEF PiecesInv, IsRow, Vme!Before, Vme!Sums!Before
  <2>5. SumsInv'
    BY <1>1, <2>1 DEF CInv, SumsInv, CTiles, Vme!Blk, Row
  <2>6. KeptInv'
    <3>1. SUFFICES ASSUME NEW t \in { "mt4", "mt12" }, NEW r \in Vme!Blk PROVE Kept(t, r)'
      BY DEF KeptInv, Vme!Blk
    <3>2. CASE t = Vme!CTile
      <4>1. IsRow(cTile[t][r], m0 + r, n0, Vme!K)
        BY <1>2, <3>2
      <4>2. PICK p \in Vme!Pieces : p = << m0 + r, n0 >> /\ m0 + r \in Nat
        BY <1>1, PieceHere
      <4>3. C'[p] = cTile[t][r]
        <5>1. p[1] \in m0 .. m0 + T - 1 /\ p[2] = n0 /\ p[1] - m0 = r
          BY <4>2
        <5>. QED  BY <2>1, <3>2, <5>1
      <4>. QED  BY <1>1, <4>1, <4>2, <4>3, SamePieces DEF Kept, IsRow
    <3>3. CASE t # Vme!CTile
      <4>1. Kept(t, r)
        BY <1>1, <1>4, <3>3 DEF CInv, KeptInv
      <4>. QED  BY <1>1, <2>3, <4>1, StaysKept DEF WrittenOnce
    <3>. QED  BY <3>2, <3>3
  <2>. QED  BY <2>3, <2>4, <2>5, <2>6 DEF CInv, WrittenOnce
<1>. QED  BY <1>7, <1>8

LEMMA IdleSums ==
  ASSUME ControlInv, CInv, Vme!Enter \/ Vme!LeaveRows \/ UNCHANGED Vme!vars, [Vme!Next]_(Vme!vars)
  PROVE  CInv'
<1>1. /\ UNCHANGED << m0, n0, k0, k, cTile, C >>
      /\ pc' = pc \/ (pc \in { "enter", "rows" } /\ pc' \in { "rows", "done" })
  BY DEF Vme!Enter, Vme!LeaveRows, Vme!vars
<1>2. (InColumn' <=> InColumn) /\ (pc' = "columns" <=> pc = "columns")
  BY <1>1 DEF InColumn
<1>3. InColumn \/ pc = "columns" => pc' = pc
  BY <1>1 DEF InColumn
<1>4. Vme!CTile' = Vme!CTile /\ Vme!OtherC' = Vme!OtherC
  BY <1>1, CTilesAlternate
<1>5. PiecesInv'
  BY <1>1, <1>2, <1>3, SameShape, SamePieces
  DEF CInv, PiecesInv, StoredPiece, Pending, StoredRows, IsRow, Vme!Before, Vme!Sums!Before
<1>6. SumsInv'
  BY <1>1, <1>2, <1>3, <1>4, SameShape
  DEF CInv, SumsInv, CTiles, Row, Vme!Blk, IsRow, Added, LoadedRows, Pending, StoredRows,
      Vme!Before, Vme!Sums!Before
<1>7. KeptInv'
  BY <1>1, <1>2, <1>3, <1>4, SameShape, SamePieces
  DEF CInv, KeptInv, Kept, Pending, StoredRows, Vme!Blk
<1>. QED  BY <1>5, <1>6, <1>7 DEF CInv

LEMMA VmeSumsStep ==
  ASSUME ControlInv, TilesInv, CInv, [Vme!Next]_(Vme!vars)
  PROVE  CInv' /\ WrittenOnce
<1>1. CASE Vme!StorePrevious \/ Vme!NextColumn
  BY <1>1, StoreSums, ColumnSums
<1>2. CASE ~ (Vme!StorePrevious \/ Vme!NextColumn)
  <2>1. C' = C
    BY <1>2 DEF Vme!Next, Vme!vars, Vme!Enter, Vme!EnterRows, Vme!LeaveRows, Vme!Multiply,
       Vme!PrefetchA, Vme!PrefetchNextColumn, Vme!PrefetchNothing, Vme!Terminating
  <2>2. CInv'
    BY <1>2, MultiplySums, PrefetchSums, EnterSums, IdleSums
    DEF Vme!Next, Vme!Terminating, Prefetching
  <2>. QED  BY <2>1, <2>2 DEF WrittenOnce
<1>. QED  BY <1>1, <1>2

LEMMA VmeSumsInit == Vme!Init /\ ControlInv => CInv
<1>. SUFFICES ASSUME Vme!Init, ControlInv PROVE CInv
  OBVIOUS
<1>1. /\ pc = "enter" /\ m0 = 0 /\ ~ InColumn /\ C = [p \in Vme!Pieces |-> Vme!Before(p[1], p[2])]
      /\ cTile = [t \in { "mt4", "mt12" } |-> [r \in Vme!Blk |-> Vme!NoPiece]]
  BY DEF Vme!Init, InColumn
<1>2. Vme!NoPiece \in Row /\ Len(Vme!NoPiece.sum) = 0
  <2>1. << >> \in Seq(Term) /\ << -1, -1 >> \in Int \X Int
    OBVIOUS
  <2>. QED  BY <2>1 DEF Vme!NoPiece, Vme!NoElement, Row
<1>3. PiecesInv
  <2>1. \A p \in Vme!Pieces : ~ StoredPiece(p[1], p[2])
    BY <1>1, VmePieces DEF StoredPiece
  <2>. QED  BY <1>1, <2>1 DEF PiecesInv
<1>4. SumsInv
  BY <1>1, <1>2 DEF SumsInv, CTiles
<1>5. KeptInv
  BY <1>1, <1>2, VmeSizes DEF KeptInv, Kept
<1>. QED  BY <1>3, <1>4, <1>5 DEF CInv

\* a row that leaves its tile register is in C
LEMMA VmeNothingLost ==
  ASSUME ControlInv, CInv, [Vme!Next]_(Vme!vars)
  PROVE  Vme!FinishedRowsStored
<1>. USE VmeRanges
<1>1. SUFFICES ASSUME NEW t \in { "mt4", "mt12" }, NEW r \in Vme!Blk,
                      Len(cTile[t][r].sum) = Vme!K, cTile'[t][r] # cTile[t][r]
               PROVE  C[cTile[t][r].from] = cTile[t][r]
  BY DEF Vme!FinishedRowsStored, Vme!Finished
<1>2. CASE Vme!EnterRows
  <2>1. Vme!Accepted /\ ~ InColumn /\ pc # "columns"
    BY <1>2 DEF Vme!EnterRows, ControlInv, InColumn
  <2>. QED  BY <1>1, <2>1 DEF CInv, KeptInv, Kept
<1>3. CASE Vme!Multiply
  <2>1. pc = "multiply" /\ InColumn /\ k0 < Vme!K /\ Vme!Accepted /\ Added = k0 + k
    BY <1>3 DEF Vme!Multiply, ControlInv, InColumn, Added
  <2>2. t = Vme!CTile
    BY <1>1, <1>3, CTilesAlternate DEF Vme!Multiply, CInv, SumsInv, CTiles
  <2>3. Len(cTile[t][r].sum) = k0 + k
    BY <2>1, <2>2 DEF CInv, SumsInv, IsRow
  <2>4. k0 + T =< Vme!K
    BY <2>1, VmeSizes, MultiplesApart
  <2>. QED  BY <1>1, <2>3, <2>4
<1>4. CASE Vme!PrefetchNextColumn
  <2>1. pc = "prefetch" /\ InColumn /\ Vme!Accepted
        /\ cTile' = [cTile EXCEPT ![Vme!OtherC][k] = C[<< m0 + k, n0 + T >>]]
    BY <1>4 DEF Vme!PrefetchNextColumn, Vme!LoadCRow, ControlInv, InColumn
  <2>2. t = Vme!OtherC /\ r = k
    BY <1>1, <2>1, CTilesAlternate DEF CInv, SumsInv, CTiles
  <2>3. t # Vme!CTile /\ ~ Pending(r)
    BY <2>1, <2>2, CTilesAlternate DEF Pending, StoredRows
  <2>. QED  BY <1>1, <2>1, <2>3 DEF CInv, KeptInv, Kept
<1>5. CASE cTile' = cTile
  BY <1>1, <1>5
<1>. QED
  BY <1>2, <1>3, <1>4, <1>5 DEF Vme!Next, Vme!vars, Vme!Enter, Vme!LeaveRows, Vme!StorePrevious,
     Vme!PrefetchA, Vme!PrefetchNothing, Vme!NextColumn, Vme!Terminating

-----------------------------------------------------------------------------
(* The tile kernel: what it leaves in C.                                   *)

VmeServed  == Vme!Accepted /\ machine = "fits"
Final(p)   == Vme!Sums!Partial(Vme!Asked, p[1], p[2], Vme!K)

LEMMA RowIsFinal ==
  ASSUME NEW p \in Vme!Pieces, NEW row, CleanShape(shape), Vme!K \in Nat,
         IsRow(row, p[1], p[2], Vme!K)
  PROVE  row = Final(p)
<1>1. /\ row = [from |-> row.from, sum |-> row.sum] /\ row.from = << p[1], p[2] >>
      /\ row.sum \in Seq(Term) /\ Len(row.sum) = Vme!K
      /\ \A x \in 1 .. Vme!K : row.sum[x] = << << p[1], x - 1 >>, << x - 1, p[2] >> >>
  BY DEF IsRow, Row
<1>2. row.sum = [x \in 1 .. Vme!K |-> row.sum[x]]
  BY <1>1
<1>3. row.sum = [x \in 1 .. Vme!K |-> << << p[1], x - 1 >>, << x - 1, p[2] >> >>]
  BY <1>1, <1>2
<1>4. Vme!Asked[5] = TRUE
  BY DEF Vme!Asked
<1>. QED  BY <1>1, <1>3, <1>4 DEF Final, Vme!Sums!Partial

LEMMA VmeResult ==
  ASSUME ControlInv, CInv, pc = "done", CleanShape(shape)
  PROVE  \A p \in Vme!Pieces :
           C[p] = IF VmeServed THEN Final(p) ELSE Vme!Before(p[1], p[2])
<1>1. ASSUME NEW p \in Vme!Pieces
      PROVE  C[p] = IF VmeServed THEN Final(p) ELSE Vme!Before(p[1], p[2])
  <2>1. p[1] \in Nat /\ p[1] < Vme!M /\ ~ InColumn /\ Vme!K \in Nat
    BY VmePieces, VmeSizes DEF InColumn
  <2>2. CASE VmeServed
    <3>1. m0 = Vme!M
      BY <2>2 DEF ControlInv, VmeServed
    <3>2. StoredPiece(p[1], p[2])
      BY <2>1, <3>1 DEF StoredPiece
    <3>. QED  BY <2>1, <2>2, <3>2, RowIsFinal DEF CInv, PiecesInv
  <2>3. CASE ~ VmeServed
    <3>1. m0 = 0
      BY <2>3 DEF ControlInv, VmeServed
    <3>2. ~ StoredPiece(p[1], p[2])
      BY <2>1, <3>1 DEF StoredPiece
    <3>. QED  BY <2>3, <3>2 DEF CInv, PiecesInv
  <2>. QED  BY <2>2, <2>3
<1>. QED  BY <1>1

-----------------------------------------------------------------------------
(* The tile kernel, as one of the kernels.                                 *)

VmeInv == IsVme => ControlInv /\ TilesInv /\ CInv

LEMMA SameKernel == [Next]_vars => kernel' = kernel
BY DEF Next, vars, rvvVars, Rvv!Next, Rvv!rvars, Rvv!NextGroups, Rvv!EnterGroup, Rvv!StartChunk,
   Rvv!AddProduct, Rvv!StoreChunk, Rvv!LeaveGroup, Rvv!Terminating

LEMMA StepOfVme == IsVme /\ [Next]_vars => [Vme!Next]_(Vme!vars)
BY DEF Next, IsVme, IsRvv, IsTest, IsTrans, vars, vmeVars, Vme!vars

LEMMA VmeInit == Init => VmeInv
<1>1. Init /\ IsVme => Vme!Init
  BY DEF Init, IsVme, Rvv!Init, Rvv!RvvKernels, Rvv!ScalarKernels
<1>. QED  BY <1>1, VmeControlInit, VmeTilesInit, VmeSumsInit DEF VmeInv

LEMMA VmeStep == VmeInv /\ [Next]_vars => VmeInv'
<1>. SUFFICES ASSUME VmeInv, [Next]_vars, IsVme PROVE (ControlInv /\ TilesInv /\ CInv)'
  BY SameKernel DEF VmeInv, IsVme
<1>1. ControlInv /\ TilesInv /\ CInv /\ [Vme!Next]_(Vme!vars)
  BY StepOfVme DEF VmeInv
<1>. QED  BY <1>1, VmeControlStep, VmeTilesStep, VmeSumsStep

(***************************************************************************)
(* The double buffering of C, for every shape and every size of tile: no   *)
(* finished row leaves its tile register before it is in C.                *)
(***************************************************************************)
THEOREM NoRowIsLost == Spec => NoFinishedRowLost
<1>1. Spec => []VmeInv
  BY VmeInit, VmeStep, PTL DEF Spec
<1>2. VmeInv /\ [Next]_vars => [IsVme => Vme!FinishedRowsStored]_vars
  BY StepOfVme, VmeNothingLost DEF VmeInv
<1>. QED  BY <1>1, <1>2, PTL DEF Spec, NoFinishedRowLost

(***************************************************************************)
(* The double buffering of A, for the shapes in which no A tile is         *)
(* overwritten while it is in use: what is multiplied is what should be.   *)
(***************************************************************************)
THEOREM OperandIsThere ==
  ASSUME \A s \in Shapes : CleanShape(s)
  PROVE  Spec => []OperandInTile
<1>1. Spec => []VmeInv
  BY VmeInit, VmeStep, PTL DEF Spec
<1>2. VmeInv => OperandInTile
  BY VmeOperand DEF VmeInv, OperandInTile, ControlInv
<1>. QED  BY <1>1, <1>2, PTL

-----------------------------------------------------------------------------
(* The kernels on vector registers.                                        *)

InGroup == pc \in { "columns", "products" }

\* rows that are left when the groups of r rows are done
Left(r) == IF r = 4 THEN Rvv!M % 4 ELSE IF r = 2 THEN Rvv!M % 2 ELSE 0

\* pin and po are at row i of their matrices, and the groups of rows that
\* are to do and what they leave make up the other rows
RowsInv(i) ==
  /\ rows \in { 1, 2, 4 } /\ jj \in Nat
  /\ Rvv!IsVector \/ rows = 1
  /\ pin = i * Rvv!K /\ po = i * Rvv!N /\ Rvv!M = i + rows * jj + Left(rows)
  /\ pc = "done" => rows = 1 /\ jj = 0

\* the columns that are done and those to do make up the row
ColumnsInv ==
  /\ InGroup => jj > 0 /\ col \in Nat /\ ii \in Nat /\ col + ii = Rvv!N
  /\ pc = "products" => vl \in 0 .. ii /\ kk \in 0 .. Rvv!K

\* the first s products of row i of A and column j of B
Products(i, j, s) == [x \in 1 .. s |-> << << i, x - 1 >>, << x - 1, j >> >>]

RvvPieces  == (0 .. Rvv!M - 1) \X (0 .. Rvv!N - 1)
RvvFinal(p) == [from |-> << >>, sum |-> Products(p[1], p[2], Rvv!K)]

ProductsInv(i) ==
  pc = "products" =>
    vc = [rx \in (0 .. rows - 1) \X (0 .. vl - 1) |-> Products(i + rx[1], col + rx[2], kk)]

Done(i, p) == p[1] < i \/ (InGroup /\ p[1] < i + rows /\ p[2] < col)

ResultInv(i) ==
  C = [p \in RvvPieces |-> IF Done(i, p) THEN RvvFinal(p) ELSE [from |-> p, sum |-> << >>]]

GroupInv ==
  /\ shape \in RvvShapes
  /\ ColumnsInv
  /\ \E i \in Nat : RowsInv(i) /\ ProductsInv(i) /\ ResultInv(i)

LEMMA RvvSizes == shape \in RvvShapes => Rvv!M \in Nat /\ Rvv!K \in Nat /\ Rvv!N \in Nat
BY ShapesAssumption DEF Rvv!M, Rvv!K, Rvv!N

LEMMA SameRvvShape ==
  ASSUME [Rvv!Next]_(Rvv!rvars)
  PROVE  /\ kernel' = kernel /\ shape' = shape
         /\ Rvv!M' = Rvv!M /\ Rvv!K' = Rvv!K /\ Rvv!N' = Rvv!N /\ Rvv!IsVector' = Rvv!IsVector
         /\ RvvPieces' = RvvPieces
<1>1. kernel' = kernel /\ shape' = shape
  BY DEF Rvv!Next, Rvv!rvars, Rvv!NextGroups, Rvv!EnterGroup, Rvv!StartChunk, Rvv!AddProduct,
     Rvv!StoreChunk, Rvv!LeaveGroup, Rvv!Terminating
<1>. QED  BY <1>1 DEF Rvv!M, Rvv!K, Rvv!N, Rvv!IsVector, RvvPieces

LEMMA GroupInit == Rvv!Init => GroupInv
<1>. SUFFICES ASSUME Rvv!Init PROVE GroupInv
  OBVIOUS
<1>1. Rvv!M \in Nat /\ Rvv!K \in Nat /\ Rvv!N \in Nat /\ shape \in RvvShapes /\ pc = "rows"
  BY RvvSizes DEF Rvv!Init
<1>2. rows \in { 1, 2, 4 } /\ (Rvv!IsVector \/ rows = 1) /\ jj \in Nat
  BY <1>1 DEF Rvv!Init
<1>3. Rvv!M = 0 + rows * jj + Left(rows)
  <2>1. CASE Rvv!IsVector
    BY <1>1, <2>1 DEF Rvv!Init, Left
  <2>2. CASE ~ Rvv!IsVector
    BY <1>1, <2>2 DEF Rvv!Init, Left
  <2>. QED  BY <2>1, <2>2
<1>4. pin = 0 * Rvv!K /\ po = 0 * Rvv!N
  BY <1>1 DEF Rvv!Init
<1>5. RowsInv(0)
  BY <1>1, <1>2, <1>3, <1>4 DEF RowsInv
<1>6. ColumnsInv /\ ProductsInv(0)
  BY <1>1 DEF ColumnsInv, ProductsInv, InGroup
<1>7. ResultInv(0)
  <2>1. \A p \in RvvPieces : ~ Done(0, p)
    BY <1>1 DEF Done, InGroup, RvvPieces
  <2>. QED  BY <2>1 DEF Rvv!Init, ResultInv, RvvPieces
<1>. QED  BY <1>1, <1>5, <1>6, <1>7 DEF GroupInv

LEMMA GroupPlaces ==
  ASSUME GroupInv, pc = "products", NEW i \in Nat, RowsInv(i)
  PROVE  /\ i + rows =< Rvv!M
         /\ \A r \in 0 .. rows - 1, x \in 0 .. vl - 1 :
              /\ r \in Nat /\ x \in Nat /\ i + r < Rvv!M /\ col + x < Rvv!N
              /\ Rvv!Target(r, x) < Rvv!M * Rvv!N
              /\ Rvv!Place(Rvv!Target(r, x), Rvv!N) = << i + r, col + x >>
              /\ kk < Rvv!K => /\ Rvv!OperandA(r) < Rvv!M * Rvv!K
                               /\ Rvv!OperandB(x) < Rvv!K * Rvv!N
                               /\ Rvv!Place(Rvv!OperandA(r), Rvv!K) = << i + r, kk >>
                               /\ Rvv!Place(Rvv!OperandB(x), Rvv!N) = << kk, col + x >>
<1>1. Rvv!M \in Nat /\ Rvv!K \in Nat /\ Rvv!N \in Nat
  BY RvvSizes DEF GroupInv
<1>2. /\ rows \in { 1, 2, 4 } /\ jj \in Nat /\ jj > 0
      /\ col \in Nat /\ ii \in Nat /\ col + ii = Rvv!N
      /\ vl \in 0 .. ii /\ kk \in 0 .. Rvv!K
      /\ pin = i * Rvv!K /\ po = i * Rvv!N /\ Rvv!M = i + rows * jj + Left(rows)
  BY DEF GroupInv, RowsInv, ColumnsInv, InGroup
<1>3. i + rows =< Rvv!M
  <2>1. Left(rows) \in Nat
    BY <1>1 DEF Left
  <2>2. rows * jj >= rows /\ rows * jj \in Nat
    BY <1>2
  <2>. QED  BY <1>1, <1>2, <2>1, <2>2
<1>4. ASSUME NEW r \in 0 .. rows - 1, NEW x \in 0 .. vl - 1
      PROVE  /\ r \in Nat /\ x \in Nat /\ i + r < Rvv!M /\ col + x < Rvv!N
             /\ Rvv!Target(r, x) < Rvv!M * Rvv!N
             /\ Rvv!Place(Rvv!Target(r, x), Rvv!N) = << i + r, col + x >>
             /\ kk < Rvv!K => /\ Rvv!OperandA(r) < Rvv!M * Rvv!K
                              /\ Rvv!OperandB(x) < Rvv!K * Rvv!N
                              /\ Rvv!Place(Rvv!OperandA(r), Rvv!K) = << i + r, kk >>
                              /\ Rvv!Place(Rvv!OperandB(x), Rvv!N) = << kk, col + x >>
  <2>1. r \in Nat /\ x \in Nat /\ r < rows /\ x < vl
    BY <1>2
  <2>2. PICK a \in Nat, b \in Nat : a = i + r /\ b = col + x
    BY <1>2, <2>1
  <2>3. a \in Nat /\ b \in Nat /\ a < Rvv!M /\ b < Rvv!N
    BY <1>1, <1>2, <1>3, <2>1, <2>2
  <2>4. Rvv!Target(r, x) = a * Rvv!N + b
    BY <1>1, <1>2, <2>1, <2>2 DEF Rvv!Target
  <2>5. Rvv!Target(r, x) < Rvv!M * Rvv!N /\ Rvv!Place(Rvv!Target(r, x), Rvv!N) = << a, b >>
    <3>1. /\ a * Rvv!N + b < Rvv!M * Rvv!N
          /\ (a * Rvv!N + b) \div Rvv!N = a /\ (a * Rvv!N + b) % Rvv!N = b
      BY ONLY <1>1, <2>3, RowMajor
    <3>. QED  BY ONLY <2>4, <3>1 DEF Rvv!Place
  <2>6. ASSUME kk < Rvv!K
        PROVE  /\ Rvv!OperandA(r) < Rvv!M * Rvv!K
               /\ Rvv!OperandB(x) < Rvv!K * Rvv!N
               /\ Rvv!Place(Rvv!OperandA(r), Rvv!K) = << a, kk >>
               /\ Rvv!Place(Rvv!OperandB(x), Rvv!N) = << kk, b >>
    <3>1. kk \in Nat
      BY <1>1, <1>2
    <3>2. Rvv!OperandA(r) = a * Rvv!K + kk /\ Rvv!OperandB(x) = kk * Rvv!N + b
      BY <1>1, <1>2, <2>1, <2>2, <3>1 DEF Rvv!OperandA, Rvv!OperandB
    <3>3. /\ Rvv!OperandA(r) < Rvv!M * Rvv!K
          /\ Rvv!Place(Rvv!OperandA(r), Rvv!K) = << a, kk >>
      <4>1. /\ a * Rvv!K + kk < Rvv!M * Rvv!K
            /\ (a * Rvv!K + kk) \div Rvv!K = a /\ (a * Rvv!K + kk) % Rvv!K = kk
        BY ONLY <1>1, <2>3, <2>6, <3>1, RowMajor
      <4>. QED  BY ONLY <3>2, <4>1 DEF Rvv!Place
    <3>4. /\ Rvv!OperandB(x) < Rvv!K * Rvv!N
          /\ Rvv!Place(Rvv!OperandB(x), Rvv!N) = << kk, b >>
      <4>1. /\ kk * Rvv!N + b < Rvv!K * Rvv!N
            /\ (kk * Rvv!N + b) \div Rvv!N = kk /\ (kk * Rvv!N + b) % Rvv!N = b
        BY ONLY <1>1, <2>3, <2>6, <3>1, RowMajor
      <4>. QED  BY ONLY <3>2, <4>1 DEF Rvv!Place
    <3>. QED  BY <3>3, <3>4
  <2>. QED  BY <2>1, <2>2, <2>3, <2>4, <2>5, <2>6
<1>. QED  BY <1>3, <1>4

LEMMA GroupOffsets == GroupInv => Rvv!OffsetsInside
<1>. SUFFICES ASSUME GroupInv, pc = "products"
              PROVE  /\ pin * Rvv!N = po * Rvv!K
                     /\ \A rx \in DOMAIN vc :
                          /\ Rvv!Target(rx[1], rx[2]) < Rvv!M * Rvv!N
                          /\ Rvv!Place(Rvv!Target(rx[1], rx[2]), Rvv!N)
                               = << po \div Rvv!N + rx[1], col + rx[2] >>
                          /\ kk < Rvv!K => /\ Rvv!OperandA(rx[1]) < Rvv!M * Rvv!K
                                           /\ Rvv!OperandB(rx[2]) < Rvv!K * Rvv!N
  BY DEF Rvv!OffsetsInside
<1>1. Rvv!M \in Nat /\ Rvv!K \in Nat /\ Rvv!N \in Nat
  BY RvvSizes DEF GroupInv
<1>2. PICK i \in Nat : RowsInv(i) /\ ProductsInv(i)
  BY DEF GroupInv
<1>3. pin = i * Rvv!K /\ po = i * Rvv!N /\ pin * Rvv!N = po * Rvv!K
  BY <1>1, <1>2 DEF RowsInv
<1>4. ASSUME NEW rx \in DOMAIN vc
      PROVE  /\ Rvv!Target(rx[1], rx[2]) < Rvv!M * Rvv!N
             /\ Rvv!Place(Rvv!Target(rx[1], rx[2]), Rvv!N)
                  = << po \div Rvv!N + rx[1], col + rx[2] >>
             /\ kk < Rvv!K => /\ Rvv!OperandA(rx[1]) < Rvv!M * Rvv!K
                              /\ Rvv!OperandB(rx[2]) < Rvv!K * Rvv!N
  <2>1. rx \in (0 .. rows - 1) \X (0 .. vl - 1)
    BY <1>2 DEF ProductsInv
  <2>2. PICK r \in 0 .. rows - 1, x \in 0 .. vl - 1 : r = rx[1] /\ x = rx[2]
    BY <2>1
  <2>3. Rvv!N \in Nat \ {0}
    BY <1>1, <1>2, <2>2, GroupPlaces DEF GroupInv, ColumnsInv, InGroup
  <2>4. po \div Rvv!N = i
    BY <1>3, <2>3, Multiple
  <2>. QED  BY <1>2, <2>2, <2>4, GroupPlaces
<1>. QED  BY <1>3, <1>4

LEMMA ProductsGrow ==
  ASSUME NEW a, NEW b, NEW s \in Nat
  PROVE  Append(Products(a, b, s), << << a, s >>, << s, b >> >>) = Products(a, b, s + 1)
<1>1. DEFINE S == { << << a, x - 1 >>, << x - 1, b >> >> : x \in 1 .. s + 1 }
<1>2. Products(a, b, s) \in Seq(S) /\ Len(Products(a, b, s)) = s
  BY DEF Products
<1>3. << << a, s >>, << s, b >> >> \in S
  <2>1. s + 1 \in 1 .. s + 1 /\ (s + 1) - 1 = s
    OBVIOUS
  <2>. QED  BY <2>1
<1>4. PICK u \in Seq(S) : u = Append(Products(a, b, s), << << a, s >>, << s, b >> >>)
  BY <1>2, <1>3, AppendProperties
<1>5. /\ Len(u) = s + 1 /\ u[s + 1] = << << a, s >>, << s, b >> >>
      /\ \A x \in 1 .. s : u[x] = << << a, x - 1 >>, << x - 1, b >> >>
  BY <1>2, <1>3, <1>4, AppendProperties DEF Products
<1>6. ASSUME NEW x \in 1 .. s + 1 PROVE u[x] = << << a, x - 1 >>, << x - 1, b >> >>
  <2>1. x \in 1 .. s \/ (x = s + 1 /\ x - 1 = s)
    OBVIOUS
  <2>. QED  BY <1>5, <2>1
<1>7. u = [x \in 1 .. s + 1 |-> u[x]]
  BY <1>5
<1>. QED  BY <1>4, <1>6, <1>7 DEF Products

\* a step inside a group, which stays at its rows
LEMMA GroupRow ==
  ASSUME GroupInv, [Rvv!Next]_(Rvv!rvars), NEW i \in Nat, RowsInv(i), ProductsInv(i), ResultInv(i),
         Rvv!EnterGroup \/ Rvv!StartChunk \/ Rvv!AddProduct \/ Rvv!StoreChunk
  PROVE  RowsInv(i)' /\ ColumnsInv' /\ ProductsInv(i)' /\ ResultInv(i)'
<1>. USE SameRvvShape
<1>1. Rvv!M \in Nat /\ Rvv!K \in Nat /\ Rvv!N \in Nat
  BY RvvSizes DEF GroupInv
<1>2. /\ rows \in { 1, 2, 4 } /\ jj \in Nat
      /\ InGroup => jj > 0 /\ col \in Nat /\ ii \in Nat /\ col + ii = Rvv!N
      /\ pc = "products" => vl \in 0 .. ii /\ kk \in 0 .. Rvv!K
  BY DEF GroupInv, RowsInv, ColumnsInv
<1>3. UNCHANGED << rows, jj, pin, po >> /\ pc' # "done"
  BY DEF Rvv!EnterGroup, Rvv!StartChunk, Rvv!AddProduct, Rvv!StoreChunk
<1>4. RowsInv(i)'
  BY <1>3 DEF RowsInv, Left
<1>5. CASE Rvv!EnterGroup
  <2>1. /\ pc = "rows" /\ jj > 0 /\ ii' = Rvv!N /\ col' = 0 /\ pc' = "columns" /\ C' = C
    BY <1>5 DEF Rvv!EnterGroup
  <2>2. \A p \in RvvPieces : Done(i, p)' = Done(i, p)
    BY <1>1, <2>1 DEF Done, InGroup, RvvPieces
  <2>3. ResultInv(i)'
    BY <2>1, <2>2 DEF ResultInv, RvvFinal
  <2>4. ColumnsInv' /\ ProductsInv(i)'
    BY <1>1, <1>3, <2>1 DEF ColumnsInv, InGroup, ProductsInv
  <2>. QED  BY <1>4, <2>3, <2>4
<1>6. CASE Rvv!StartChunk
  <2>1. /\ pc = "columns" /\ pc' = "products" /\ kk' = 0 /\ UNCHANGED << ii, col, C >>
        /\ vc' = [rx \in (0 .. rows - 1) \X (0 .. vl' - 1) |-> << >>]
        /\ vl' \in Rvv!LegalVl(ii, Rvv!Vlmax)
    BY <1>6 DEF Rvv!StartChunk
  <2>2. vl' \in 0 .. ii
    <3>1. Rvv!Vlmax \in Nat
      BY TAssumption DEF Rvv!Vlmax
    <3>2. ii \in Nat
      BY <1>2, <2>1 DEF InGroup
    <3>. QED  BY ONLY <2>1, <3>1, <3>2 DEF Rvv!LegalVl
  <2>3. ResultInv(i)'
    BY <1>3, <2>1 DEF ResultInv, RvvFinal, Done, InGroup
  <2>4. \A a, b : Products(a, b, 0) = << >>
    BY DEF Products
  <2>5. ProductsInv(i)'
    BY <1>3, <2>1, <2>4 DEF ProductsInv, Products
  <2>6. ColumnsInv'
    BY <1>1, <1>2, <1>3, <2>1, <2>2 DEF ColumnsInv, InGroup
  <2>. QED  BY <1>4, <2>3, <2>5, <2>6
<1>7. CASE Rvv!AddProduct
  <2>1. /\ pc = "products" /\ kk < Rvv!K /\ kk' = kk + 1 /\ UNCHANGED << pc, ii, col, vl, C >>
        /\ vc' = [rx \in DOMAIN vc |->
                    Append(vc[rx], << Rvv!Place(Rvv!OperandA(rx[1]), Rvv!K),
                                      Rvv!Place(Rvv!OperandB(rx[2]), Rvv!N) >>)]
    BY <1>7 DEF Rvv!AddProduct
  <2>2. vc = [rx \in (0 .. rows - 1) \X (0 .. vl - 1) |-> Products(i + rx[1], col + rx[2], kk)]
    BY <2>1 DEF ProductsInv
  <2>3. ASSUME NEW rx \in (0 .. rows - 1) \X (0 .. vl - 1)
        PROVE  vc'[rx] = Products(i + rx[1], col + rx[2], kk + 1)
    <3>1. PICK r \in 0 .. rows - 1, x \in 0 .. vl - 1 : rx = << r, x >> /\ rx[1] = r /\ rx[2] = x
      OBVIOUS
    <3>2. /\ Rvv!Place(Rvv!OperandA(r), Rvv!K) = << i + r, kk >>
          /\ Rvv!Place(Rvv!OperandB(x), Rvv!N) = << kk, col + x >>
      BY <2>1, GroupPlaces
    <3>3. vc'[rx] = Append(Products(i + r, col + x, kk), << << i + r, kk >>, << kk, col + x >> >>)
      BY <2>1, <2>2, <3>1, <3>2
    <3>4. PICK s \in Nat : s = kk
      BY <1>1, <1>2, <2>1
    <3>5. \A a, b : Append(Products(a, b, s), << << a, s >>, << s, b >> >>) = Products(a, b, s + 1)
      BY ONLY <3>4, ProductsGrow
    <3>. QED  BY <3>1, <3>3, <3>4, <3>5
  <2>4. ProductsInv(i)'
    <3>1. vc' = [rx \in (0 .. rows - 1) \X (0 .. vl - 1) |-> Products(i + rx[1], col + rx[2], kk + 1)]
      BY <2>1, <2>2, <2>3
    <3>. QED  BY <1>3, <2>1, <3>1 DEF ProductsInv, Products
  <2>5. ResultInv(i)' /\ ColumnsInv'
    BY <1>1, <1>2, <1>3, <2>1 DEF ResultInv, RvvFinal, Done, InGroup, ColumnsInv
  <2>. QED  BY <1>4, <2>4, <2>5
<1>8. CASE Rvv!StoreChunk
  <2>1. /\ pc = "products" /\ kk = Rvv!K /\ pc' = "columns" /\ col' = col + vl /\ ii' = ii - vl
        /\ C' = [p \in DOMAIN C |->
                   IF \E rx \in DOMAIN vc : Rvv!Place(Rvv!Target(rx[1], rx[2]), Rvv!N) = p
                     THEN [from |-> << >>,
                           sum  |-> vc[CHOOSE rx \in DOMAIN vc :
                                         Rvv!Place(Rvv!Target(rx[1], rx[2]), Rvv!N) = p]]
                     ELSE C[p]]
    BY <1>8 DEF Rvv!StoreChunk
  <2>2. /\ DOMAIN vc = (0 .. rows - 1) \X (0 .. vl - 1) /\ DOMAIN C = RvvPieces
        /\ \A rx \in DOMAIN vc : vc[rx] = Products(i + rx[1], col + rx[2], Rvv!K)
    BY <2>1 DEF ProductsInv, ResultInv
  <2>3. \A rx \in DOMAIN vc :
          Rvv!Place(Rvv!Target(rx[1], rx[2]), Rvv!N) = << i + rx[1], col + rx[2] >>
    BY <2>1, <2>2, GroupPlaces
  <2>4. /\ vl \in Nat /\ col \in Nat /\ col + vl =< Rvv!N /\ ii - vl \in Nat /\ jj > 0
        /\ (col + vl) + (ii - vl) = Rvv!N
    BY <1>1, <1>2, <2>1 DEF InGroup
  <2>5. ASSUME NEW p \in RvvPieces
        PROVE  C'[p] = IF Done(i, p)' THEN RvvFinal(p) ELSE [from |-> p, sum |-> << >>]
    <3>1. p[1] \in Nat /\ p[2] \in Nat /\ p = << p[1], p[2] >>
      BY <1>1 DEF RvvPieces
    <3>2. CASE \E rx \in DOMAIN vc : Rvv!Place(Rvv!Target(rx[1], rx[2]), Rvv!N) = p
      <4>1. PICK rx \in DOMAIN vc :
              /\ Rvv!Place(Rvv!Target(rx[1], rx[2]), Rvv!N) = p
              /\ C'[p] = [from |-> << >>, sum |-> vc[rx]]
        BY <2>1, <2>2, <3>2
      <4>2. p[1] = i + rx[1] /\ p[2] = col + rx[2]
        BY <2>3, <4>1
      <4>3. C'[p] = RvvFinal(p)
        BY <2>2, <4>1, <4>2 DEF RvvFinal
      <4>4. rx[1] \in 0 .. rows - 1 /\ rx[2] \in 0 .. vl - 1
        BY <2>2
      <4>5. Done(i, p)'
        <5>1. p[1] < i + rows /\ p[2] < col + vl
          BY <1>2, <2>4, <4>2, <4>4
        <5>. QED  BY <1>3, <2>1, <5>1 DEF Done, InGroup
      <4>. QED  BY <4>3, <4>5
    <3>3. CASE ~ \E rx \in DOMAIN vc : Rvv!Place(Rvv!Target(rx[1], rx[2]), Rvv!N) = p
      <4>1. C'[p] = C[p]
        BY <2>1, <2>2, <3>3
      <4>2. Done(i, p)' <=> Done(i, p)
        <5>1. SUFFICES ASSUME i =< p[1], p[1] < i + rows, col =< p[2], p[2] < col + vl PROVE FALSE
          BY <1>2, <1>3, <2>1, <2>4, <3>1 DEF Done, InGroup
        <5>2. PICK r \in 0 .. rows - 1, x \in 0 .. vl - 1 : p[1] = i + r /\ p[2] = col + x
          <6>1. p[1] - i \in 0 .. rows - 1 /\ p[2] - col \in 0 .. vl - 1
            BY <1>2, <2>4, <3>1, <5>1
          <6>2. p[1] = i + (p[1] - i) /\ p[2] = col + (p[2] - col)
            BY <2>4, <3>1
          <6>. QED  BY <6>1, <6>2
        <5>3. << r, x >> \in DOMAIN vc /\ << r, x >>[1] = r /\ << r, x >>[2] = x
          BY <2>2
        <5>4. Rvv!Place(Rvv!Target(r, x), Rvv!N) = p
          BY <2>3, <3>1, <5>2, <5>3
        <5>. QED  BY <3>3, <5>3, <5>4
      <4>. QED  BY <4>1, <4>2 DEF ResultInv
    <3>. QED  BY <3>2, <3>3
  <2>6. ResultInv(i)'
    <3>1. C' = [p \in RvvPieces |-> IF Done(i, p)' THEN RvvFinal(p) ELSE [from |-> p, sum |-> << >>]]
      BY <2>1, <2>2, <2>5
    <3>. QED  BY <3>1 DEF ResultInv, RvvFinal, Done, InGroup
  <2>7. ColumnsInv' /\ ProductsInv(i)'
    BY <1>3, <2>1, <2>4 DEF ColumnsInv, InGroup, ProductsInv
  <2>. QED  BY <1>4, <2>6, <2>7
<1>. QED  BY <1>5, <1>6, <1>7, <1>8

LEMMA GroupStep == GroupInv /\ [Rvv!Next]_(Rvv!rvars) => GroupInv'
<1>. SUFFICES ASSUME GroupInv, [Rvv!Next]_(Rvv!rvars) PROVE GroupInv'
  OBVIOUS
<1>. USE SameRvvShape
<1>1. PICK i \in Nat : RowsInv(i) /\ ProductsInv(i) /\ ResultInv(i)
  BY DEF GroupInv
<1>2. shape' \in RvvShapes /\ Rvv!M \in Nat /\ Rvv!K \in Nat /\ Rvv!N \in Nat
  BY RvvSizes DEF GroupInv
<1>3. rows \in { 1, 2, 4 } /\ jj \in Nat /\ Rvv!M = i + rows * jj + Left(rows)
  BY <1>1 DEF RowsInv
<1>4. CASE Rvv!EnterGroup \/ Rvv!StartChunk \/ Rvv!AddProduct \/ Rvv!StoreChunk
  BY <1>1, <1>2, <1>4, GroupRow DEF GroupInv
<1>5. CASE Rvv!NextGroups
  <2>1. pc = "rows" /\ jj = 0 /\ UNCHANGED << pin, po, C >> /\ pc' \in { "rows", "done" }
    BY <1>5 DEF Rvv!NextGroups
  <2>2. ResultInv(i)' /\ ProductsInv(i)' /\ ColumnsInv'
    BY <1>1, <2>1 DEF ResultInv, RvvFinal, Done, InGroup, ProductsInv, ColumnsInv
  <2>3. RowsInv(i)'
    <3>1. CASE rows = 1
      BY <1>1, <1>5, <2>1, <3>1 DEF Rvv!NextGroups, RowsInv, Left
    <3>2. CASE rows # 1
      <4>1. rows' = rows \div 2 /\ jj' = Rvv!Groups(rows') /\ pc' = "rows"
        BY <1>5, <3>2 DEF Rvv!NextGroups
      <4>2. jj' \in Nat /\ rows' \in { 1, 2 }
        BY <1>2, <1>3, <3>2, <4>1 DEF Rvv!Groups
      <4>3. Rvv!M = i + rows' * jj' + Left(rows')
        <5>1. CASE rows = 4
          BY <1>2, <1>3, <2>1, <4>1, <5>1 DEF Rvv!Groups, Left
        <5>2. CASE rows = 2
          BY <1>2, <1>3, <2>1, <4>1, <5>2 DEF Rvv!Groups, Left
        <5>. QED  BY <1>3, <3>2, <5>1, <5>2
      <4>. QED  BY <1>1, <2>1, <3>2, <4>1, <4>2, <4>3 DEF RowsInv, Left
    <3>. QED  BY <3>1, <3>2
  <2>. QED  BY <1>2, <2>2, <2>3 DEF GroupInv
<1>6. CASE Rvv!LeaveGroup
  <2>1. /\ pc = "columns" /\ InGroup /\ jj > 0 /\ ii = 0 /\ jj' = jj - 1 /\ rows' = rows /\ pc' = "rows"
        /\ pin' = pin + rows * Rvv!K /\ po' = po + rows * Rvv!N /\ C' = C /\ col = Rvv!N
    BY <1>2, <1>6 DEF Rvv!LeaveGroup, GroupInv, ColumnsInv, InGroup
  <2>2. pin' = (i + rows) * Rvv!K /\ po' = (i + rows) * Rvv!N
    BY <1>1, <1>2, <1>3, <2>1 DEF RowsInv
  <2>3. Rvv!M = (i + rows) + rows * jj' + Left(rows)
    <3>1. Left(rows) \in Int
      BY <1>2 DEF Left
    <3>2. rows * jj = rows + rows * jj'
      BY <1>3, <2>1
    <3>3. rows * jj' \in Int
      BY <1>3, <2>1
    <3>. QED  BY <1>3, <3>1, <3>2, <3>3
  <2>4. i + rows \in Nat /\ jj' \in Nat
    BY <1>3, <2>1
  <2>6. PICK n \in Nat : n = i + rows
    BY <2>4
  <2>7. \A p \in RvvPieces : Done(n, p)' = Done(i, p)
    BY <1>2, <1>3, <2>1, <2>6 DEF Done, InGroup, RvvPieces
  <2>8. ResultInv(n)'
    BY <1>1, <2>1, <2>7 DEF ResultInv, RvvFinal
  <2>9. RowsInv(n)'
    BY <1>1, <2>1, <2>2, <2>3, <2>4, <2>6 DEF RowsInv, Left
  <2>10. ProductsInv(n)' /\ ColumnsInv'
    BY <2>1 DEF ProductsInv, ColumnsInv, InGroup
  <2>. QED  BY <1>2, <2>8, <2>9, <2>10 DEF GroupInv
<1>7. CASE UNCHANGED Rvv!rvars
  <2>1. UNCHANGED << pc, rows, jj, pin, po, ii, col, vl, kk, vc, C >>
    BY <1>7 DEF Rvv!rvars
  <2>2. RowsInv(i)' /\ ColumnsInv'
    BY <1>1, <2>1 DEF GroupInv, RowsInv, Left, ColumnsInv, InGroup
  <2>3. ProductsInv(i)' /\ ResultInv(i)'
    BY <1>1, <2>1 DEF ProductsInv, Products, ResultInv, RvvFinal, Done, InGroup
  <2>. QED  BY <1>2, <2>2, <2>3 DEF GroupInv
<1>. QED  BY <1>4, <1>5, <1>6, <1>7 DEF Rvv!Next, Rvv!Terminating

LEMMA RvvResult ==
  ASSUME GroupInv, pc = "done"
  PROVE  C = [p \in RvvPieces |-> RvvFinal(p)]
<1>1. PICK i \in Nat : RowsInv(i) /\ ResultInv(i)
  BY DEF GroupInv
<1>2. Rvv!M \in Nat /\ Rvv!M = i
  BY <1>1, RvvSizes DEF GroupInv, RowsInv, Left
<1>3. \A p \in RvvPieces : Done(i, p)
  BY <1>2 DEF RvvPieces, Done
<1>. QED  BY <1>1, <1>3 DEF ResultInv

\* a piece is left alone, or goes from what it was to the product
LEMMA RvvWrites ==
  ASSUME GroupInv, [Rvv!Next]_(Rvv!rvars)
  PROVE  /\ C = [p \in RvvPieces |-> C[p]] /\ C' = [p \in RvvPieces |-> C'[p]]
         /\ \A p \in RvvPieces :
              C'[p] = C[p] \/ (C[p] = [from |-> p, sum |-> << >>] /\ C'[p] = RvvFinal(p))
<1>1. PICK i \in Nat : ResultInv(i) /\ RowsInv(i) /\ ProductsInv(i)
  BY DEF GroupInv
<1>2. C = [p \in RvvPieces |-> C[p]]
  BY <1>1 DEF ResultInv
<1>3. CASE Rvv!StoreChunk
  <2>1. ResultInv(i)' /\ RvvPieces' = RvvPieces /\ Rvv!K' = Rvv!K
    BY <1>1, <1>3, GroupRow, SameRvvShape
  <2>2. C' = [p \in RvvPieces |-> IF Done(i, p)' THEN RvvFinal(p) ELSE [from |-> p, sum |-> << >>]]
    BY <2>1 DEF ResultInv, RvvFinal, Products
  <2>3. \A p \in RvvPieces : Done(i, p) => Done(i, p)'
    <3>1. /\ pc = "products" /\ pc' = "columns" /\ col' = col + vl /\ rows' = rows
          /\ col \in Nat /\ vl \in Nat
      BY <1>3 DEF Rvv!StoreChunk, GroupInv, ColumnsInv, InGroup
    <3>2. \A p \in RvvPieces : p[2] \in Int
      BY DEF RvvPieces
    <3>. QED  BY <3>1, <3>2 DEF Done, InGroup
  <2>. QED  BY <1>1, <1>2, <2>2, <2>3 DEF ResultInv
<1>4. CASE ~ Rvv!StoreChunk
  <2>1. C' = C
    BY <1>4 DEF Rvv!Next, Rvv!rvars, Rvv!NextGroups, Rvv!EnterGroup, Rvv!StartChunk,
       Rvv!AddProduct, Rvv!LeaveGroup, Rvv!Terminating
  <2>. QED  BY <1>2, <2>1
<1>. QED  BY <1>3, <1>4

-----------------------------------------------------------------------------
(* All the kernels.                                                        *)

\* the test and the transposes multiply nothing
NoShape == IsTest \/ IsTrans => shape = << 0, 0, 0 >>

KernelsInv == VmeInv /\ (IsRvv => GroupInv) /\ NoShape

LEMMA StepOfRvv == IsRvv /\ [Next]_vars => [Rvv!Next]_(Rvv!rvars)
BY DEF Next, IsVme, IsRvv, IsTest, IsTrans, vars, rvvVars, Rvv!rvars

LEMMA KernelsInit == Init => KernelsInv
<1>. SUFFICES ASSUME Init PROVE KernelsInv
  OBVIOUS
<1>1. IsRvv => Rvv!Init
  BY DEF Init, IsVme, IsRvv, IsTest, IsTrans
<1>2. NoShape
  BY DEF Init, IsVme, IsRvv, IsTest, IsTrans, NoShape, Rvv!Init, Rvv!RvvKernels, Rvv!ScalarKernels
<1>. QED  BY <1>1, <1>2, VmeInit, GroupInit DEF KernelsInv

LEMMA KernelsStep == KernelsInv /\ [Next]_vars => KernelsInv'
<1>. SUFFICES ASSUME KernelsInv, [Next]_vars PROVE KernelsInv'
  OBVIOUS
<1>1. IsVme' = IsVme /\ IsRvv' = IsRvv /\ IsTest' = IsTest /\ IsTrans' = IsTrans
  BY SameKernel DEF IsVme, IsRvv, IsTest, IsTrans
<1>2. (IsRvv => GroupInv)'
  BY <1>1, StepOfRvv, GroupStep DEF KernelsInv
<1>3. NoShape'
  BY <1>1 DEF KernelsInv, NoShape, Next, IsVme, IsRvv, IsTest, IsTrans, vars
<1>. QED  BY <1>2, <1>3, VmeStep DEF KernelsInv

LEMMA Kernels == Spec => []KernelsInv
BY KernelsInit, KernelsStep, PTL DEF Spec

(***************************************************************************)
(* For matrices of every shape, also those whose rows are no multiple of   *)
(* four, and whatever vsetvli answers: no offset leaves its matrix, and    *)
(* every element is stored in the row and the column it was computed for.  *)
(***************************************************************************)
THEOREM OffsetsStayInside == Spec => []OffsetsInside
<1>1. KernelsInv => OffsetsInside
  BY GroupOffsets DEF KernelsInv, OffsetsInside
<1>. QED  BY <1>1, Kernels, PTL

LEMMA VmeAsked ==
  IsVme => /\ Asked = Vme!Asked /\ Abstract!Pieces(Asked) = Vme!Pieces
           /\ \A p : /\ Abstract!Partial(Asked, p[1], p[2], shape[2]) = Final(p)
                    /\ Abstract!Before(p[1], p[2]) = Vme!Before(p[1], p[2])
           /\ Served = VmeServed
BY DEF Asked, Vme!Asked, Abstract!Pieces, Vme!Pieces, Vme!Sums!Pieces, Abstract!Partial, Final,
   Vme!Sums!Partial, Abstract!Before, Vme!Before, Vme!Sums!Before, Served, VmeServed,
   Vme!M, Vme!K, Vme!N

LEMMA RvvAsked ==
  ASSUME IsRvv, shape \in RvvShapes
  PROVE  /\ Abstract!Pieces(Asked) = RvvPieces
         /\ \A p \in RvvPieces :
              /\ Abstract!Partial(Asked, p[1], p[2], shape[2]) = RvvFinal(p)
              /\ Abstract!Before(p[1], p[2]) = [from |-> p, sum |-> << >>]
         /\ Served = TRUE
<1>1. ~ IsVme /\ Asked = << shape[1], shape[2], shape[3], 1, FALSE >>
  BY DEF IsRvv, IsVme, Asked
<1>2. shape[3] \in Nat
  BY ShapesAssumption
<1>3. { j \in 0 .. shape[3] - 1 : j % 1 = 0 } = 0 .. shape[3] - 1
  BY <1>2
<1>4. Abstract!Pieces(Asked) = RvvPieces
  BY <1>1, <1>3 DEF Abstract!Pieces, RvvPieces, Rvv!M, Rvv!N
<1>5. \A p \in RvvPieces : p = << p[1], p[2] >>
  BY DEF RvvPieces
<1>. QED
  BY <1>1, <1>4, <1>5 DEF Served, Abstract!Partial, Abstract!Before, RvvFinal, Products, Rvv!K

LEMMA ProductAtEnd ==
  ASSUME \A s \in Shapes : CleanShape(s)
  PROVE  KernelsInv => ResultIsProduct
<1>1. SUFFICES ASSUME KernelsInv, pc = "done", ~ IsTest, ~ IsTrans,
                      NEW p \in Abstract!Pieces(Asked)
               PROVE  C[p] = IF Served THEN Abstract!Partial(Asked, p[1], p[2], shape[2])
                                       ELSE Abstract!Before(p[1], p[2])
  BY DEF ResultIsProduct
<1>2. CASE IsVme
  <2>1. ControlInv /\ CInv /\ CleanShape(shape)
    BY <1>1, <1>2 DEF KernelsInv, VmeInv, ControlInv
  <2>. QED  BY <1>1, <1>2, <2>1, VmeAsked, VmeResult
<1>3. CASE IsRvv
  <2>1. GroupInv /\ shape \in RvvShapes
    BY <1>1, <1>3 DEF KernelsInv, GroupInv
  <2>. QED  BY <1>1, <1>3, <2>1, RvvAsked, RvvResult
<1>. QED  BY <1>1, <1>2, <1>3 DEF IsRvv

(***************************************************************************)
(* The call ends with the product in C, for every shape but those in which *)
(* the tile kernel overwrites an A tile that is in use; and with C         *)
(* unchanged if the tile kernel turned the shape or the machine down.      *)
(***************************************************************************)
THEOREM ProductIsRight ==
  ASSUME \A s \in Shapes : CleanShape(s)
  PROVE  Spec => []ResultIsProduct
<1>1. KernelsInv => ResultIsProduct
  BY ProductAtEnd
<1>. QED  BY <1>1, Kernels, PTL

(***************************************************************************)
(* A step of a kernel is one of Gemm's, or none: pieces of C are taken     *)
(* from what they were to the product, and never touched again.            *)
(***************************************************************************)
LEMMA GemmPieces ==
  ASSUME KernelsInv, [Next]_vars, \A s \in Shapes : CleanShape(s), ~ IsTest, ~ IsTrans
  PROVE  /\ Asked' = Asked /\ Served' = Served
         /\ C' = [p \in Abstract!Pieces(Asked) |-> C'[p]]
         /\ C = [p \in Abstract!Pieces(Asked) |-> C[p]]
         /\ \A p \in Abstract!Pieces(Asked) :
              \/ C'[p] = C[p]
              \/ /\ Served /\ C[p] = Abstract!Before(p[1], p[2])
                 /\ C'[p] = Abstract!Partial(Asked, p[1], p[2], shape[2])
<1>0. IsVme' = IsVme /\ IsRvv' = IsRvv /\ KernelsInv'
  BY SameKernel, KernelsStep DEF IsVme, IsRvv, IsTest, IsTrans
<1>1. CASE IsVme
  <2>1. /\ ControlInv /\ TilesInv /\ CInv /\ [Vme!Next]_(Vme!vars) /\ CleanShape(shape)
        /\ ControlInv' /\ CInv'
    BY <1>0, <1>1, StepOfVme DEF KernelsInv, VmeInv, ControlInv
  <2>2. shape' = shape /\ Served' = Served /\ Asked' = Asked
    <3>1. shape' = shape /\ machine' = machine /\ Vme!M' = Vme!M /\ Vme!K' = Vme!K /\ Vme!N' = Vme!N
      BY <2>1, SameShape
    <3>2. Vme!Accepted' <=> Vme!Accepted
      BY <3>1 DEF Vme!Accepted
    <3>3. Served' = Served
      BY <1>0, <1>1, <3>1, <3>2 DEF Served
    <3>. QED  BY <1>0, <1>1, <3>1, <3>3 DEF Asked
  <2>3. WrittenOnce /\ Vme!Pieces' = Vme!Pieces /\ Vme!K' = Vme!K /\ Vme!K \in Nat
    BY <2>1, VmeSumsStep, SamePieces, SameShape, VmeSizes
  <2>4. C' = [p \in Vme!Pieces |-> C'[p]] /\ C = [p \in Vme!Pieces |-> C[p]]
    BY <2>1, <2>3 DEF CInv, PiecesInv
  <2>5. ASSUME NEW p \in Vme!Pieces, C'[p] # C[p]
        PROVE  VmeServed /\ C[p] = Vme!Before(p[1], p[2]) /\ C'[p] = Final(p)
    <3>1. C[p] = Vme!Before(p[1], p[2])
      BY <2>3, <2>5 DEF WrittenOnce
    <3>2. StoredPiece(p[1], p[2])'
      BY <2>1, <2>3, <2>5, <3>1, SameShape
      DEF CInv, PiecesInv, Vme!Before, Vme!Sums!Before
    <3>3. IsRow(C'[p], p[1], p[2], Vme!K)
      BY <2>1, <2>2, <2>3, <3>2, SameShape DEF CInv, PiecesInv, IsRow
    <3>4. C'[p] = Final(p)
      BY <2>1, <2>3, <3>3, RowIsFinal
    <3>5. VmeServed
      <4>1. CASE Vme!StorePrevious \/ Vme!NextColumn
        BY <2>1, <4>1 DEF Vme!StorePrevious, Vme!NextColumn, ControlInv, InColumn, VmeServed
      <4>2. CASE ~ (Vme!StorePrevious \/ Vme!NextColumn)
        BY <2>1, <2>5, <4>2 DEF Vme!Next, Vme!vars, Vme!Enter, Vme!EnterRows, Vme!LeaveRows,
           Vme!Multiply, Vme!PrefetchA, Vme!PrefetchNextColumn, Vme!PrefetchNothing, Vme!Terminating
      <4>. QED  BY <4>1, <4>2
    <3>. QED  BY <3>1, <3>4, <3>5
  <2>. QED  BY <1>1, <2>2, <2>4, <2>5, VmeAsked
<1>2. CASE IsRvv
  <2>1. GroupInv /\ shape \in RvvShapes /\ [Rvv!Next]_(Rvv!rvars)
    BY <1>2, StepOfRvv DEF KernelsInv, GroupInv
  <2>2. shape' = shape /\ Asked' = Asked /\ Served' = Served
    <3>1. shape' = shape /\ ~ IsVme /\ ~ IsVme'
      BY <1>0, <1>2, <2>1, SameRvvShape DEF IsRvv
    <3>. QED  BY <3>1 DEF Asked, Served, IsVme
  <2>. QED  BY <1>2, <2>1, <2>2, RvvAsked, RvvWrites
<1>. QED  BY <1>1, <1>2 DEF IsRvv

LEMMA DoneStays == pc = "done" /\ [Next]_vars => UNCHANGED << pc, C, shape, machine >>
BY SameKernel DEF Next, vars, vmeVars, rvvVars, testVars,
   Vme!Next, Vme!vars, Vme!Enter, Vme!EnterRows, Vme!LeaveRows, Vme!Multiply, Vme!StorePrevious,
   Vme!PrefetchA, Vme!PrefetchNextColumn, Vme!PrefetchNothing, Vme!NextColumn, Vme!Terminating,
   Rvv!Next, Rvv!rvars, Rvv!NextGroups, Rvv!EnterGroup, Rvv!StartChunk, Rvv!AddProduct,
   Rvv!StoreChunk, Rvv!LeaveGroup, Rvv!Terminating,
   Test!TestNext, Test!tvars, Test!SetType, Test!SetSize, Test!MSett, Test!LoadZero, Test!Multiply,
   Test!StoreProduct, Test!CheckProduct, Test!LoadInput, Test!StoreColumns, Test!CheckColumns,
   Trans!TransNext, Trans!tvars, Trans!Enter, Trans!Load, Trans!Transpose, Trans!Store

LEMMA ProductAtEndLater ==
  ASSUME \A s \in Shapes : CleanShape(s), KernelsInv', pc' = "done", (~ IsTest /\ ~ IsTrans)',
         Asked' = Asked, Served' = Served
  PROVE  \A p \in Abstract!Pieces(Asked) :
           C'[p] = IF Served THEN Abstract!Partial(Asked, p[1], p[2], Asked[2])
                             ELSE Abstract!Before(p[1], p[2])
<1>1. (KernelsInv => ResultIsProduct)'
  BY ProductAtEnd, PTL
<1>2. ResultIsProduct'
  BY <1>1
<1>. QED  BY <1>2 DEF ResultIsProduct, Asked

LEMMA GemmInit ==
  ASSUME Init
  PROVE  Abstract!Init
<1>1. pc # "done" /\ shape \in (IF IsVme THEN Shapes ELSE RvvShapes \cup { << 0, 0, 0 >> })
  BY DEF Init, IsVme, IsTest, IsTrans, Vme!Init, Rvv!Init, Test!TestInit, Trans!TransInit,
     Rvv!RvvKernels, Rvv!ScalarKernels
<1>2. Asked \in { << s[1], s[2], s[3], T, TRUE >> : s \in Shapes }
                  \cup { << s[1], s[2], s[3], 1, FALSE >> : s \in RvvShapes \cup { << 0, 0, 0 >> } }
  <2>1. IsVme => Asked = << shape[1], shape[2], shape[3], T, TRUE >>
    BY DEF Asked, IsVme
  <2>2. ~ IsVme => Asked = << shape[1], shape[2], shape[3], 1, FALSE >>
    BY DEF Asked, IsVme
  <2>. QED  BY <1>1, <2>1, <2>2
<1>3. Served \in BOOLEAN
  BY DEF Served, IsVme, Vme!Accepted
<1>4. CASE IsVme
  <2>1. Vme!Init /\ ~ IsTest /\ ~ IsTrans
    BY <1>4 DEF Init, IsVme, IsTest, IsTrans, Rvv!Init, Rvv!RvvKernels, Rvv!ScalarKernels
  <2>2. C = [p \in Abstract!Pieces(Asked) |-> Abstract!Before(p[1], p[2])]
    BY <1>4, <2>1, VmeAsked DEF Vme!Init
  <2>. QED  BY <1>1, <1>2, <1>3, <2>1, <2>2 DEF Abstract!Init
<1>5. CASE IsRvv
  <2>1. Rvv!Init /\ ~ IsTest /\ ~ IsTrans /\ shape \in RvvShapes
    BY <1>5 DEF Init, IsVme, IsRvv, IsTest, IsTrans, Rvv!Init
  <2>2. C = [p \in Abstract!Pieces(Asked) |-> Abstract!Before(p[1], p[2])]
    BY <1>5, <2>1, RvvAsked DEF Rvv!Init, RvvPieces
  <2>. QED  BY <1>1, <1>2, <1>3, <2>1, <2>2 DEF Abstract!Init
<1>6. CASE IsTest \/ IsTrans
  <2>1. Abstract!Pieces(Asked) = {}
    <3>1. Asked[1] = 0
      BY <1>6, KernelsInit DEF KernelsInv, NoShape, Asked
    <3>2. 0 .. 0 - 1 = {}
      OBVIOUS
    <3>. QED  BY <3>1, <3>2 DEF Abstract!Pieces
  <2>2. << >> = [p \in {} |-> Abstract!Before(p[1], p[2])]
    OBVIOUS
  <2>. QED  BY <1>1, <1>2, <1>3, <1>6, <2>1, <2>2 DEF Abstract!Init
<1>. QED  BY <1>4, <1>5, <1>6 DEF IsRvv

LEMMA GemmStep ==
  ASSUME KernelsInv, [Next]_vars, \A s \in Shapes : CleanShape(s)
  PROVE  [Abstract!Next]_(Abstract!vars)
<1>0. /\ IsVme' = IsVme /\ IsRvv' = IsRvv /\ IsTest' = IsTest /\ IsTrans' = IsTrans
      /\ KernelsInv'
  BY SameKernel, KernelsStep DEF IsVme, IsRvv, IsTest, IsTrans
<1>1. CASE IsTest \/ IsTrans
  <2>1. /\ Asked' = Asked /\ Asked[1] = 0 /\ Served = TRUE /\ Served' = TRUE
    BY <1>0, <1>1 DEF KernelsInv, NoShape, Asked, Served, IsVme, IsTest, IsTrans
  <2>2. Abstract!Pieces(Asked) = {}
    <3>1. 0 .. 0 - 1 = {}
      OBVIOUS
    <3>. QED  BY <2>1, <3>1 DEF Abstract!Pieces
  <2>3. << >> = [p \in {} |-> << >>[p]] /\ << >> = Abstract!Product(Asked)
    BY <2>2 DEF Abstract!Product
  <2>4. CASE pc = "done"
    <3>1. (pc = "done")' = (pc = "done")
      BY <2>4, DoneStays
    <3>. QED  BY <1>0, <1>1, <2>1, <3>1 DEF Abstract!vars
  <2>5. CASE pc # "done"
    <3>1. (pc = "done")' \in { FALSE, TRUE }
      OBVIOUS
    <3>. QED  BY <1>0, <1>1, <2>1, <2>2, <2>3, <2>5, <3>1 DEF Abstract!Next, Abstract!Finish
  <2>. QED  BY <2>4, <2>5
<1>2. CASE ~ IsTest /\ ~ IsTrans
  <2>1. /\ Asked' = Asked /\ Served' = Served
        /\ C' = [p \in Abstract!Pieces(Asked) |-> C'[p]]
        /\ C = [p \in Abstract!Pieces(Asked) |-> C[p]]
        /\ \A p \in Abstract!Pieces(Asked) :
             \/ C'[p] = C[p]
             \/ /\ Served /\ C[p] = Abstract!Before(p[1], p[2])
                /\ C'[p] = Abstract!Partial(Asked, p[1], p[2], shape[2])
    BY <1>2, GemmPieces
  <2>2. CASE pc = "done"
    <3>1. (pc = "done")' = (pc = "done") /\ C' = C
      BY <2>2, DoneStays
    <3>. QED  BY <1>0, <1>2, <2>1, <3>1 DEF Abstract!vars
  <2>3. CASE pc # "done" /\ Served
    <3>1. \A p \in Abstract!Pieces(Asked) :
            Abstract!Product(Asked)[p] = Abstract!Partial(Asked, p[1], p[2], shape[2])
      BY DEF Abstract!Product, Asked
    <3>2. (pc = "done")' \in { FALSE, C' = Abstract!Product(Asked) }
      <4>1. CASE pc' = "done"
        <5>1. \A p \in Abstract!Pieces(Asked) :
                C'[p] = Abstract!Partial(Asked, p[1], p[2], Asked[2])
          BY <1>0, <1>2, <2>1, <2>3, <4>1, ProductAtEndLater
        <5>2. Abstract!Product(Asked) =
                [p \in Abstract!Pieces(Asked) |-> Abstract!Partial(Asked, p[1], p[2], Asked[2])]
          BY DEF Abstract!Product
        <5>3. C' = [p \in Abstract!Pieces(Asked) |-> Abstract!Partial(Asked, p[1], p[2], Asked[2])]
          <6>1. C' = [p \in Abstract!Pieces(Asked) |-> C'[p]]
            BY <2>1
          <6>. QED  BY ONLY <5>1, <6>1
        <5>. QED  BY <4>1, <5>2, <5>3
      <4>2. CASE pc' # "done"
        BY <4>2
      <4>. QED  BY <4>1, <4>2
    <3>3. \A p \in Abstract!Pieces(Asked) :
            \/ C'[p] = C[p]
            \/ C[p] = Abstract!Before(p[1], p[2]) /\ C'[p] = Abstract!Product(Asked)[p]
      BY <2>1, <3>1
    <3>4. C' = [p \in Abstract!Pieces(Asked) |-> C'[p]]
      BY <2>1
    <3>5. (IF IsTest \/ IsTrans THEN << >> ELSE C) = C /\ (IF IsTest \/ IsTrans THEN << >> ELSE C)' = C'
      BY <1>0, <1>2
    <3>6. Abstract!Finish
      <4>1. (IF IsTest \/ IsTrans THEN << >> ELSE C)' =
              [p \in Abstract!Pieces(Asked) |-> ((IF IsTest \/ IsTrans THEN << >> ELSE C)')[p]]
        BY ONLY <3>4, <3>5, Zenon
      <4>2. \A p \in Abstract!Pieces(Asked) :
              \/ ((IF IsTest \/ IsTrans THEN << >> ELSE C)')[p] =
                   (IF IsTest \/ IsTrans THEN << >> ELSE C)[p]
              \/ /\ (IF IsTest \/ IsTrans THEN << >> ELSE C)[p] = Abstract!Before(p[1], p[2])
                 /\ ((IF IsTest \/ IsTrans THEN << >> ELSE C)')[p] = Abstract!Product(Asked)[p]
        BY ONLY <3>3, <3>5
      <4>3. (pc = "done")' \in { FALSE, (IF IsTest \/ IsTrans THEN << >> ELSE C)' = Abstract!Product(Asked) }
        BY ONLY <3>2, <3>5, Zenon
      <4>4. UNCHANGED << Asked, Served >>
        BY <2>1
      <4>. QED  BY ONLY <2>3, <4>1, <4>2, <4>3, <4>4, Zenon DEF Abstract!Finish
    <3>. QED  BY <3>6 DEF Abstract!Next
  <2>4. CASE pc # "done" /\ ~ Served
    <3>1. C' = C
      <4>1. /\ C' = [p \in Abstract!Pieces(Asked) |-> C'[p]]
            /\ C  = [p \in Abstract!Pieces(Asked) |-> C[p]]
        BY <2>1
      <4>2. \A p \in Abstract!Pieces(Asked) : C'[p] = C[p]
        BY <2>1, <2>4
      <4>. QED  BY ONLY <4>1, <4>2
    <3>2. CASE pc' = "done"
      BY <1>0, <1>2, <2>1, <2>4, <3>1, <3>2 DEF Abstract!Next, Abstract!TurnDown
    <3>3. CASE pc' # "done"
      BY <1>0, <1>2, <2>1, <2>4, <3>1, <3>3 DEF Abstract!vars
    <3>. QED  BY <3>2, <3>3
  <2>. QED  BY <2>2, <2>3, <2>4
<1>. QED  BY <1>1, <1>2

(***************************************************************************)
(* Every kernel implements Gemm in all its steps, for clean shapes.        *)
(***************************************************************************)
THEOREM RefinesGemm ==
  ASSUME \A s \in Shapes : CleanShape(s)
  PROVE  Spec => Abstract!Init /\ [][Abstract!Next]_(Abstract!vars)
<1>1. Init => Abstract!Init
  BY GemmInit
<1>2. KernelsInv /\ [Next]_vars => [Abstract!Next]_(Abstract!vars)
  BY GemmStep
<1>. QED  BY <1>1, <1>2, Kernels, PTL DEF Spec

-----------------------------------------------------------------------------
(* The transposes.                                                         *)

\* what a call is made of, and the sizes
LEMMA TransSizes ==
  ASSUME word \in Calls
  PROVE  /\ word.n \in Nat /\ word.m \in Nat \ {0} /\ Trans!PerRound \in Nat \ {0}
         /\ Trans!L = 8 * Trans!PerRound /\ Trans!stride = 8 * word.n
         /\ word.layout = "single" => Trans!PerRound = 1
         /\ word.layout # "single" => Trans!PerRound = word.m
         /\ word.layout \in { "seq", "zip", "single" }
         /\ word.method \in { "vlseg8", "vsseg8", "vls", "vss" } => word.layout = "single"
         /\ word.method \in { "vslide", "vrgather", "vlseg8", "vsseg8", "vls", "vss" }
BY CallsAssumption DEF Trans!IsCall, Trans!PerRound, Trans!L, Trans!stride, Trans!InMemory

Bits == 0 .. 1
Three(a, b, c) == 4 * a + 2 * b + c

\* the numbers up to 7 in bits
LEMMA InBits == \A f \in 0 .. 7 : \E a, b, c \in Bits : f = Three(a, b, c)
BY DEF Bits, Three

\* the element in row f and column x of matrix q
Element(R, q, f, x) == R[f][8 * q + x]

\* S is R with one bit of the row and of the column exchanged, in matrix q
SwapFour(S, R, q) == \A a, b, c, x, y, z \in Bits :
  Element(S, q, Three(a, b, c), Three(x, y, z)) = Element(R, q, Three(x, b, c), Three(a, y, z))
SwapTwo(S, R, q) == \A a, b, c, x, y, z \in Bits :
  Element(S, q, Three(a, b, c), Three(x, y, z)) = Element(R, q, Three(a, y, c), Three(x, b, z))
SwapOne(S, R, q) == \A a, b, c, x, y, z \in Bits :
  Element(S, q, Three(a, b, c), Three(x, y, z)) = Element(R, q, Three(a, b, z), Three(x, y, c))

LEMMA SlidFour ==
  ASSUME word \in Calls, NEW q \in 0 .. Trans!PerRound - 1
  PROVE  \A R : SwapFour(Trans!Slid(R, 4), R, q)
<1>. SUFFICES ASSUME NEW R, NEW a \in Bits, NEW b \in Bits, NEW c \in Bits,
                     NEW x \in Bits, NEW y \in Bits, NEW z \in Bits
              PROVE  Trans!Slid(R, 4)[Three(a, b, c)][8 * q + Three(x, y, z)] =
                       R[Three(x, b, c)][8 * q + Three(a, y, z)]
  BY DEF SwapFour, Element
<1>1. PICK w \in Nat \ {0} : w = Trans!PerRound /\ Trans!L = 8 * w
  BY TransSizes
<1>2. PICK f, e \in Nat : f = Three(a, b, c) /\ e = 8 * q + Three(x, y, z)
  BY <1>1 DEF Bits, Three
<1>3. f \in 0 .. 7 /\ e \in 0 .. Trans!L - 1
  BY <1>1, <1>2 DEF Bits, Three
<1>4. (f \div 4) % 2 = a /\ (e \div 4) % 2 = x
  BY <1>1, <1>2 DEF Bits, Three
<1>5. Trans!Slid(R, 4)[f][e] =
        IF a = 0 THEN IF x = 1 THEN R[f + 4][e - 4] ELSE R[f][e]
                 ELSE IF x = 1 THEN R[f][e] ELSE R[f - 4][e + 4]
  BY <1>3, <1>4 DEF Trans!Slid, Trans!Rows, Trans!OddBlock
<1>. QED  BY <1>1, <1>2, <1>5 DEF Bits, Three

LEMMA SlidTwo ==
  ASSUME word \in Calls, NEW q \in 0 .. Trans!PerRound - 1
  PROVE  \A R : SwapTwo(Trans!Slid(R, 2), R, q)
<1>. SUFFICES ASSUME NEW R, NEW a \in Bits, NEW b \in Bits, NEW c \in Bits,
                     NEW x \in Bits, NEW y \in Bits, NEW z \in Bits
              PROVE  Trans!Slid(R, 2)[Three(a, b, c)][8 * q + Three(x, y, z)] =
                       R[Three(a, y, c)][8 * q + Three(x, b, z)]
  BY DEF SwapTwo, Element
<1>1. PICK w \in Nat \ {0} : w = Trans!PerRound /\ Trans!L = 8 * w
  BY TransSizes
<1>2. PICK f, e \in Nat : f = Three(a, b, c) /\ e = 8 * q + Three(x, y, z)
  BY <1>1 DEF Bits, Three
<1>3. f \in 0 .. 7 /\ e \in 0 .. Trans!L - 1
  BY <1>1, <1>2 DEF Bits, Three
<1>4. (f \div 2) % 2 = b /\ (e \div 2) % 2 = y
  BY <1>1, <1>2 DEF Bits, Three
<1>5. Trans!Slid(R, 2)[f][e] =
        IF b = 0 THEN IF y = 1 THEN R[f + 2][e - 2] ELSE R[f][e]
                 ELSE IF y = 1 THEN R[f][e] ELSE R[f - 2][e + 2]
  BY <1>3, <1>4 DEF Trans!Slid, Trans!Rows, Trans!OddBlock
<1>. QED  BY <1>1, <1>2, <1>5 DEF Bits, Three

LEMMA SlidOne ==
  ASSUME word \in Calls, NEW q \in 0 .. Trans!PerRound - 1
  PROVE  \A R : SwapOne(Trans!Slid(R, 1), R, q)
<1>. SUFFICES ASSUME NEW R, NEW a \in Bits, NEW b \in Bits, NEW c \in Bits,
                     NEW x \in Bits, NEW y \in Bits, NEW z \in Bits
              PROVE  Trans!Slid(R, 1)[Three(a, b, c)][8 * q + Three(x, y, z)] =
                       R[Three(a, b, z)][8 * q + Three(x, y, c)]
  BY DEF SwapOne, Element
<1>1. PICK w \in Nat \ {0} : w = Trans!PerRound /\ Trans!L = 8 * w
  BY TransSizes
<1>2. PICK f, e \in Nat : f = Three(a, b, c) /\ e = 8 * q + Three(x, y, z)
  BY <1>1 DEF Bits, Three
<1>3. f \in 0 .. 7 /\ e \in 0 .. Trans!L - 1
  BY <1>1, <1>2 DEF Bits, Three
<1>4. (f \div 1) % 2 = c /\ (e \div 1) % 2 = z
  BY <1>1, <1>2 DEF Bits, Three
<1>5. Trans!Slid(R, 1)[f][e] =
        IF c = 0 THEN IF z = 1 THEN R[f + 1][e - 1] ELSE R[f][e]
                 ELSE IF z = 1 THEN R[f][e] ELSE R[f - 1][e + 1]
  BY <1>3, <1>4 DEF Trans!Slid, Trans!Rows, Trans!OddBlock
<1>. QED  BY <1>1, <1>2, <1>5 DEF Bits, Three

\* S is R with rows and columns exchanged, in matrix q
TransposeOf(S, R, q) == \A f, x \in 0 .. 7 : S[f][8 * q + x] = R[x][8 * q + f]

\* every method transposes the matrices in the registers
LEMMA TransposedIs ==
  ASSUME word \in Calls, NEW q \in 0 .. Trans!PerRound - 1
  PROVE  \A R : TransposeOf(Trans!Transposed(R), R, q)
<1>. SUFFICES ASSUME NEW R, NEW f \in 0 .. 7, NEW x \in 0 .. 7
              PROVE  Trans!Transposed(R)[f][8 * q + x] = R[x][8 * q + f]
  BY DEF TransposeOf
<1>1. PICK w \in Nat \ {0} : w = Trans!PerRound /\ Trans!L = 8 * w
  BY TransSizes
<1>2. PICK e \in Nat : e = 8 * q + x /\ e \in 0 .. Trans!L - 1 /\ e \div 8 = q /\ e % 8 = x
  <2>1. 8 * q + x \in 0 .. Trans!L - 1 /\ (8 * q + x) \div 8 = q /\ (8 * q + x) % 8 = x
    BY <1>1
  <2>. QED  BY <2>1
<1>3. CASE word.method = "vslide"
  <2>1. PICK a \in Bits, b \in Bits, c \in Bits : f = Three(a, b, c)
    BY InBits
  <2>2. PICK u \in Bits, v \in Bits, z \in Bits : x = Three(u, v, z)
    BY InBits
  <2>. DEFINE R4 == Trans!Slid(R, 4)
              R2 == Trans!Slid(R4, 2)
              R1 == Trans!Slid(R2, 1)
  <2>6. Trans!Transposed(R) = R1
    BY <1>3 DEF Trans!Transposed
  <2>8. R1 = Trans!Slid(R2, 1)
    OBVIOUS
  <2>10. R2 = Trans!Slid(R4, 2)
    OBVIOUS
  <2>11. R4 = Trans!Slid(R, 4)
    OBVIOUS
  <2>. HIDE DEF R4, R2, R1
  <2>9. /\ a \in Bits /\ b \in Bits /\ c \in Bits
        /\ u \in Bits /\ v \in Bits /\ z \in Bits
    OBVIOUS
  <2>3. Element(R1, q, Three(a, b, c), Three(u, v, z)) =
          Element(R2, q, Three(a, b, z), Three(u, v, c))
    <3>1. \A S : SwapOne(Trans!Slid(S, 1), S, q)
      BY SlidOne
    <3>2. SwapOne(R1, R2, q)
      BY <3>1, <2>8
    <3>. QED  BY <2>9, <3>2 DEF SwapOne
  <2>4. Element(R2, q, Three(a, b, z), Three(u, v, c)) =
          Element(R4, q, Three(a, v, z), Three(u, b, c))
    <3>1. \A S : SwapTwo(Trans!Slid(S, 2), S, q)
      BY SlidTwo
    <3>2. SwapTwo(R2, R4, q)
      BY <3>1, <2>10
    <3>. QED  BY <2>9, <3>2 DEF SwapTwo
  <2>5. Element(R4, q, Three(a, v, z), Three(u, b, c)) =
          Element(R, q, Three(u, v, z), Three(a, b, c))
    <3>1. \A S : SwapFour(Trans!Slid(S, 4), S, q)
      BY SlidFour
    <3>2. SwapFour(R4, R, q)
      BY <3>1, <2>11
    <3>. QED  BY <2>9, <3>2 DEF SwapFour
  <2>7. 8 * q + x = 8 * q + Three(u, v, z) /\ 8 * q + f = 8 * q + Three(a, b, c)
    BY <2>1, <2>2 DEF Bits, Three
  <2>. QED  BY <2>1, <2>2, <2>3, <2>4, <2>5, <2>6, <2>7 DEF Element
<1>4. CASE word.method = "vrgather"
  <2>1. Trans!Transposed(R)[f][e] =
          R[((e % 8) * Trans!L + 8 * (e \div 8) + f) \div Trans!L]
           [((e % 8) * Trans!L + 8 * (e \div 8) + f) % Trans!L]
    BY <1>2, <1>4 DEF Trans!Transposed, Trans!Gathered, Trans!Rows
  <2>2. PICK g \in Nat \ {0}, o \in Nat : g = Trans!L /\ o = 8 * q + f /\ o \in 0 .. g - 1
    <3>1. Trans!L \in Nat \ {0} /\ 8 * q + f \in 0 .. Trans!L - 1
      BY <1>1
    <3>. QED  BY <3>1
  <2>3. x \in Nat /\ (x * g + o) \div g = x /\ (x * g + o) % g = o
    <3>1. x \in Nat
      OBVIOUS
    <3>. QED  BY ONLY <2>2, <3>1, QuotientUnique
  <2>4. (e % 8) * Trans!L + 8 * (e \div 8) + f = x * g + o
    <3>1. PICK h \in Nat : h = x * g
      BY <2>2
    <3>2. (e % 8) * Trans!L = h
      BY <1>2, <2>2, <3>1
    <3>. QED  BY <1>2, <2>2, <3>1, <3>2
  <2>. QED  BY <1>2, <2>1, <2>2, <2>3, <2>4
<1>5. CASE word.method \in { "vlseg8", "vls", "vsseg8", "vss" }
  <2>1. w = 1 /\ q = 0 /\ e = x /\ Trans!L = 8
    BY <1>1, <1>2, <1>5, TransSizes
  <2>2. /\ 8 * x + f \in 0 .. 63 /\ (8 * x + f) \div 8 = x /\ (8 * x + f) % 8 = f
        /\ 8 * f + x \in 0 .. 63 /\ (8 * f + x) \div 8 = f /\ (8 * f + x) % 8 = x
    OBVIOUS
  <2>3. Trans!ColumnsLoaded(R)[f][x] = R[x][f]
    BY <2>1, <2>2 DEF Trans!ColumnsLoaded, Trans!Rows
  <2>4. Trans!ColumnsStored(R)[f][x] = R[x][f]
    BY <2>1, <2>2 DEF Trans!ColumnsStored, Trans!Rows
  <2>5. Trans!Transposed(R) \in { Trans!ColumnsLoaded(R), Trans!ColumnsStored(R) }
    BY <1>5 DEF Trans!Transposed
  <2>6. 8 * q + x = x /\ 8 * q + f = f
    BY <2>1
  <2>. QED  BY <2>3, <2>4, <2>5, <2>6
<1>. QED  BY <1>3, <1>4, <1>5, TransSizes

\* the calls that the finding about __riscv_zbb is not about
CleanCall(c) == c.layout = "seq" /\ c.sew = 16 => c.zbb \/ c.m = 1

\* the matrices of a round begin with matrix i
Source(R, i) ==
  \A q \in 0 .. Trans!PerRound - 1 : \A f, x \in 0 .. 7 :
    R[f][8 * q + x] = << i + q, f, x >>

Result(R, i) ==
  \A q \in 0 .. Trans!PerRound - 1 : \A f, x \in 0 .. 7 :
    R[f][8 * q + x] = Trans!Scalar(i + q, f, x)

\* register f holds as many elements as are used
Eight(R) == DOMAIN R = 0 .. 7 /\ \A f \in 0 .. 7 : DOMAIN R[f] = 0 .. Trans!L - 1

\* an element of a register, and that of Rows
LEMMA Place8 ==
  ASSUME word \in Calls, NEW q \in 0 .. Trans!PerRound - 1, NEW x \in 0 .. 7
  PROVE  /\ 8 * q + x \in 0 .. Trans!L - 1
         /\ (8 * q + x) \div 8 = q /\ (8 * q + x) % 8 = x
<1>1. PICK w \in Nat \ {0} : w = Trans!PerRound /\ Trans!L = 8 * w
  BY TransSizes
<1>. QED  BY <1>1

\* where the zip kernels find element x of row f of matrix q of round j
ZipPlace(m, j, q, f, x) ==
  LET a == 8 * (j * (8 * m)) + f * (8 * m) + (8 * q + x)
      r == f * (8 * m) + (8 * q + x)
  IN  /\ a \div (64 * m) = j /\ a % (64 * m) = r
      /\ r \div (8 * m) = f /\ r % (8 * m) = 8 * q + x /\ r % 8 = x
      /\ (8 * q + x) \div 8 = q

LEMMA ZipPlaces ==
  ASSUME NEW m \in Nat \ {0}
  PROVE  \A j \in Nat : \A q \in 0 .. m - 1 : \A f, x \in 0 .. 7 : ZipPlace(m, j, q, f, x)
<1>. SUFFICES ASSUME NEW j \in Nat, NEW q \in 0 .. m - 1, NEW f \in 0 .. 7, NEW x \in 0 .. 7
              PROVE  ZipPlace(m, j, q, f, x)
  OBVIOUS
<1>1. PICK g \in Nat \ {0}, h \in Nat \ {0}, e \in Nat :
        g = 8 * m /\ h = 64 * m /\ e = 8 * q + x /\ e < g /\ h = 8 * g
  <2>1. 8 * m \in Nat \ {0} /\ 64 * m \in Nat \ {0} /\ 8 * q + x \in Nat /\ 8 * q + x < 8 * m
        /\ 64 * m = 8 * (8 * m)
    OBVIOUS
  <2>. QED  BY <2>1
<1>2. PICK r \in Nat : r = f * g + e /\ r < h
  <2>1. f * g + e \in Nat /\ f * g + e < h
    BY <1>1
  <2>. QED  BY <2>1
<1>3. PICK jg \in Nat, jm \in Nat : jg = j * g /\ jm = j * m /\ jg = 8 * jm
  <2>1. j * g \in Nat /\ j * m \in Nat /\ j * g = 8 * (j * m)
    BY <1>1
  <2>. QED  BY <2>1
<1>4. j * h = 8 * jg
  <2>1. j * h = j * (8 * g)
    BY <1>1
  <2>2. j * (8 * g) = 8 * (j * g)
    BY <1>1
  <2>. QED  BY <1>3, <2>1, <2>2
<1>5. (j * h + r) \div h = j /\ (j * h + r) % h = r
  <2>1. r \in 0 .. h - 1
    BY <1>1, <1>2
  <2>. QED  BY ONLY <1>1, <2>1, j \in Nat, QuotientUnique
<1>6. (f * g + e) \div g = f /\ (f * g + e) % g = e
  <2>1. e \in 0 .. g - 1 /\ f \in Nat
    BY <1>1
  <2>. QED  BY ONLY <1>1, <2>1, QuotientUnique
<1>7. r % 8 = x
  <2>1. PICK u \in Nat : u = f * m
    OBVIOUS
  <2>2. f * g = 8 * u
    BY <1>1, <2>1
  <2>3. r = 8 * (u + q) + x
    BY <1>1, <1>2, <2>2
  <2>. QED  BY <2>1, <2>3
<1>8. e \div 8 = q
  BY <1>1
<1>9. 8 * (j * (8 * m)) + f * (8 * m) + (8 * q + x) = j * h + r
  BY <1>1, <1>2, <1>3, <1>4
<1>. QED  BY <1>1, <1>2, <1>5, <1>6, <1>7, <1>8, <1>9 DEF ZipPlace

\* where template_seq finds a half row
HalfRow(m, q, f, x) ==
  LET u == (f * (8 * m) + (8 * q + x)) \div 4
  IN  /\ u \in Nat /\ u \div 2 = f * m + q /\ u % 2 = x \div 4
      /\ (f * m + q) % m = q /\ (f * m + q) \div m = f /\ f * m + q \in Nat

LEMMA HalfRows ==
  ASSUME NEW m \in Nat \ {0}
  PROVE  \A q \in 0 .. m - 1 : \A f, x \in 0 .. 7 : HalfRow(m, q, f, x)
<1>. SUFFICES ASSUME NEW q \in 0 .. m - 1, NEW f \in 0 .. 7, NEW x \in 0 .. 7
              PROVE  HalfRow(m, q, f, x)
  OBVIOUS
<1>1. PICK u \in Nat : u = f * m + q
  OBVIOUS
<1>2. f * (8 * m) + (8 * q + x) = 8 * u + x
  <2>1. PICK v \in Nat : v = f * m
    OBVIOUS
  <2>2. f * (8 * m) = 8 * v
    BY <2>1
  <2>. QED  BY <1>1, <2>1, <2>2
<1>3. (8 * u + x) \div 4 = 2 * u + x \div 4 /\ x \div 4 \in 0 .. 1
  OBVIOUS
<1>4. PICK h \in 0 .. 1 : h = x \div 4
  BY <1>3
<1>5. (2 * u + h) \div 2 = u /\ (2 * u + h) % 2 = h
  OBVIOUS
<1>6. (f * m + q) \div m = f /\ (f * m + q) % m = q
  BY QuotientUnique
<1>. QED  BY <1>1, <1>2, <1>3, <1>4, <1>5, <1>6 DEF HalfRow

LEMMA SeqPlace ==
  ASSUME NEW g \in Nat, NEW f \in 0 .. 7, NEW x \in 0 .. 7
  PROVE  Trans!Seq1(64 * g + (8 * f + x)) = << g, f, x >>
<1>1. PICK s \in 0 .. 63 : s = 8 * f + x /\ s \div 8 = f /\ s % 8 = x
  <2>1. 8 * f + x \in 0 .. 63 /\ (8 * f + x) \div 8 = f /\ (8 * f + x) % 8 = x
    OBVIOUS
  <2>. QED  BY <2>1
<1>2. (64 * g + s) \div 64 = g /\ (64 * g + s) % 64 = s /\ (64 * g + s) % 8 = s % 8
  OBVIOUS
<1>. QED  BY <1>1, <1>2 DEF Trans!Seq1

\* a round reads the matrices of the round
LEMMA LoadedIs ==
  ASSUME word \in Calls, CleanCall(word), NEW c \in Nat, col = 8 * c,
         \E j \in Nat : col = j * Trans!L
  PROVE  Source(Trans!Loaded, c) /\ Eight(Trans!Loaded)
<1>. SUFFICES ASSUME NEW q \in 0 .. Trans!PerRound - 1, NEW f \in 0 .. 7, NEW x \in 0 .. 7
              PROVE  Trans!Loaded[f][8 * q + x] = << c + q, f, x >>
  BY DEF Source, Eight, Trans!Loaded, Trans!Rows
<1>1. PICK w \in Nat \ {0}, m \in Nat \ {0} :
        w = Trans!PerRound /\ m = word.m /\ Trans!L = 8 * w /\ (word.layout # "single" => w = m)
  BY TransSizes
<1>2. PICK e \in 0 .. Trans!L - 1 : e = 8 * q + x /\ e \div 8 = q /\ e % 8 = x /\ e \in Nat
  BY <1>1, Place8
<1>3. CASE word.layout = "zip"
  <2>1. w = m /\ q \in 0 .. m - 1
    BY <1>1, <1>3
  <2>2. PICK j \in Nat : col = j * (8 * m)
    BY <1>1, <2>1
  <2>3. c = j * m
    <3>1. PICK g \in Nat : g = j * m
      BY <2>2
    <3>2. j * (8 * m) = 8 * g
      BY <3>1
    <3>. QED  BY <2>2, <3>1, <3>2
  <2>4. Trans!Loaded[f][e] = Trans!SrcVl(8 * col + f * Trans!L + e)
    BY <1>2, <1>3 DEF Trans!Loaded, Trans!Rows
  <2>5. PICK a \in Int : a = 8 * (j * (8 * m)) + f * (8 * m) + (8 * q + x)
    OBVIOUS
  <2>6. 8 * col + f * Trans!L + e = a
    BY <1>1, <1>2, <2>1, <2>2, <2>5
  <2>7. /\ a \div (64 * m) = j /\ a % (64 * m) = f * (8 * m) + (8 * q + x)
        /\ (f * (8 * m) + (8 * q + x)) \div (8 * m) = f
        /\ (f * (8 * m) + (8 * q + x)) % (8 * m) = 8 * q + x
        /\ (f * (8 * m) + (8 * q + x)) % 8 = x
        /\ (8 * q + x) \div 8 = q
    <3>1. ZipPlace(m, j, q, f, x)
      BY <2>1, ZipPlaces
    <3>. QED  BY ONLY <2>5, <3>1 DEF ZipPlace
  <2>8. Trans!SrcVl(a) = << j * m + q, f, x >>
    <3>1. Trans!SrcVl(a) =
            << (a \div (64 * m)) * m + ((a % (64 * m)) % (8 * m)) \div 8,
               (a % (64 * m)) \div (8 * m), (a % (64 * m)) % 8 >>
      BY <1>1, <2>1 DEF Trans!SrcVl
    <3>. QED  BY <2>7, <3>1
  <2>. QED  BY <1>2, <2>3, <2>4, <2>6, <2>8
<1>4. CASE word.layout = "seq" /\ word.sew = 16
  <2>1. w = m /\ q \in 0 .. m - 1
    BY <1>1, <1>4
  <2>2. Trans!Loaded[f][e] =
          Trans!Seq1(8 * col + 4 * Trans!Index((f * Trans!L + e) \div 4) + (e % 4))
    BY <1>2, <1>4 DEF Trans!Loaded, Trans!Rows
  <2>3. f * Trans!L + e = f * (8 * m) + (8 * q + x)
    BY <1>1, <1>2, <2>1
  <2>4. PICK u \in Nat : /\ u = (f * (8 * m) + (8 * q + x)) \div 4
                         /\ u \div 2 = f * m + q /\ u % 2 = x \div 4
                         /\ (f * m + q) % m = q /\ (f * m + q) \div m = f
                         /\ f * m + q \in Nat
    <3>1. HalfRow(m, q, f, x)
      BY <2>1, HalfRows
    <3>. QED  BY ONLY <3>1 DEF HalfRow
  <2>5. Trans!Shifted(f * m + q) = f
    <3>1. CASE word.zbb
      BY <1>1, <2>4, <3>1 DEF Trans!Shifted
    <3>2. CASE ~ word.zbb
      <4>1. m = 1 /\ q = 0
        BY <1>1, <1>4, <2>1, <3>2 DEF CleanCall
      <4>. QED  BY <3>2, <4>1 DEF Trans!Shifted
    <3>. QED  BY <3>1, <3>2
  <2>6. Trans!Index(u) = q * 16 + 2 * f + (x \div 4)
    BY <1>1, <2>4, <2>5 DEF Trans!Index
  <2>7. e % 4 = x % 4
    BY <1>2
  <2>8. 8 * col + 4 * Trans!Index(u) + (e % 4) = 64 * (c + q) + (8 * f + x)
    <3>1. 4 * (x \div 4) + (x % 4) = x
      OBVIOUS
    <3>. QED  BY <1>1, <2>6, <2>7, <3>1
  <2>9. Trans!Seq1(64 * (c + q) + (8 * f + x)) = << c + q, f, x >>
    <3>1. PICK g \in Nat : g = c + q
      BY <1>1
    <3>. QED  BY <3>1, SeqPlace
  <2>. QED  BY <1>2, <2>2, <2>3, <2>4, <2>8, <2>9
<1>5. CASE word.layout # "zip" /\ ~ (word.layout = "seq" /\ word.sew = 16)
  <2>1. Trans!Loaded[f][e] = Trans!Seq1(8 * col + (e \div 8) * 64 + f * 8 + (e % 8))
    BY <1>2, <1>5 DEF Trans!Loaded, Trans!Rows
  <2>2. 8 * col + (e \div 8) * 64 + f * 8 + (e % 8) = 64 * (c + q) + (8 * f + x)
    BY <1>1, <1>2
  <2>9. Trans!Seq1(64 * (c + q) + (8 * f + x)) = << c + q, f, x >>
    <3>1. PICK g \in Nat : g = c + q
      BY <1>1
    <3>. QED  BY <3>1, SeqPlace
  <2>. QED  BY <1>2, <2>1, <2>2, <2>9
<1>. QED  BY <1>3, <1>4, <1>5

\* the butterfly of an element
ButterflyOf(S, R, q) ==
  \A f, x \in 0 .. 7 :
    S[f][8 * q + x] =
      Trans!Half(f % 2, R[Trans!Even(f)][8 * q + x], R[Trans!Even(f) + 1][8 * q + x])

LEMMA ButterflyIs ==
  ASSUME word \in Calls, NEW q \in 0 .. Trans!PerRound - 1
  PROVE  \A R : ButterflyOf(Trans!Butterfly(R), R, q)
<1>. SUFFICES ASSUME NEW R, NEW f \in 0 .. 7, NEW x \in 0 .. 7
              PROVE  Trans!Butterfly(R)[f][8 * q + x] =
                       Trans!Half(f % 2, R[Trans!Even(f)][8 * q + x], R[Trans!Even(f) + 1][8 * q + x])
  BY DEF ButterflyOf
<1>1. PICK e \in 0 .. Trans!L - 1 : e = 8 * q + x
  BY Place8
<1>. QED  BY <1>1 DEF Trans!Butterfly, Trans!Rows, Trans!Even

LEMMA EvenRow == \A f \in 0 .. 7 : Trans!Even(f) \in 0 .. 7 /\ Trans!Even(f) + 1 \in 0 .. 7
                                   /\ f % 2 \in 0 .. 1
BY DEF Trans!Even

\* a round makes of them what trans8x8_seq_scalar does
LEMMA ShuffledIs ==
  ASSUME word \in Calls, NEW R, NEW i, Source(R, i)
  PROVE  /\ Result(Trans!Butterfly(Trans!Transposed(Trans!Butterfly(R))), i)
         /\ Eight(Trans!Butterfly(Trans!Transposed(Trans!Butterfly(R))))
<1>. DEFINE B == Trans!Butterfly(R)
            V == Trans!Transposed(B)
            W == Trans!Butterfly(V)
<1>1. Eight(W)
  BY DEF Eight, Trans!Butterfly, Trans!Rows
<1>2. ASSUME NEW q \in 0 .. Trans!PerRound - 1, NEW f \in 0 .. 7, NEW x \in 0 .. 7
      PROVE  W[f][8 * q + x] = Trans!Scalar(i + q, f, x)
  <2>1. \A g, y \in 0 .. 7 : B[g][8 * q + y] = Trans!Buf(i + q, g, y)
    <3>. SUFFICES ASSUME NEW g \in 0 .. 7, NEW y \in 0 .. 7
                  PROVE  B[g][8 * q + y] = Trans!Buf(i + q, g, y)
      OBVIOUS
    <3>1. B[g][8 * q + y] =
            Trans!Half(g % 2, R[Trans!Even(g)][8 * q + y], R[Trans!Even(g) + 1][8 * q + y])
      <4>1. ButterflyOf(B, R, q)
        BY ButterflyIs
      <4>. QED  BY ONLY <4>1, g \in 0 .. 7, y \in 0 .. 7 DEF ButterflyOf
    <3>2. /\ R[Trans!Even(g)][8 * q + y] = << i + q, Trans!Even(g), y >>
          /\ R[Trans!Even(g) + 1][8 * q + y] = << i + q, Trans!Even(g) + 1, y >>
      BY EvenRow DEF Source
    <3>. QED  BY ONLY <3>1, <3>2 DEF Trans!Buf
  <2>. HIDE DEF B
  <2>2. \A g, y \in 0 .. 7 : V[g][8 * q + y] = B[y][8 * q + g]
    <3>1. TransposeOf(V, B, q)
      BY TransposedIs
    <3>. QED  BY ONLY <3>1 DEF TransposeOf
  <2>. HIDE DEF V
  <2>3. W[f][8 * q + x] =
          Trans!Half(f % 2, V[Trans!Even(f)][8 * q + x], V[Trans!Even(f) + 1][8 * q + x])
    <3>1. ButterflyOf(W, V, q)
      BY ButterflyIs
    <3>. QED  BY ONLY <3>1, f \in 0 .. 7, x \in 0 .. 7 DEF ButterflyOf
  <2>4. /\ V[Trans!Even(f)][8 * q + x] = B[x][8 * q + Trans!Even(f)]
        /\ V[Trans!Even(f) + 1][8 * q + x] = B[x][8 * q + (Trans!Even(f) + 1)]
    BY <2>2, EvenRow
  <2>5. /\ B[x][8 * q + Trans!Even(f)] = Trans!Buf(i + q, x, Trans!Even(f))
        /\ B[x][8 * q + (Trans!Even(f) + 1)] = Trans!Buf(i + q, x, Trans!Even(f) + 1)
    BY <2>1, EvenRow
  <2>. QED  BY ONLY <2>3, <2>4, <2>5 DEF Trans!Scalar
<1>. QED  BY <1>1, <1>2 DEF Result

TransPlaces ==
  /\ word \in Calls /\ pc \in { "enter", "load", "transpose", "store", "done" }
  /\ rows \in Nat /\ col \in Nat /\ rows + col = Trans!stride
  /\ \E c \in Nat : col = 8 * c
  /\ pc # "done" => \E j \in Nat : col = j * Trans!L
  /\ pc = "enter" => col = 0
  /\ pc \in { "load", "transpose", "store" } /\ word.layout = "single" => rows # 0
  /\ pc = "transpose" => Source(vc, col \div 8) /\ Eight(vc)
  /\ pc = "store" => Result(vc, col \div 8) /\ Eight(vc)

\* what has been stored, and the rest of dest
DestInv ==
  /\ DOMAIN C = 0 .. 8 * Trans!stride + 7
  /\ \A a \in DOMAIN C :
       C[a] = IF a < 8 * Trans!stride /\ a % Trans!stride < col
                THEN Trans!Scalar((a % Trans!stride) \div 8, a \div Trans!stride, a % 8)
                ELSE Trans!Untouched

TransInv == TransPlaces /\ DestInv

LEMMA TransInit == Trans!TransInit => TransInv
<1>. SUFFICES ASSUME Trans!TransInit PROVE TransInv
  OBVIOUS
<1>1. word \in Calls /\ pc = "enter" /\ rows = 8 * word.n /\ col = 0
      /\ C = [a \in 0 .. 8 * Trans!stride + 7 |-> Trans!Untouched]
  BY DEF Trans!TransInit
<1>2. PICK n \in Nat, w \in Nat \ {0} : n = word.n /\ Trans!stride = 8 * n /\ Trans!L = 8 * w
  BY <1>1, TransSizes
<1>3. \A a \in DOMAIN C : ~ (a < 8 * Trans!stride /\ a % Trans!stride < col)
  <2>. SUFFICES ASSUME NEW a \in DOMAIN C, a < 8 * Trans!stride
                PROVE  ~ (a % Trans!stride < 0)
    BY <1>1
  <2>1. a \in Nat /\ n \in Nat \ {0} /\ Trans!stride \in Nat \ {0}
    BY <1>1, <1>2
  <2>. QED  BY <2>1
<1>4. col = 8 * 0 /\ col = 0 * Trans!L /\ 0 \in Nat
  BY <1>1, <1>2
<1>. QED  BY <1>1, <1>2, <1>3, <1>4 DEF TransInv, TransPlaces, DestInv

\* element e of register f, of those a round stores, has its place in dest
StoredAt(st, d, s, a, f) ==
  a - f * st - d \in 0 .. s - 1 <=>
    a < 8 * st /\ a % st \in d .. d + s - 1 /\ f = a \div st

LEMMA StoredPlaces ==
  ASSUME NEW st \in Nat, NEW d \in Nat, NEW s \in Nat, d + s =< st
  PROVE  \A a \in Nat : \A f \in 0 .. 7 : StoredAt(st, d, s, a, f)
<1>. SUFFICES ASSUME NEW a \in Nat, NEW f \in 0 .. 7
              PROVE  StoredAt(st, d, s, a, f)
  OBVIOUS
<1>1. ASSUME a - f * st - d \in 0 .. s - 1
      PROVE  a < 8 * st /\ a % st \in d .. d + s - 1 /\ f = a \div st
  <2>1. PICK e \in 0 .. s - 1 : e = a - f * st - d
    BY <1>1
  <2>2. d + e \in 0 .. st - 1 /\ st \in Nat \ {0} /\ f \in Nat
    BY <2>1
  <2>3. (f * st + (d + e)) \div st = f /\ (f * st + (d + e)) % st = d + e
    BY ONLY <2>2, QuotientUnique
  <2>4. PICK g \in Nat : g = f * st
    BY <2>2
  <2>5. a = f * st + (d + e)
    BY <2>1, <2>4
  <2>6. f * st =< 7 * st
    OBVIOUS
  <2>. QED  BY <2>1, <2>2, <2>3, <2>4, <2>5, <2>6
<1>2. ASSUME a < 8 * st, a % st \in d .. d + s - 1, f = a \div st
      PROVE  a - f * st - d \in 0 .. s - 1
  <2>1. st \in Nat \ {0}
    BY <1>2
  <2>2. a = (a \div st) * st + (a % st) /\ a % st \in 0 .. st - 1
    BY ONLY <2>1, Quotient, a \in Nat
  <2>3. PICK g \in Nat, r \in Nat : g = f * st /\ r = a % st
    BY <2>1, <2>2
  <2>. QED  BY <1>2, <2>2, <2>3
<1>. QED  BY <1>1, <1>2 DEF StoredAt

\* the rest of the numbers of an element in dest
LEMMA StoredNumbers ==
  ASSUME NEW n \in Nat, NEW c \in Nat, NEW f \in 0 .. 7, NEW e \in Nat, NEW a \in Nat,
         a = f * (8 * n) + (8 * c + e)
  PROVE  /\ (8 * c + e) \div 8 = c + (e \div 8) /\ a % 8 = e % 8
         /\ 8 * (e \div 8) + (e % 8) = e
<1>1. PICK g \in Nat : g = f * n
  OBVIOUS
<1>2. f * (8 * n) = 8 * g
  BY <1>1
<1>3. a = 8 * (g + c) + e
  BY <1>2
<1>. QED  BY <1>1, <1>3

LEMMA TransStored ==
  ASSUME TransInv, Trans!Store
  PROVE  TransInv'
<1>0. /\ TransPlaces /\ DestInv /\ pc = "store"
      /\ col' = col + Trans!Stored /\ rows' = rows - Trans!Stored
      /\ pc' = (IF rows' = 0 THEN "done" ELSE "load") /\ word' = word
  BY DEF Trans!Store, TransInv
<1>01. /\ word \in Calls /\ rows \in Nat /\ col \in Nat /\ rows + col = Trans!stride
       /\ \E c \in Nat : col = 8 * c
       /\ \E j \in Nat : col = j * Trans!L
       /\ word.layout = "single" => rows # 0
       /\ Result(vc, col \div 8)
  BY <1>0 DEF TransPlaces
<1>1. PICK n \in Nat, w \in Nat \ {0} :
        /\ n = word.n /\ w = Trans!PerRound /\ Trans!stride = 8 * n /\ Trans!L = 8 * w
        /\ word.layout = "single" => w = 1
  BY <1>01, TransSizes
<1>2. PICK c \in Nat, j \in Nat : col = 8 * c /\ col = j * Trans!L
  BY <1>01
<1>3. PICK r \in Nat : rows = 8 * r
  <2>1. n - c \in Nat /\ rows = 8 * (n - c)
    BY <1>01, <1>1, <1>2
  <2>. QED  BY <2>1
<1>4. PICK s \in Nat : s = Trans!Stored
  <2>1. Trans!Stored \in Nat
    BY <1>1, <1>3 DEF Trans!Stored
  <2>. QED  BY <2>1
<1>5. /\ s =< rows /\ s =< Trans!L /\ (s = Trans!L \/ s = rows)
      /\ col + s =< Trans!stride
  BY <1>01, <1>1, <1>3, <1>4 DEF Trans!Stored
<1>6. PICK t \in Nat : s = 8 * t
  BY <1>1, <1>3, <1>5
<1>7. /\ rows' = rows - s /\ col' = col + s /\ word' = word
      /\ pc' = IF rows' = 0 THEN "done" ELSE "load"
      /\ Trans!stride' = Trans!stride /\ Trans!L' = Trans!L
  BY <1>0, <1>4 DEF Trans!stride, Trans!L, Trans!PerRound
<1>8. rows' \in Nat /\ col' \in Nat /\ rows' + col' = Trans!stride /\ col' = 8 * (c + t) /\ c + t \in Nat
  BY <1>01, <1>1, <1>2, <1>3, <1>5, <1>6, <1>7
<1>9. pc' # "done" => \E i \in Nat : col' = i * Trans!L
  <2>. SUFFICES ASSUME pc' # "done" PROVE col' = (j + 1) * Trans!L /\ j + 1 \in Nat
    OBVIOUS
  <2>1. s = Trans!L
    BY <1>1, <1>3, <1>5, <1>7
  <2>2. (j + 1) * Trans!L = j * Trans!L + Trans!L
    BY <1>1
  <2>. QED  BY <1>2, <1>7, <2>1, <2>2
<1>10. DOMAIN C' = DOMAIN C /\ DOMAIN C = 0 .. 8 * Trans!stride + 7
  BY <1>0 DEF DestInv, Trans!Store
<1>11. ASSUME NEW a \in DOMAIN C
       PROVE  C'[a] = IF a < 8 * Trans!stride /\ a % Trans!stride < col'
                        THEN Trans!Scalar((a % Trans!stride) \div 8, a \div Trans!stride, a % 8)
                        ELSE Trans!Untouched
  <2>1. a \in Nat /\ Trans!stride \in Nat /\ col \in Nat
    <3>1. PICK m \in Nat : m = 8 * Trans!stride + 7
      BY <1>1
    <3>2. a \in 0 .. m
      BY <1>10, <3>1
    <3>3. a \in Nat
      BY ONLY <3>1, <3>2
    <3>. QED  BY <1>01, <1>1, <3>3
  <2>2. \A f \in 0 .. 7 : StoredAt(Trans!stride, col, s, a, f)
    BY <1>4, <1>5, <2>1, StoredPlaces
  <2>3. CASE \E f \in 0 .. 7 : a - f * Trans!stride - col \in 0 .. s - 1
    <3>1. PICK f \in 0 .. 7 : f = CHOOSE g \in 0 .. 7 : a - g * Trans!stride - col \in 0 .. s - 1
      BY <2>3
    <3>2. a - f * Trans!stride - col \in 0 .. s - 1
      BY <2>3, <3>1
    <3>3. PICK e \in 0 .. s - 1 : e = a - f * Trans!stride - col
      BY <3>2
    <3>4. C'[a] = vc[f][e]
      BY <1>4, <2>3, <3>1, <3>3 DEF Trans!Store
    <3>5. a < 8 * Trans!stride /\ a % Trans!stride \in col .. col + s - 1 /\ f = a \div Trans!stride
      BY <2>2, <3>2 DEF StoredAt
    <3>6. a = f * (8 * n) + (8 * c + e) /\ e \in Nat
      <4>1. f * (8 * n) \in Nat
        BY <1>1
      <4>2. PICK g \in Nat : g = f * (8 * n)
        BY <4>1
      <4>3. f * Trans!stride = g
        BY <1>1, <4>2
      <4>4. col = 8 * c /\ c \in Nat
        BY <1>2
      <4>5. e \in 0 .. s - 1 /\ s \in Nat /\ g \in Nat /\ a \in Nat
        BY <1>4, <2>1
      <4>. QED  BY ONLY <3>3, <4>2, <4>3, <4>4, <4>5
    <3>7. /\ (8 * c + e) \div 8 = c + (e \div 8) /\ a % 8 = e % 8
          /\ 8 * (e \div 8) + (e % 8) = e
      BY <2>1, <3>6, StoredNumbers
    <3>8. a % Trans!stride = 8 * c + e
      <4>1. a = (a \div Trans!stride) * Trans!stride + (a % Trans!stride)
            /\ a % Trans!stride \in Nat
        <5>1. Trans!stride \in Nat \ {0}
          BY <2>1, <3>5
        <5>2. PICK st \in Nat \ {0} : st = Trans!stride
          BY <5>1
        <5>3. a = (a \div st) * st + (a % st) /\ a % st \in 0 .. st - 1
          BY <2>1, Quotient
        <5>. QED  BY <5>2, <5>3
      <4>2. PICK g \in Nat : g = f * Trans!stride
        BY <2>1
      <4>. QED  BY <1>2, <2>1, <3>3, <3>5, <4>1, <4>2
    <3>9. vc[f][e] = Trans!Scalar(c + (e \div 8), f, e % 8)
      <4>1. PICK q \in 0 .. w - 1, x \in 0 .. 7 : q = e \div 8 /\ x = e % 8
        <5>1. e \div 8 \in 0 .. w - 1 /\ e % 8 \in 0 .. 7
          BY <1>1, <1>5, <1>6
        <5>. QED  BY <5>1
      <4>2. Result(vc, col \div 8) /\ col \div 8 = c
        BY <1>01, <1>2
      <4>3. vc[f][8 * q + x] = Trans!Scalar(c + q, f, x)
        BY <1>1, <4>2 DEF Result
      <4>. QED  BY <3>7, <4>1, <4>3
    <3>10. a % Trans!stride < col'
      BY <1>1, <1>2, <1>7, <3>3, <3>8
    <3>. QED  BY <3>4, <3>5, <3>7, <3>8, <3>9, <3>10
  <2>4. CASE ~ \E f \in 0 .. 7 : a - f * Trans!stride - col \in 0 .. s - 1
    <3>1. C'[a] = C[a]
      BY <1>4, <2>4 DEF Trans!Store
    <3>2. a < 8 * Trans!stride => (a % Trans!stride < col' <=> a % Trans!stride < col)
      <4>. SUFFICES ASSUME a < 8 * Trans!stride
                    PROVE  a % Trans!stride < col' <=> a % Trans!stride < col
        OBVIOUS
      <4>1. Trans!stride \in Nat \ {0}
        BY <2>1
      <4>2. a \div Trans!stride \in Nat /\ a % Trans!stride \in Nat
            /\ a = (a \div Trans!stride) * Trans!stride + (a % Trans!stride)
        <5>2. PICK st \in Nat \ {0} : st = Trans!stride
          BY <4>1
        <5>3. a \div st \in Nat /\ a = (a \div st) * st + (a % st) /\ a % st \in 0 .. st - 1
          BY <2>1, Quotient
        <5>. QED  BY <5>2, <5>3
      <4>3. a \div Trans!stride \in 0 .. 7
        <5>1. a \div Trans!stride < 8
          <6>1. PICK h \in Nat, y \in Nat, z \in Nat, b \in Nat :
                  h = a \div Trans!stride /\ y = Trans!stride /\ z = a % Trans!stride /\ b = a
            BY <2>1, <4>2
          <6>4. b = h * y + z /\ b < 8 * y
            BY <4>2, <6>1
          <6>2. 8 =< h => 8 * y =< h * y
            <7>1. 8 < h => 8 * y + y =< h * y
              BY <6>1, OneMoreFits
            <7>. QED  BY <6>1, <7>1
          <6>3. h * y \in Nat
            BY <6>1
          <6>5. h < 8
            <7>1. PICK u \in Nat : u = h * y
              BY <6>3
            <7>2. 8 =< h => 8 * y =< u
              BY <6>2, <7>1
            <7>3. b = u + z /\ b < 8 * y
              BY <6>4, <7>1
            <7>4. h \in Nat /\ y \in Nat /\ z \in Nat /\ b \in Nat /\ u \in Nat
              OBVIOUS
            <7>. QED  BY ONLY <7>2, <7>3, <7>4
          <6>. QED  BY <6>1, <6>5
        <5>. QED  BY <4>2, <5>1
      <4>4. ~ (a % Trans!stride \in col .. col + s - 1)
        BY <2>2, <2>4, <4>3 DEF StoredAt
      <4>5. PICK z \in Nat : z = a % Trans!stride
        BY <4>2
      <4>. QED  BY <1>4, <1>7, <2>1, <4>4, <4>5
    <3>3. C[a] = IF a < 8 * Trans!stride /\ a % Trans!stride < col
                   THEN Trans!Scalar((a % Trans!stride) \div 8, a \div Trans!stride, a % 8)
                   ELSE Trans!Untouched
      BY <1>0 DEF DestInv
    <3>. QED  BY <3>1, <3>2, <3>3
  <2>. QED  BY <2>3, <2>4
<1>12. TransPlaces'
  BY <1>01, <1>7, <1>8, <1>9, <1>3, <1>5, <1>4 DEF TransPlaces
<1>13. DestInv'
  BY <1>7, <1>10, <1>11 DEF DestInv
<1>. QED  BY <1>12, <1>13 DEF TransInv

LEMMA TransStep ==
  ASSUME \A c \in Calls : CleanCall(c)
  PROVE  TransInv /\ [Trans!TransNext]_(Trans!tvars) => TransInv'
<1>. SUFFICES ASSUME TransInv, [Trans!TransNext]_(Trans!tvars) PROVE TransInv'
  OBVIOUS
<1>0. /\ word \in Calls /\ CleanCall(word) /\ rows \in Nat /\ col \in Nat
      /\ rows + col = Trans!stride /\ \E c \in Nat : col = 8 * c
  BY DEF TransInv, TransPlaces
<1>1. word' = word => Trans!stride' = Trans!stride /\ Trans!L' = Trans!L /\ Trans!PerRound' = Trans!PerRound
  BY DEF Trans!stride, Trans!L, Trans!PerRound
<1>2. PICK c \in Nat : col = 8 * c
  BY <1>0
<1>3. col \div 8 = c
  BY <1>2
<1>4. word' = word /\ C' = C /\ col' = col => DestInv'
  BY <1>1 DEF TransInv, DestInv
<1>6. CASE Trans!Enter
  <2>1. /\ pc = "enter" /\ UNCHANGED << word, rows, col, vc, C >>
        /\ pc' = IF word.layout = "single" /\ word.n = 0 THEN "done" ELSE "load"
    BY <1>6 DEF Trans!Enter
  <2>2. TransPlaces'
    <3>1. word.layout = "single" /\ pc' = "load" => rows # 0
      <4>1. pc = "enter" => col = 0
        BY DEF TransInv, TransPlaces
      <4>2. word.n \in Nat /\ Trans!stride = 8 * word.n
        BY <1>0, TransSizes
      <4>. QED  BY <1>0, <2>1, <4>1, <4>2
    <3>. QED  BY <1>0, <1>1, <2>1, <3>1 DEF TransInv, TransPlaces
  <2>. QED  BY <1>4, <2>1, <2>2 DEF TransInv
<1>7. CASE Trans!Load
  <2>1. pc = "load" /\ pc' = "transpose" /\ vc' = Trans!Loaded /\ UNCHANGED << word, rows, col, C >>
    BY <1>7 DEF Trans!Load
  <2>2. Source(Trans!Loaded, c) /\ Eight(Trans!Loaded)
    BY <1>0, <1>2, <2>1, LoadedIs DEF TransInv, TransPlaces
  <2>3. Source(vc, col \div 8)' /\ Eight(vc)'
    BY <1>1, <1>3, <2>1, <2>2 DEF Source, Eight
  <2>4. TransPlaces'
    BY <1>0, <1>1, <2>1, <2>3 DEF TransInv, TransPlaces
  <2>. QED  BY <1>4, <2>1, <2>4 DEF TransInv
<1>8. CASE Trans!Transpose
  <2>1. /\ pc = "transpose" /\ pc' = "store" /\ UNCHANGED << word, rows, col, C >>
        /\ vc' = Trans!Butterfly(Trans!Transposed(Trans!Butterfly(vc)))
    BY <1>8 DEF Trans!Transpose
  <2>2. Source(vc, c)
    BY <1>3, <2>1 DEF TransInv, TransPlaces
  <2>3. Result(vc', c) /\ DOMAIN vc' = 0 .. 7 /\ \A f \in 0 .. 7 : DOMAIN vc'[f] = 0 .. Trans!L - 1
    BY <1>0, <2>1, <2>2, ShuffledIs DEF Eight
  <2>4. Result(vc, col \div 8)' /\ Eight(vc)'
    BY <1>1, <1>3, <2>1, <2>3 DEF Result, Eight
  <2>5. TransPlaces'
    BY <1>0, <1>1, <2>1, <2>4 DEF TransInv, TransPlaces
  <2>. QED  BY <1>4, <2>1, <2>5 DEF TransInv
<1>9. CASE Trans!Store
  BY <1>9, TransStored
<1>10. CASE UNCHANGED Trans!tvars
  <2>1. UNCHANGED << word, pc, rows, col, vc, C >>
    BY <1>10 DEF Trans!tvars
  <2>2. TransPlaces'
    <3>1. (Source(vc, col \div 8)' <=> Source(vc, col \div 8)) /\ (Eight(vc)' <=> Eight(vc))
          /\ (Result(vc, col \div 8)' <=> Result(vc, col \div 8))
      BY <1>1, <2>1 DEF Source, Eight, Result
    <3>. QED  BY <1>1, <2>1, <3>1 DEF TransInv, TransPlaces
  <2>. QED  BY <1>4, <2>1, <2>2 DEF TransInv
<1>. QED  BY <1>6, <1>7, <1>8, <1>9, <1>10 DEF Trans!TransNext

LEMMA TransResult == TransInv => Trans!ResultIsTransposed
<1>. SUFFICES ASSUME TransInv PROVE Trans!ResultIsTransposed
  OBVIOUS
<1>1. ASSUME pc = "transpose", NEW f \in 0 .. 7, NEW e \in 0 .. Trans!L - 1
      PROVE  vc[f][e][1] \in col \div 8 .. col \div 8 + Trans!PerRound - 1
  <2>1. Source(vc, col \div 8) /\ word \in Calls /\ col \in Nat
    BY <1>1 DEF TransInv, TransPlaces
  <2>2. PICK w \in Nat \ {0} : w = Trans!PerRound /\ Trans!L = 8 * w
    BY <2>1, TransSizes
  <2>3. PICK q \in 0 .. w - 1, x \in 0 .. 7 : q = e \div 8 /\ x = e % 8 /\ 8 * q + x = e
    <3>1. e \in 0 .. 8 * w - 1
      BY <2>2
    <3>2. e \div 8 \in 0 .. w - 1 /\ e % 8 \in 0 .. 7 /\ 8 * (e \div 8) + (e % 8) = e
      BY <3>1
    <3>. QED  BY <3>2
  <2>4. vc[f][8 * q + x] = << col \div 8 + q, f, x >>
    BY <2>1, <2>2 DEF Source
  <2>5. vc[f][e][1] = col \div 8 + q
    BY <2>3, <2>4
  <2>6. col \div 8 \in Int
    BY <2>1
  <2>7. \A b \in Int : b + q \in b .. b + w - 1
    BY ONLY <2>2, <2>3
  <2>8. col \div 8 + q \in col \div 8 .. col \div 8 + w - 1
    BY <2>6, <2>7
  <2>. QED  BY <2>2, <2>5, <2>8
<1>. QED  BY <1>1 DEF TransInv, DestInv, Trans!ResultIsTransposed

TransposesInv == IsTrans => TransInv

(***************************************************************************)
(* The transposes: for registers of every size and any number of matrices  *)
(* every kernel stores what trans8x8_seq_scalar stores, reads the matrices *)
(* of the round only, and leaves the rest of dest alone - but for those    *)
(* compiled without Zbb that make their indices with a count of zeros.     *)
(***************************************************************************)
THEOREM TransposesAreRight ==
  ASSUME \A c \in Calls : CleanCall(c)
  PROVE  Spec => []ResultIsTransposed
<1>1. Init => TransposesInv
  <2>. SUFFICES ASSUME Init, IsTrans PROVE TransInv
    BY DEF TransposesInv
  <2>1. Trans!TransInit
    BY DEF Init, IsTrans, Rvv!Init, Rvv!RvvKernels, Rvv!ScalarKernels
  <2>. QED  BY <2>1, TransInit
<1>2. TransposesInv /\ [Next]_vars => TransposesInv'
  <2>. SUFFICES ASSUME TransposesInv, [Next]_vars, IsTrans' PROVE TransInv'
    BY DEF TransposesInv
  <2>1. IsTrans
    BY SameKernel DEF IsTrans
  <2>2. [Trans!TransNext]_(Trans!tvars)
    BY <2>1 DEF Next, IsTrans, IsVme, IsRvv, IsTest, vars, rvvVars, testVars, Trans!tvars
  <2>. QED  BY <2>1, <2>2, TransStep DEF TransposesInv
<1>3. TransposesInv => ResultIsTransposed
  BY TransResult DEF TransposesInv, ResultIsTransposed
<1>. QED  BY <1>1, <1>2, <1>3, PTL DEF Spec

-----------------------------------------------------------------------------
(* The words of the test.                                                  *)

\* x is what word w stands for, read from its fields
Means(w, x) ==
  \/ w[6] = 7 /\ x = << "vtle", (w[1] - 9) \div 16, w[2], w[3] >>
  \/ w[6] = 39 /\ x = << "vtse", (w[1] - 9) \div 16, w[2], w[3] >>
  \/ w[6] = 119 /\ w[4] = 1 /\ w[5] % 4 = 0 /\ x = << "vtfmm", 2 * (w[5] \div 4), w[2], w[3] >>
  \/ w[6] = 119 /\ w[4] = 1 /\ w[5] % 4 = 1 /\ x = << "vtfmm_alt", 2 * (w[5] \div 4), w[2], w[3] >>
  \/ w[6] = 119 /\ w[4] = 0 /\ w[5] % 4 = 0 /\ x = << "vtmmu", 2 * (w[5] \div 4), w[2], w[3] >>
  \/ w[6] = 119 /\ w[4] = 0 /\ w[5] % 4 = 1 /\ x = << "vtmms", 2 * (w[5] \div 4), w[2], w[3] >>
  \/ w[6] = 87 /\ w[4] = 7 /\ w[1] = 66 /\ x = << "msetmtype", w[3], w[2] >>
  \/ w[6] = 87 /\ w[4] = 7 /\ w[1] = 68 /\ w[2] = 0 /\ x = << "msettn", w[5], w[3] >>
  \/ w[6] = 87 /\ w[4] = 7 /\ w[1] = 68 /\ w[2] = 1 /\ x = << "msettm", w[5], w[3] >>
  \/ w[6] = 87 /\ w[4] = 7 /\ w[1] = 68 /\ w[2] = 2 /\ x = << "msettk", w[5], w[3] >>
  \/ w[6] = 87 /\ w[4] = 7 /\ w[1] # 66 /\ w[2] \notin 0 .. 2
       /\ x = << "msetmtypei", (w[2] - 4) \div 8, (w[1] - 68) \div 8, w[3] >>
  \/ w[6] = 87 /\ w[4] = 6 /\ w[1] = 33 /\ w[2] = 31 /\ x = << "vtmv_v_t", w[5], w[3] >>
  \/ w[6] = 87 /\ w[4] = 6 /\ w[1] = 47 /\ x = << "vtmv_t_v", w[3], w[2] >>
  \/ w[6] = 87 /\ w[4] = 6 /\ w[1] = 33 /\ w[2] = 30 /\ x = << "vtzero", w[5] \div 2 >>
  \/ w[6] = 87 /\ w[4] = 6 /\ w[1] = 33 /\ w[2] = 28 /\ x = << "vtdiscard" >>

\* the fields of a word are no wider than they should be
InFields(w) ==
  /\ w[1] \in 0 .. 127 /\ w[2] \in 0 .. 31 /\ w[3] \in 0 .. 31
  /\ w[4] \in 0 .. 7 /\ w[5] \in 0 .. 31 /\ w[6] \in 0 .. 127

LEMMA Fields ==
  /\ \A v \in 0 .. 127 : Test!Field(v, 7) = v
  /\ \A v \in 0 .. 31 : Test!Field(v, 5) = v
  /\ \A v \in 0 .. 15 : Test!Field(v, 4) = v
  /\ \A v \in 0 .. 7 : Test!Field(v, 3) = v
  /\ \A v \in 0 .. 3 : Test!Field(v, 2) = v
  /\ \A v \in 0 .. 1 : Test!Field(v, 1) = v
<1>1. 2 ^ 7 = 128 /\ 2 ^ 5 = 32 /\ 2 ^ 4 = 16 /\ 2 ^ 3 = 8 /\ 2 ^ 2 = 4 /\ 2 ^ 1 = 2
  OBVIOUS
<1>. QED  BY <1>1 DEF Test!Field

\* the instructions, and their words
LEMMA TypeWord ==
  ASSUME NEW a \in Regs, NEW b \in Regs
  PROVE  Test!Encode(<< "msetmtype", a, b >>) = << 66, b, a, 7, 0, 87 >>
<1>1. a \in 0 .. 31 /\ b \in 0 .. 31
  BY RegsAssumption
<1>2. Test!Encode(<< "msetmtype", a, b >>) = Test!ENC_MSETMTYPE(a, b)
  BY DEF Test!Encode, Test!MSett, Test!Mm
<1>. QED  BY <1>1, <1>2, Fields DEF Test!ENC_MSETMTYPE, Test!ENC_R

LEMMA SizeWord ==
  ASSUME NEW a \in Regs, NEW b \in Regs, NEW op \in Test!MSett
  PROVE  /\ Test!Encode(<< op, a, b >>) = << 68, Test!SubOp(op), b, 7, a, 87 >>
         /\ Test!SubOp(op) = IF op = "msettn" THEN 0 ELSE IF op = "msettm" THEN 1 ELSE 2
<1>1. a \in 0 .. 31 /\ b \in 0 .. 31
  BY RegsAssumption
<1>2. Test!Encode(<< op, a, b >>) = Test!ENC_MSETT(op, a, b)
  BY DEF Test!Encode, Test!MSett, Test!Mm
<1>3. Test!SubOp(op) = IF op = "msettn" THEN 0 ELSE IF op = "msettm" THEN 1 ELSE 2
  BY DEF Test!SubOp, Test!MSett
<1>. QED  BY <1>1, <1>2, <1>3, Fields DEF Test!ENC_MSETT, Test!ENC_R

LEMMA TypeiWord ==
  ASSUME NEW s \in 0 .. 3, NEW a \in 0 .. 1, NEW w \in 0 .. 3
  PROVE  Test!Encode(<< "msetmtypei", s, a, w >>) = << 68 + 8 * a, 8 * s + 4, w, 7, 0, 87 >>
<1>1. Test!Encode(<< "msetmtypei", s, a, w >>) = Test!ENC_MSETMTYPEI(s, a, w)
  BY DEF Test!Encode, Test!MSett, Test!Mm
<1>. QED  BY <1>1, Fields DEF Test!ENC_MSETMTYPEI

LEMMA MemoryWord ==
  ASSUME NEW e \in 0 .. 3, NEW a \in Regs, NEW b \in Regs
  PROVE  /\ Test!Encode(<< "vtle", e, a, b >>) = << 16 * e + 9, a, b, 7, 0, 7 >>
         /\ Test!Encode(<< "vtse", e, a, b >>) = << 16 * e + 9, a, b, 7, 0, 39 >>
<1>1. a \in 0 .. 31 /\ b \in 0 .. 31
  BY RegsAssumption
<1>2. /\ Test!Encode(<< "vtle", e, a, b >>) = Test!ENC_VTLE(e, a, b)
      /\ Test!Encode(<< "vtse", e, a, b >>) = Test!ENC_VTSE(e, a, b)
  BY DEF Test!Encode, Test!MSett, Test!Mm
<1>3. Test!TILE_MEM_FUNCT7(e) = 16 * e + 9 /\ 16 * e + 9 \in 0 .. 127
  BY Fields DEF Test!TILE_MEM_FUNCT7
<1>. QED  BY <1>1, <1>2, <1>3, Fields DEF Test!ENC_VTLE, Test!ENC_VTSE, Test!ENC_R

LEMMA MoveWord ==
  ASSUME NEW a \in Regs, NEW b \in Regs
  PROVE  /\ Test!Encode(<< "vtmv_v_t", a, b >>) = << 33, 31, b, 6, a, 87 >>
         /\ Test!Encode(<< "vtmv_t_v", a, b >>) = << 47, b, a, 6, 0, 87 >>
<1>1. a \in 0 .. 31 /\ b \in 0 .. 31
  BY RegsAssumption
<1>2. /\ Test!Encode(<< "vtmv_v_t", a, b >>) = Test!ENC_VTMV_V_T(a, b)
      /\ Test!Encode(<< "vtmv_t_v", a, b >>) = Test!ENC_VTMV_T_V(a, b)
  BY DEF Test!Encode, Test!MSett, Test!Mm
<1>. QED  BY <1>1, <1>2, Fields DEF Test!ENC_VTMV_V_T, Test!ENC_VTMV_T_V, Test!ENC_R

LEMMA MultiplyWord ==
  ASSUME NEW op \in Test!Mm, NEW t \in 0 .. 7, NEW a \in Regs, NEW b \in Regs
  PROVE  Test!Encode(<< op, 2 * t, a, b >>) =
           << 121, a, b, IF op \in { "vtfmm", "vtfmm_alt" } THEN 1 ELSE 0,
              4 * t + (IF op \in { "vtfmm_alt", "vtmms" } THEN 1 ELSE 0), 119 >>
<1>1. a \in 0 .. 31 /\ b \in 0 .. 31
  BY RegsAssumption
<1>2. Test!Encode(<< op, 2 * t, a, b >>) = Test!ENC_MM(op, 2 * t, a, b)
  BY DEF Test!Encode, Test!MSett, Test!Mm
<1>3. \A v \in 0 .. 1 : Test!ARITH_RD(2 * t, v) = 4 * t + v /\ 4 * t + v \in 0 .. 31
  <2>1. (2 * t) \div 2 = t
    OBVIOUS
  <2>. QED  BY <2>1, Fields DEF Test!ARITH_RD
<1>4. \A u, v \in 0 .. 1 : Test!ENC_ARITH(u, v, 2 * t, a, b) = << 121, a, b, u, 4 * t + v, 119 >>
  BY <1>1, <1>3, Fields DEF Test!ENC_ARITH, Test!ENC_R
<1>. QED  BY <1>2, <1>4 DEF Test!ENC_MM

LEMMA ZeroWord ==
  /\ \A t \in Test!Tiles : Test!Encode(<< "vtzero", t >>) = << 33, 30, 0, 6, 2 * t, 87 >>
  /\ Test!Encode(<< "vtdiscard" >>) = << 33, 28, 0, 6, 0, 87 >>
<1>1. \A t : Test!Encode(<< "vtzero", t >>) = Test!ENC_VTZERO(t)
  BY DEF Test!Encode, Test!MSett, Test!Mm
<1>2. Test!Encode(<< "vtdiscard" >>) = Test!ENC_VTDISCARD
  BY DEF Test!Encode, Test!MSett, Test!Mm
<1>3. \A t \in Test!Tiles : Test!Field(t, 4) = t /\ 2 * t \in 0 .. 31
  BY Fields DEF Test!Tiles
<1>. QED  BY <1>1, <1>2, <1>3, Fields DEF Test!ENC_VTZERO, Test!ENC_VTDISCARD, Test!ENC_R

\* a word tells its instruction
LEMMA OneInstruction == \A w : \A x, y : Means(w, x) /\ Means(w, y) => x = y
BY DEF Means

LEMMA WordMeans ==
  \A x \in Test!Instructions : Means(Test!Encode(x), x) /\ InFields(Test!Encode(x))
<1>. SUFFICES ASSUME NEW x \in Test!Instructions, NEW w, w = Test!Encode(x)
              PROVE  Means(w, x) /\ InFields(w)
  OBVIOUS
<1>0. \A r \in Regs : r \in 0 .. 31
  BY RegsAssumption
<1>1. CASE x \in { "msetmtype" } \X Regs \X Regs
  <2>1. PICK a \in Regs, b \in Regs : x = << "msetmtype", a, b >>
    BY <1>1
  <2>2. w = << 66, b, a, 7, 0, 87 >>
    BY <2>1, TypeWord
  <2>. QED  BY <1>0, <2>1, <2>2 DEF Means, InFields
<1>2. CASE x \in Test!MSett \X Regs \X Regs
  <2>1. PICK op \in Test!MSett, a \in Regs, b \in Regs : x = << op, a, b >>
    BY <1>2
  <2>2. w = << 68, Test!SubOp(op), b, 7, a, 87 >>
        /\ Test!SubOp(op) = IF op = "msettn" THEN 0 ELSE IF op = "msettm" THEN 1 ELSE 2
    BY <2>1, SizeWord
  <2>3. CASE op = "msettn"
    BY <1>0, <2>1, <2>2, <2>3 DEF Means, InFields
  <2>4. CASE op = "msettm"
    BY <1>0, <2>1, <2>2, <2>4 DEF Means, InFields
  <2>5. CASE op = "msettk"
    BY <1>0, <2>1, <2>2, <2>5 DEF Means, InFields
  <2>. QED  BY <2>3, <2>4, <2>5 DEF Test!MSett
<1>3. CASE x \in { "msetmtypei" } \X (0 .. 3) \X (0 .. 1) \X (0 .. 3)
  <2>1. PICK s \in 0 .. 3, a \in 0 .. 1, v \in 0 .. 3 : x = << "msetmtypei", s, a, v >>
    BY <1>3
  <2>2. w = << 68 + 8 * a, 8 * s + 4, v, 7, 0, 87 >>
    BY <2>1, TypeiWord
  <2>3. (8 * s + 4 - 4) \div 8 = s /\ (68 + 8 * a - 68) \div 8 = a
        /\ 68 + 8 * a # 66 /\ 8 * s + 4 \notin 0 .. 2
    OBVIOUS
  <2>. QED  BY <1>0, <2>1, <2>2, <2>3 DEF Means, InFields
<1>4. CASE x \in { "vtle", "vtse" } \X (0 .. 3) \X Regs \X Regs
  <2>1. PICK op \in { "vtle", "vtse" }, e \in 0 .. 3, a \in Regs, b \in Regs : x = << op, e, a, b >>
    BY <1>4
  <2>2. (16 * e + 9 - 9) \div 16 = e
    OBVIOUS
  <2>3. CASE op = "vtle"
    <3>1. w = << 16 * e + 9, a, b, 7, 0, 7 >>
      BY <2>1, <2>3, MemoryWord
    <3>. QED  BY <1>0, <2>1, <2>2, <2>3, <3>1 DEF Means, InFields
  <2>4. CASE op = "vtse"
    <3>1. w = << 16 * e + 9, a, b, 7, 0, 39 >>
      BY <2>1, <2>4, MemoryWord
    <3>. QED  BY <1>0, <2>1, <2>2, <2>4, <3>1 DEF Means, InFields
  <2>. QED  BY <2>3, <2>4
<1>5. CASE x \in { "vtmv_v_t", "vtmv_t_v" } \X Regs \X Regs
  <2>1. PICK op \in { "vtmv_v_t", "vtmv_t_v" }, a \in Regs, b \in Regs : x = << op, a, b >>
    BY <1>5
  <2>2. CASE op = "vtmv_v_t"
    <3>1. w = << 33, 31, b, 6, a, 87 >>
      BY <2>1, <2>2, MoveWord
    <3>. QED  BY <1>0, <2>1, <2>2, <3>1 DEF Means, InFields
  <2>3. CASE op = "vtmv_t_v"
    <3>1. w = << 47, b, a, 6, 0, 87 >>
      BY <2>1, <2>3, MoveWord
    <3>. QED  BY <1>0, <2>1, <2>3, <3>1 DEF Means, InFields
  <2>. QED  BY <2>2, <2>3
<1>6. CASE x \in Test!Mm \X { t \in Test!Tiles : t % 2 = 0 } \X Regs \X Regs
  <2>1. PICK op \in Test!Mm, u \in { t \in Test!Tiles : t % 2 = 0 }, a \in Regs, b \in Regs :
          x = << op, u, a, b >>
    BY <1>6
  <2>2. PICK t \in 0 .. 7 : u = 2 * t
    <3>1. u \in 0 .. 15 /\ u % 2 = 0
      BY DEF Test!Tiles
    <3>2. u \div 2 \in 0 .. 7 /\ u = 2 * (u \div 2)
      BY <3>1
    <3>. QED  BY <3>2
  <2>3. PICK v \in 0 .. 31 : v = 4 * t + (IF op \in { "vtfmm_alt", "vtmms" } THEN 1 ELSE 0)
    OBVIOUS
  <2>4. v \div 4 = t /\ v % 4 = IF op \in { "vtfmm_alt", "vtmms" } THEN 1 ELSE 0
    BY <2>3
  <2>5. w = << 121, a, b, IF op \in { "vtfmm", "vtfmm_alt" } THEN 1 ELSE 0, v, 119 >>
    BY <2>1, <2>2, <2>3, MultiplyWord
  <2>6. CASE op = "vtfmm"
    BY <1>0, <2>1, <2>2, <2>4, <2>5, <2>6 DEF Means, InFields
  <2>7. CASE op = "vtfmm_alt"
    BY <1>0, <2>1, <2>2, <2>4, <2>5, <2>7 DEF Means, InFields
  <2>8. CASE op = "vtmmu"
    BY <1>0, <2>1, <2>2, <2>4, <2>5, <2>8 DEF Means, InFields
  <2>9. CASE op = "vtmms"
    BY <1>0, <2>1, <2>2, <2>4, <2>5, <2>9 DEF Means, InFields
  <2>. QED  BY <2>6, <2>7, <2>8, <2>9 DEF Test!Mm
<1>7. CASE x \in { "vtzero" } \X Test!Tiles
  <2>1. PICK t \in Test!Tiles : x = << "vtzero", t >>
    BY <1>7
  <2>2. (2 * t) \div 2 = t
    BY DEF Test!Tiles
  <2>3. w = << 33, 30, 0, 6, 2 * t, 87 >>
    BY <2>1, ZeroWord
  <2>4. 2 * t \in 0 .. 31
    BY DEF Test!Tiles
  <2>5. InFields(w)
    BY <2>3, <2>4 DEF InFields
  <2>. QED  BY <2>1, <2>2, <2>3, <2>5 DEF Means
<1>8. CASE x = << "vtdiscard" >>
  <2>1. w = << 33, 28, 0, 6, 0, 87 >>
    BY <1>8, ZeroWord
  <2>. QED  BY <1>0, <1>8, <2>1 DEF Means, InFields
<1>. QED  BY <1>1, <1>2, <1>3, <1>4, <1>5, <1>6, <1>7, <1>8 DEF Test!Instructions

\* the fields of a word, in pairs
Nested(w) == << << << << << w[1], w[2] >>, w[3] >>, w[4] >>, w[5] >>, w[6] >>
AllNested == ((((0 .. 127) \X (0 .. 31)) \X (0 .. 31)) \X (0 .. 7)) \X (0 .. 31)

LEMMA NestedFinite == IsFiniteSet(AllNested \X (0 .. 127))
<1>1. IsFiniteSet(0 .. 7) /\ IsFiniteSet(0 .. 31) /\ IsFiniteSet(0 .. 127)
  <2>1. PICK a \in Int, b \in Int, c \in Int : a = 7 /\ b = 31 /\ c = 127
    OBVIOUS
  <2>2. IsFiniteSet(0 .. a) /\ IsFiniteSet(0 .. b) /\ IsFiniteSet(0 .. c)
    BY FS_Interval
  <2>. QED  BY <2>1, <2>2
<1>2. IsFiniteSet((0 .. 127) \X (0 .. 31))
  BY <1>1, FS_Product
<1>3. IsFiniteSet(((0 .. 127) \X (0 .. 31)) \X (0 .. 31))
  BY <1>1, <1>2, FS_Product
<1>4. IsFiniteSet((((0 .. 127) \X (0 .. 31)) \X (0 .. 31)) \X (0 .. 7))
  BY <1>1, <1>3, FS_Product
<1>5. IsFiniteSet(AllNested)
  BY <1>1, <1>4, FS_Product DEF AllNested
<1>. QED  BY <1>1, <1>5, FS_Product

\* the instructions are finitely many, and no two have the same word
LEMMA ManyWords ==
  /\ \A x, y \in Test!Instructions : Test!Encode(x) = Test!Encode(y) => x = y
  /\ Cardinality({ Test!Encode(x) : x \in Test!Instructions }) = Cardinality(Test!Instructions)
<1>. DEFINE I == Test!Instructions
            N == AllNested \X (0 .. 127)
            W == { Test!Encode(x) : x \in I }
            f == [x \in I |-> Nested(Test!Encode(x))]
            g == [x \in I |-> Test!Encode(x)]
<1>1. \A x, y \in I : Test!Encode(x) = Test!Encode(y) => x = y
  BY WordMeans, OneInstruction
<1>2. f \in Injection(I, N)
  <2>1. ASSUME NEW x \in I PROVE f[x] \in N
    <3>1. PICK w : w = Test!Encode(x) /\ InFields(w)
      BY WordMeans
    <3>. QED  BY <3>1 DEF InFields, Nested, AllNested
  <2>2. ASSUME NEW x \in I, NEW y \in I, f[x] = f[y] PROVE x = y
    <3>1. PICK v : v = Test!Encode(x)
      OBVIOUS
    <3>2. PICK w : w = Test!Encode(y)
      OBVIOUS
    <3>3. Means(v, x) /\ Means(w, y) /\ Nested(v) = Nested(w)
      BY <2>2, <3>1, <3>2, WordMeans
    <3>4. v[1] = w[1] /\ v[2] = w[2] /\ v[3] = w[3] /\ v[4] = w[4] /\ v[5] = w[5] /\ v[6] = w[6]
      BY <3>3 DEF Nested
    <3>5. Means(w, x)
      BY <3>3, <3>4 DEF Means
    <3>. QED  BY <3>3, <3>5, OneInstruction
  <2>3. f \in [I -> N]
    BY <2>1
  <2>. QED  BY <2>2, <2>3 DEF Injection, IsInjective
<1>3. IsFiniteSet(I)
  <2>1. IsFiniteSet(N)
    BY NestedFinite
  <2>. HIDE DEF I, N, f
  <2>. QED  BY <1>2, <2>1, FS_Injection
<1>4. g \in Surjection(I, W) /\ g \in Injection(I, W)
  <2>1. g \in [I -> W] /\ \A t \in W : \E s \in I : g[s] = t
    OBVIOUS
  <2>2. \A x, y \in I : g[x] = g[y] => x = y
    BY <1>1
  <2>. QED  BY <2>1, <2>2 DEF Surjection, Injection, IsInjective
<1>5. Cardinality(W) = Cardinality(I)
  <2>. HIDE DEF I, W, g
  <2>. QED  BY <1>3, <1>4, FS_Surjection
<1>. QED  BY <1>1, <1>5

-----------------------------------------------------------------------------
(* The test.                                                               *)

\* the functions zvt_* and the macros spell the words of the instructions
Named == asked # << >> => asked \in Test!Instructions /\ word = Test!Encode(asked)

LEMMA FunctionWords ==
  ASSUME NEW a \in Regs, NEW b \in Regs
  PROVE  /\ << "msetmtype", a, b >> \in Test!Instructions
         /\ Test!zvt_msetmtype(a, b) = Test!Encode(<< "msetmtype", a, b >>)
         /\ \A op \in Test!MSett :
              /\ << op, a, b >> \in Test!Instructions
              /\ Test!zvt_msett(op, a, b) = Test!Encode(<< op, a, b >>)
         /\ << "vtle", 2, a, b >> \in Test!Instructions
         /\ Test!zvt_vtle(2, a, b) = Test!Encode(<< "vtle", 2, a, b >>)
         /\ << "vtse", 2, a, b >> \in Test!Instructions
         /\ Test!zvt_vtse(2, a, b) = Test!Encode(<< "vtse", 2, a, b >>)
<1>1. Test!zvt_msetmtype(a, b) = Test!Encode(<< "msetmtype", a, b >>)
  BY TypeWord DEF Test!zvt_msetmtype, Test!Insn
<1>2. ASSUME NEW op \in Test!MSett
      PROVE  Test!zvt_msett(op, a, b) = Test!Encode(<< op, a, b >>)
  <2>1. Test!Encode(<< op, a, b >>) = << 68, Test!SubOp(op), b, 7, a, 87 >>
    BY SizeWord
  <2>. QED  BY <2>1 DEF Test!zvt_msett, Test!Insn, Test!SubOp
<1>3. /\ Test!zvt_vtle(2, a, b) = << 41, a, b, 7, 0, 7 >>
      /\ Test!zvt_vtse(2, a, b) = << 41, a, b, 7, 0, 39 >>
  BY DEF Test!zvt_vtle, Test!zvt_vtse, Test!Insn, Test!FunctionFunct7
<1>4. /\ Test!Encode(<< "vtle", 2, a, b >>) = << 16 * 2 + 9, a, b, 7, 0, 7 >>
      /\ Test!Encode(<< "vtse", 2, a, b >>) = << 16 * 2 + 9, a, b, 7, 0, 39 >>
  BY MemoryWord
<1>5. /\ << "msetmtype", a, b >> \in Test!Instructions
      /\ \A op \in Test!MSett : << op, a, b >> \in Test!Instructions
      /\ << "vtle", 2, a, b >> \in Test!Instructions
      /\ << "vtse", 2, a, b >> \in Test!Instructions
  BY DEF Test!Instructions
<1>. QED  BY <1>1, <1>2, <1>3, <1>4, <1>5

LEMMA TestNamed == IsTest /\ Named /\ [Test!TestNext]_(Test!tvars) => Named'
<1>. SUFFICES ASSUME IsTest, Named, [Test!TestNext]_(Test!tvars) PROVE Named'
  OBVIOUS
<1>0. UNCHANGED << word, asked >> => Named'
  BY DEF Named
<1>1. \A w, x : Test!Emit(w, x) /\ x \in Test!Instructions /\ w = Test!Encode(x) => Named'
  BY DEF Named, Test!Emit
<1>2. CASE Test!SetType
  BY <1>1, <1>2, FunctionWords DEF Test!SetType
<1>3. CASE Test!SetSize
  <2>1. PICK rd \in Regs, rs1 \in Regs : Test!Emit(Test!zvt_msett(pc, rd, rs1), << pc, rd, rs1 >>)
    BY <1>3 DEF Test!SetSize
  <2>2. pc \in Test!MSett
    BY <1>3 DEF Test!SetSize
  <2>. QED  BY <1>1, <2>1, <2>2, FunctionWords
<1>4. ASSUME NEW from, NEW tss, Test!Load(from, tss) PROVE Named'
  <2>1. PICK addr \in Regs, t \in Regs : Test!Emit(Test!zvt_vtle(2, t, addr), << "vtle", 2, t, addr >>)
    BY <1>4 DEF Test!Load
  <2>. QED  BY <1>1, <2>1, FunctionWords
<1>5. ASSUME NEW tss, Test!Store(tss) PROVE Named'
  <2>1. PICK addr \in Regs, t \in Regs : Test!Emit(Test!zvt_vtse(2, t, addr), << "vtse", 2, t, addr >>)
    BY <1>5 DEF Test!Store
  <2>. QED  BY <1>1, <2>1, FunctionWords
<1>6. CASE Test!LoadZero
  BY <1>4, <1>6 DEF Test!LoadZero
<1>7. CASE Test!Multiply
  <2>1. << "vtfmm", 0, 8, 16 >> \in Test!Instructions
    BY RegsAssumption DEF Test!Instructions, Test!Mm, Test!Tiles
  <2>2. Test!ENC_MM("vtfmm", 0, 8, 16) = Test!Encode(<< "vtfmm", 0, 8, 16 >>)
    BY DEF Test!Encode, Test!Mm, Test!MSett
  <2>. QED  BY <1>1, <1>7, <2>1, <2>2 DEF Test!Multiply
<1>8. CASE Test!StoreProduct
  BY <1>5, <1>8 DEF Test!StoreProduct
<1>9. CASE Test!LoadInput
  BY <1>4, <1>9 DEF Test!LoadInput
<1>10. CASE Test!StoreColumns
  BY <1>5, <1>10 DEF Test!StoreColumns
<1>11. CASE Test!CheckProduct
  BY <1>0, <1>11 DEF Test!CheckProduct
<1>12. CASE Test!CheckColumns
  BY <1>0, <1>12 DEF Test!CheckColumns
<1>13. CASE UNCHANGED Test!tvars
  BY <1>0, <1>13 DEF Test!tvars
<1>. QED
  BY <1>2, <1>3, <1>6, <1>7, <1>8, <1>9, <1>10, <1>11, <1>12, <1>13 DEF Test!TestNext

LEMMA StepOfTest == IsTest /\ [Next]_vars => [Test!TestNext]_(Test!tvars) /\ IsTest'
  BY DEF Next, IsTrans, IsVme, IsRvv, IsTest, vars, vmeVars, rvvVars, testVars, Test!tvars

LEMMA InitOfTest == Init /\ IsTest => Test!TestInit
  BY DEF Init, IsTest, Rvv!Init, Rvv!RvvKernels, Rvv!ScalarKernels

NamedInv == IsTest => Named

LEMMA NamedInvariant == Spec => []NamedInv
<1>1. Init => NamedInv
  <2>1. Init /\ IsTest => asked = << >>
    BY InitOfTest DEF Test!TestInit
  <2>. QED  BY <2>1 DEF NamedInv, Named
<1>2. NamedInv /\ [Next]_vars => NamedInv'
  <2>. SUFFICES ASSUME NamedInv, [Next]_vars, IsTest' PROVE Named'
    BY DEF NamedInv
  <2>1. IsTest
    BY SameKernel DEF IsTest
  <2>. QED  BY <2>1, StepOfTest, TestNamed DEF NamedInv
<1>. QED  BY <1>1, <1>2, PTL DEF Spec

(***************************************************************************)
(* The words of the tile instructions, by the macros and by the functions, *)
(* for all registers: each is that of the instruction it is meant to be    *)
(* and of no other.                                                        *)
(***************************************************************************)
THEOREM WordsHaveOneMeaning == Spec => []OneMeaning
<1>1. NamedInv => OneMeaning
  <2>. SUFFICES ASSUME Named PROVE Test!OneMeaning
    BY DEF NamedInv, OneMeaning
  <2>1. asked # << >> => { x \in Test!Instructions : Test!Encode(x) = word } = { asked }
    BY ManyWords DEF Named
  <2>2. Test!Cardinality({ Test!Encode(x) : x \in Test!Instructions }) = Test!Cardinality(Test!Instructions)
    BY ManyWords DEF Test!Cardinality, Cardinality
  <2>. QED  BY <2>1, <2>2 DEF Test!OneMeaning
<1>. QED  BY <1>1, NamedInvariant, PTL

-----------------------------------------------------------------------------
(* The verdict of the test.                                                *)

LEMMA TestDim == Test!Dim = 0 .. 3 /\ Test!DIM = 4
BY DEF Test!Dim, Test!DIM

\* the places row and column x of the aTile are
LEMMA RowOf ==
  ASSUME NEW x \in Test!Dim
  PROVE  Test!Subset(Test!TSS_ROW_OF(0, x)) = [y \in Test!Dim |-> << x, y >>]
<1>1. Test!Field(x, 24) = x /\ Test!Field(0, 4) = 0 /\ Test!Field(0, 3) = 0
  BY TestDim, SMT DEF Test!Field
<1>. QED  BY <1>1 DEF Test!Subset, Test!TSS_ROW_OF, Test!TSS

LEMMA ColumnOf ==
  ASSUME NEW x \in Test!Dim
  PROVE  Test!Subset(Test!TSS_COL_OF(0, x)) = [y \in Test!Dim |-> << y, x >>]
<1>1. Test!Field(x, 24) = x /\ Test!Field(0, 4) = 0 /\ Test!Field(1, 3) = 1
  BY TestDim, SMT DEF Test!Field
<1>. QED  BY <1>1 DEF Test!Subset, Test!TSS_COL_OF, Test!TSS

Table == [Test!Dim -> [Test!Dim -> Int]]

\* row k of a table has been loaded into row k of the tile
LEMMA RowLoaded ==
  ASSUME NEW from, k \in Test!Dim, Test!Load(from, Test!TSS_ROW_OF(0, k)),
         NEW r \in Test!Dim, NEW c \in Test!Dim
  PROVE  aTile'[r][c] = IF r = k THEN from[k][c] ELSE aTile[r][c]
<1>1. DEFINE At(x) == << k, x >> = << r, c >>
<1>2. aTile'[r][c] = IF \E x \in Test!Dim : At(x)
                      THEN from[k][CHOOSE x \in Test!Dim : At(x)] ELSE aTile[r][c]
  <2>1. aTile' = [u \in Test!Dim |-> [v \in Test!Dim |->
                   IF \E x \in Test!Dim : Test!Subset(Test!TSS_ROW_OF(0, k))[x] = << u, v >>
                     THEN from[k][CHOOSE x \in Test!Dim :
                                    Test!Subset(Test!TSS_ROW_OF(0, k))[x] = << u, v >>]
                     ELSE aTile[u][v]]]
    BY DEF Test!Load
  <2>2. \A x \in Test!Dim : Test!Subset(Test!TSS_ROW_OF(0, k))[x] = << k, x >>
    BY RowOf
  <2>3. \A x \in Test!Dim : (Test!Subset(Test!TSS_ROW_OF(0, k))[x] = << r, c >>) <=> At(x)
    BY <2>2
  <2>4. (CHOOSE x \in Test!Dim : Test!Subset(Test!TSS_ROW_OF(0, k))[x] = << r, c >>)
          = (CHOOSE x \in Test!Dim : At(x))
    BY <2>3
  <2>. QED  BY <2>1, <2>3, <2>4
<1>3. r = k => (CHOOSE x \in Test!Dim : At(x)) = c /\ At(c)
  OBVIOUS
<1>4. r # k => ~ \E x \in Test!Dim : At(x)
  OBVIOUS
<1>. QED  BY <1>2, <1>3, <1>4

LEMMA LoadedTable ==
  ASSUME NEW from \in Table, aTile \in Table, k \in Test!Dim, Test!Load(from, Test!TSS_ROW_OF(0, k))
  PROVE  aTile' \in Table
<1>1. aTile' = [u \in Test!Dim |-> [v \in Test!Dim |-> aTile'[u][v]]]
  BY DEF Test!Load
<1>2. \A u, v \in Test!Dim : aTile'[u][v] \in Int
  BY RowLoaded DEF Table
<1>. QED  BY <1>1, <1>2 DEF Table

\* row or column k of the tile has been stored as row k of the result
LEMMA RowStored ==
  ASSUME k \in Test!Dim, C \in Table, Test!Store(Test!TSS_ROW_OF(0, k))
  PROVE  /\ \A r, c \in Test!Dim : C'[r][c] = IF r = k THEN aTile[k][c] ELSE C[r][c]
         /\ aTile \in Table => C' \in Table
<1>1. C' = [C EXCEPT ![k] = [x \in Test!Dim |-> aTile[k][x]]]
  <2>1. \A x \in Test!Dim : Test!Subset(Test!TSS_ROW_OF(0, k))[x] = << k, x >>
    BY RowOf
  <2>2. C' = [C EXCEPT ![k] =
                [x \in Test!Dim |-> aTile[Test!Subset(Test!TSS_ROW_OF(0, k))[x][1]]
                                         [Test!Subset(Test!TSS_ROW_OF(0, k))[x][2]]]]
    BY DEF Test!Store
  <2>3. \A x \in Test!Dim : aTile[Test!Subset(Test!TSS_ROW_OF(0, k))[x][1]]
                                 [Test!Subset(Test!TSS_ROW_OF(0, k))[x][2]] = aTile[k][x]
    BY <2>1
  <2>4. [x \in Test!Dim |-> aTile[Test!Subset(Test!TSS_ROW_OF(0, k))[x][1]]
                                 [Test!Subset(Test!TSS_ROW_OF(0, k))[x][2]]]
          = [x \in Test!Dim |-> aTile[k][x]]
    BY <2>3
  <2>. QED  BY <2>2, <2>4
<1>. QED  BY <1>1 DEF Table

LEMMA ColumnStored ==
  ASSUME k \in Test!Dim, C \in Table, Test!Store(Test!TSS_COL_OF(0, k))
  PROVE  /\ \A r, c \in Test!Dim : C'[r][c] = IF r = k THEN aTile[c][k] ELSE C[r][c]
         /\ aTile \in Table => C' \in Table
<1>1. C' = [C EXCEPT ![k] = [x \in Test!Dim |-> aTile[x][k]]]
  <2>1. \A x \in Test!Dim : Test!Subset(Test!TSS_COL_OF(0, k))[x] = << x, k >>
    BY ColumnOf
  <2>2. C' = [C EXCEPT ![k] =
                [x \in Test!Dim |-> aTile[Test!Subset(Test!TSS_COL_OF(0, k))[x][1]]
                                         [Test!Subset(Test!TSS_COL_OF(0, k))[x][2]]]]
    BY DEF Test!Store
  <2>3. \A x \in Test!Dim : aTile[Test!Subset(Test!TSS_COL_OF(0, k))[x][1]]
                                 [Test!Subset(Test!TSS_COL_OF(0, k))[x][2]] = aTile[x][k]
    BY <2>1
  <2>4. [x \in Test!Dim |-> aTile[Test!Subset(Test!TSS_COL_OF(0, k))[x][1]]
                                 [Test!Subset(Test!TSS_COL_OF(0, k))[x][2]]]
          = [x \in Test!Dim |-> aTile[x][k]]
    BY <2>3
  <2>. QED  BY <2>2, <2>4
<1>. QED  BY <1>1 DEF Table

\* what row k of the first and of the second matrix add to a place
Outer(i, r, c) == Test!Rows(Test!matmul_a)[i][r] * Test!Rows(Test!matmul_b)[i][c]

Outers(n, r, c) ==
  (IF n > 0 THEN Outer(0, r, c) ELSE 0) + (IF n > 1 THEN Outer(1, r, c) ELSE 0)
    + (IF n > 2 THEN Outer(2, r, c) ELSE 0) + (IF n > 3 THEN Outer(3, r, c) ELSE 0)

\* the tables
LEMMA TestTables ==
  /\ \A r, c \in Test!Dim : Outers(4, r, c) = Test!Rows(Test!matmul_expected)[r][c]
  /\ \A r, c \in Test!Dim : Test!Rows(Test!transpose_expected)[r][c]
                               = Test!Rows(Test!transpose_input)[c][r]
  /\ \A r, c \in Test!Dim : Test!Rows(Test!tile_zero)[r][c] = 0
  /\ \A i, r, c \in Test!Dim : Outer(i, r, c) \in Int
  /\ Test!Rows(Test!transpose_input) \in Table /\ Test!Rows(Test!tile_zero) \in Table
  /\ Test!Rows(Test!matmul_expected) \in Table /\ Test!Rows(Test!transpose_expected) \in Table
<1>1. Test!Dim = 0 .. 3 /\ Test!DIM = 4
  BY TestDim
<1>2. ASSUME NEW r \in Test!Dim, NEW c \in Test!Dim, NEW t
      PROVE  Test!Rows(t)[r][c] = t[4 * r + c + 1]
  BY <1>1 DEF Test!Rows
<1>3. \A r \in Test!Dim : \A c \in Test!Dim :
        /\ (r = 0 \/ r = 1 \/ r = 2 \/ r = 3) /\ (c = 0 \/ c = 1 \/ c = 2 \/ c = 3)
        /\ 4 * r + c + 1 \in 1 .. 16
  BY <1>1
<1>4. \A x \in 1 .. 16 : Test!tile_zero[x] = 0 /\ Test!transpose_input[x] = x
  BY <1>1 DEF Test!tile_zero, Test!transpose_input
<1>5. ASSUME NEW r \in Test!Dim, NEW c \in Test!Dim
      PROVE  /\ Test!Rows(Test!tile_zero)[r][c] = 0
             /\ Test!Rows(Test!transpose_input)[r][c] = 4 * r + c + 1
  BY <1>2, <1>3, <1>4
<1>6. \A r, c \in Test!Dim : Test!Rows(Test!transpose_expected)[r][c] = r + 4 * c + 1
  <2>1. \A r, c \in Test!Dim : Test!transpose_expected[4 * r + c + 1] = r + 4 * c + 1
    BY <1>3 DEF Test!transpose_expected
  <2>. QED  BY <1>2, <2>1
<1>7. \A r, c \in Test!Dim : Test!Rows(Test!transpose_expected)[r][c]
                               = Test!Rows(Test!transpose_input)[c][r]
  BY <1>1, <1>5, <1>6
<1>8. \A x \in 1 .. 16 : Test!matmul_a[x] \in Int /\ Test!matmul_b[x] \in Int
                          /\ Test!matmul_expected[x] \in Int
  BY DEF Test!matmul_a, Test!matmul_b, Test!matmul_expected
<1>9. \A i, r, c \in Test!Dim : Outer(i, r, c) \in Int
  <2>. SUFFICES ASSUME NEW i \in Test!Dim, NEW r \in Test!Dim, NEW c \in Test!Dim
                PROVE  Outer(i, r, c) \in Int
    OBVIOUS
  <2>1. Test!Rows(Test!matmul_a)[i][r] \in Int /\ Test!Rows(Test!matmul_b)[i][c] \in Int
    BY <1>2, <1>3, <1>8
  <2>. QED  BY <2>1 DEF Outer
<1>10. \A t : Test!Rows(t) = [r \in Test!Dim |-> [c \in Test!Dim |-> Test!Rows(t)[r][c]]]
  BY DEF Test!Rows
<1>11. ASSUME NEW r \in Test!Dim, NEW c \in Test!Dim
       PROVE  /\ Test!Rows(Test!tile_zero)[r][c] \in Int
              /\ Test!Rows(Test!transpose_input)[r][c] \in Int
              /\ Test!Rows(Test!transpose_expected)[r][c] \in Int
              /\ Test!Rows(Test!matmul_expected)[r][c] \in Int
  <2>1. r \in Int /\ c \in Int
    BY <1>1
  <2>2. Test!Rows(Test!matmul_expected)[r][c] \in Int
    BY <1>2, <1>3, <1>8
  <2>. QED  BY <1>5, <1>6, <2>1, <2>2
<1>12. ASSUME NEW t, \A r, c \in Test!Dim : Test!Rows(t)[r][c] \in Int
       PROVE  Test!Rows(t) \in Table
  BY <1>10, <1>12 DEF Table
<1>13. ASSUME NEW r \in Test!Dim, NEW c \in Test!Dim
       PROVE  Outers(4, r, c) = Test!Rows(Test!matmul_expected)[r][c]
  <2>1. \A i \in Test!Dim :
          Outer(i, r, c) = Test!matmul_a[4 * i + r + 1] * Test!matmul_b[4 * i + c + 1]
    BY <1>2 DEF Outer
  <2>2. Outers(4, r, c) = Test!matmul_a[r + 1] * Test!matmul_b[c + 1]
                            + Test!matmul_a[r + 5] * Test!matmul_b[c + 5]
                            + Test!matmul_a[r + 9] * Test!matmul_b[c + 9]
                            + Test!matmul_a[r + 13] * Test!matmul_b[c + 13]
    <3>1. /\ Outer(0, r, c) = Test!matmul_a[r + 1] * Test!matmul_b[c + 1]
          /\ Outer(1, r, c) = Test!matmul_a[r + 5] * Test!matmul_b[c + 5]
          /\ Outer(2, r, c) = Test!matmul_a[r + 9] * Test!matmul_b[c + 9]
          /\ Outer(3, r, c) = Test!matmul_a[r + 13] * Test!matmul_b[c + 13]
      <4>1. /\ 4 * 0 + r + 1 = r + 1 /\ 4 * 1 + r + 1 = r + 5
            /\ 4 * 2 + r + 1 = r + 9 /\ 4 * 3 + r + 1 = r + 13
            /\ 4 * 0 + c + 1 = c + 1 /\ 4 * 1 + c + 1 = c + 5
            /\ 4 * 2 + c + 1 = c + 9 /\ 4 * 3 + c + 1 = c + 13
            /\ 0 \in Test!Dim /\ 1 \in Test!Dim /\ 2 \in Test!Dim /\ 3 \in Test!Dim
        BY <1>1
      <4>. QED  BY <2>1, <4>1
    <3>2. Outers(4, r, c) = Outer(0, r, c) + Outer(1, r, c) + Outer(2, r, c) + Outer(3, r, c)
      BY DEF Outers
    <3>. QED  BY <3>1, <3>2
  <2>3. Test!Rows(Test!matmul_expected)[r][c] = Test!matmul_expected[4 * r + c + 1]
    BY <1>2
  <2>4. CASE r = 0
    <3>1. /\ Test!matmul_a[r + 1] = 1 /\ Test!matmul_a[r + 5] = -1
          /\ Test!matmul_a[r + 9] = 2 /\ Test!matmul_a[r + 13] = 3
      BY <2>4 DEF Test!matmul_a
    <3>2. CASE c = 0
      <4>1. /\ Test!matmul_b[c + 1] = 1 /\ Test!matmul_b[c + 5] = 2
            /\ Test!matmul_b[c + 9] = 1 /\ Test!matmul_b[c + 13] = 0
            /\ Test!matmul_expected[4 * r + c + 1] = 1
        BY <2>4, <3>2 DEF Test!matmul_b, Test!matmul_expected
      <4>. QED  BY <2>2, <2>3, <3>1, <4>1
    <3>3. CASE c = 1
      <4>1. /\ Test!matmul_b[c + 1] = 2 /\ Test!matmul_b[c + 5] = -1
            /\ Test!matmul_b[c + 9] = 0 /\ Test!matmul_b[c + 13] = 1
            /\ Test!matmul_expected[4 * r + c + 1] = 6
        BY <2>4, <3>3 DEF Test!matmul_b, Test!matmul_expected
      <4>. QED  BY <2>2, <2>3, <3>1, <4>1
    <3>4. CASE c = 2
      <4>1. /\ Test!matmul_b[c + 1] = 3 /\ Test!matmul_b[c + 5] = 0
            /\ Test!matmul_b[c + 9] = 2 /\ Test!matmul_b[c + 13] = -1
            /\ Test!matmul_expected[4 * r + c + 1] = 4
        BY <2>4, <3>4 DEF Test!matmul_b, Test!matmul_expected
      <4>. QED  BY <2>2, <2>3, <3>1, <4>1
    <3>5. CASE c = 3
      <4>1. /\ Test!matmul_b[c + 1] = 4 /\ Test!matmul_b[c + 5] = 1
            /\ Test!matmul_b[c + 9] = -2 /\ Test!matmul_b[c + 13] = 3
            /\ Test!matmul_expected[4 * r + c + 1] = 8
        BY <2>4, <3>5 DEF Test!matmul_b, Test!matmul_expected
      <4>. QED  BY <2>2, <2>3, <3>1, <4>1
    <3>. QED  BY <1>3, <3>2, <3>3, <3>4, <3>5
  <2>5. CASE r = 1
    <3>1. /\ Test!matmul_a[r + 1] = 2 /\ Test!matmul_a[r + 5] = 0
          /\ Test!matmul_a[r + 9] = -2 /\ Test!matmul_a[r + 13] = 1
      BY <2>5 DEF Test!matmul_a
    <3>2. CASE c = 0
      <4>1. /\ Test!matmul_b[c + 1] = 1 /\ Test!matmul_b[c + 5] = 2
            /\ Test!matmul_b[c + 9] = 1 /\ Test!matmul_b[c + 13] = 0
            /\ Test!matmul_expected[4 * r + c + 1] = 0
        BY <2>5, <3>2 DEF Test!matmul_b, Test!matmul_expected
      <4>. QED  BY <2>2, <2>3, <3>1, <4>1
    <3>3. CASE c = 1
      <4>1. /\ Test!matmul_b[c + 1] = 2 /\ Test!matmul_b[c + 5] = -1
            /\ Test!matmul_b[c + 9] = 0 /\ Test!matmul_b[c + 13] = 1
            /\ Test!matmul_expected[4 * r + c + 1] = 5
        BY <2>5, <3>3 DEF Test!matmul_b, Test!matmul_expected
      <4>. QED  BY <2>2, <2>3, <3>1, <4>1
    <3>4. CASE c = 2
      <4>1. /\ Test!matmul_b[c + 1] = 3 /\ Test!matmul_b[c + 5] = 0
            /\ Test!matmul_b[c + 9] = 2 /\ Test!matmul_b[c + 13] = -1
            /\ Test!matmul_expected[4 * r + c + 1] = 1
        BY <2>5, <3>4 DEF Test!matmul_b, Test!matmul_expected
      <4>. QED  BY <2>2, <2>3, <3>1, <4>1
    <3>5. CASE c = 3
      <4>1. /\ Test!matmul_b[c + 1] = 4 /\ Test!matmul_b[c + 5] = 1
            /\ Test!matmul_b[c + 9] = -2 /\ Test!matmul_b[c + 13] = 3
            /\ Test!matmul_expected[4 * r + c + 1] = 15
        BY <2>5, <3>5 DEF Test!matmul_b, Test!matmul_expected
      <4>. QED  BY <2>2, <2>3, <3>1, <4>1
    <3>. QED  BY <1>3, <3>2, <3>3, <3>4, <3>5
  <2>6. CASE r = 2
    <3>1. /\ Test!matmul_a[r + 1] = 3 /\ Test!matmul_a[r + 5] = 1
          /\ Test!matmul_a[r + 9] = 1 /\ Test!matmul_a[r + 13] = -1
      BY <2>6 DEF Test!matmul_a
    <3>2. CASE c = 0
      <4>1. /\ Test!matmul_b[c + 1] = 1 /\ Test!matmul_b[c + 5] = 2
            /\ Test!matmul_b[c + 9] = 1 /\ Test!matmul_b[c + 13] = 0
            /\ Test!matmul_expected[4 * r + c + 1] = 6
        BY <2>6, <3>2 DEF Test!matmul_b, Test!matmul_expected
      <4>. QED  BY <2>2, <2>3, <3>1, <4>1
    <3>3. CASE c = 1
      <4>1. /\ Test!matmul_b[c + 1] = 2 /\ Test!matmul_b[c + 5] = -1
            /\ Test!matmul_b[c + 9] = 0 /\ Test!matmul_b[c + 13] = 1
            /\ Test!matmul_expected[4 * r + c + 1] = 4
        BY <2>6, <3>3 DEF Test!matmul_b, Test!matmul_expected
      <4>. QED  BY <2>2, <2>3, <3>1, <4>1
    <3>4. CASE c = 2
      <4>1. /\ Test!matmul_b[c + 1] = 3 /\ Test!matmul_b[c + 5] = 0
            /\ Test!matmul_b[c + 9] = 2 /\ Test!matmul_b[c + 13] = -1
            /\ Test!matmul_expected[4 * r + c + 1] = 12
        BY <2>6, <3>4 DEF Test!matmul_b, Test!matmul_expected
      <4>. QED  BY <2>2, <2>3, <3>1, <4>1
    <3>5. CASE c = 3
      <4>1. /\ Test!matmul_b[c + 1] = 4 /\ Test!matmul_b[c + 5] = 1
            /\ Test!matmul_b[c + 9] = -2 /\ Test!matmul_b[c + 13] = 3
            /\ Test!matmul_expected[4 * r + c + 1] = 8
        BY <2>6, <3>5 DEF Test!matmul_b, Test!matmul_expected
      <4>. QED  BY <2>2, <2>3, <3>1, <4>1
    <3>. QED  BY <1>3, <3>2, <3>3, <3>4, <3>5
  <2>7. CASE r = 3
    <3>1. /\ Test!matmul_a[r + 1] = 4 /\ Test!matmul_a[r + 5] = 2
          /\ Test!matmul_a[r + 9] = 0 /\ Test!matmul_a[r + 13] = 2
      BY <2>7 DEF Test!matmul_a
    <3>2. CASE c = 0
      <4>1. /\ Test!matmul_b[c + 1] = 1 /\ Test!matmul_b[c + 5] = 2
            /\ Test!matmul_b[c + 9] = 1 /\ Test!matmul_b[c + 13] = 0
            /\ Test!matmul_expected[4 * r + c + 1] = 8
        BY <2>7, <3>2 DEF Test!matmul_b, Test!matmul_expected
      <4>. QED  BY <2>2, <2>3, <3>1, <4>1
    <3>3. CASE c = 1
      <4>1. /\ Test!matmul_b[c + 1] = 2 /\ Test!matmul_b[c + 5] = -1
            /\ Test!matmul_b[c + 9] = 0 /\ Test!matmul_b[c + 13] = 1
            /\ Test!matmul_expected[4 * r + c + 1] = 8
        BY <2>7, <3>3 DEF Test!matmul_b, Test!matmul_expected
      <4>. QED  BY <2>2, <2>3, <3>1, <4>1
    <3>4. CASE c = 2
      <4>1. /\ Test!matmul_b[c + 1] = 3 /\ Test!matmul_b[c + 5] = 0
            /\ Test!matmul_b[c + 9] = 2 /\ Test!matmul_b[c + 13] = -1
            /\ Test!matmul_expected[4 * r + c + 1] = 10
        BY <2>7, <3>4 DEF Test!matmul_b, Test!matmul_expected
      <4>. QED  BY <2>2, <2>3, <3>1, <4>1
    <3>5. CASE c = 3
      <4>1. /\ Test!matmul_b[c + 1] = 4 /\ Test!matmul_b[c + 5] = 1
            /\ Test!matmul_b[c + 9] = -2 /\ Test!matmul_b[c + 13] = 3
            /\ Test!matmul_expected[4 * r + c + 1] = 24
        BY <2>7, <3>5 DEF Test!matmul_b, Test!matmul_expected
      <4>. QED  BY <2>2, <2>3, <3>1, <4>1
    <3>. QED  BY <1>3, <3>2, <3>3, <3>4, <3>5
  <2>. QED  BY <1>3, <2>4, <2>5, <2>6, <2>7
<1>. QED  BY <1>5, <1>7, <1>9, <1>11, <1>12, <1>13

\* the first n rows of u are those of table t
RowsOf(u, t, n) == \A r, c \in Test!Dim : r < n => u[r][c] = Test!Rows(t)[r][c]

TestTypes ==
  /\ machine \in { "fits" } \cup Test!MSett /\ k \in Test!Dim /\ failed \in BOOLEAN
  /\ aTile \in Table /\ C \in Table
  /\ pc \in { "msetmtype", "msettm", "msettn", "msettk", "zero", "fmm", "store",
              "check_product", "load", "transpose", "check_columns", "done" }

\* a machine with smaller tiles is found out where the size is set
MachineInv ==
  /\ pc = "msettn" => machine # "msettm"
  /\ pc = "msettk" => machine \notin { "msettm", "msettn" }
  /\ pc \notin { "msetmtype", "msettm", "msettn", "msettk", "done" } => machine = "fits"
  /\ pc # "done" => ~failed
  /\ pc = "done" => (failed <=> machine # "fits")
  /\ pc \in { "msetmtype", "msettm", "msettn", "msettk", "check_product" } => k = 0

\* how far the tile and the result are
TablesInv ==
  /\ pc = "zero" => RowsOf(aTile, Test!tile_zero, k)
  /\ pc = "fmm" => \A r, c \in Test!Dim : aTile[r][c] = Outers(k, r, c)
  /\ pc = "store" => aTile = Test!Rows(Test!matmul_expected)
                     /\ RowsOf(C, Test!matmul_expected, k)
  /\ pc = "check_product" => C = Test!Rows(Test!matmul_expected)
  /\ pc = "load" => RowsOf(aTile, Test!transpose_input, k)
  /\ pc = "transpose" => aTile = Test!Rows(Test!transpose_input)
                         /\ RowsOf(C, Test!transpose_expected, k)
  /\ pc = "check_columns" => C = Test!Rows(Test!transpose_expected)

LEMMA AllRows ==
  ASSUME NEW u \in Table, NEW t, Test!Rows(t) \in Table, RowsOf(u, t, 4)
  PROVE  u = Test!Rows(t)
<1>1. \A r, c \in Test!Dim : u[r][c] = Test!Rows(t)[r][c]
  BY TestDim DEF RowsOf
<1>2. ASSUME NEW r \in Test!Dim PROVE u[r] = Test!Rows(t)[r]
  <2>1. u[r] \in [Test!Dim -> Int] /\ Test!Rows(t)[r] \in [Test!Dim -> Int]
    BY DEF Table
  <2>. QED  BY <1>1, <2>1
<1>. QED  BY <1>2 DEF Table

\* the end of the body of a loop over the tile
LEMMA NextRow ==
  ASSUME NEW after, k \in Test!Dim, Test!NextK(after)
  PROVE  /\ k' \in Test!Dim
         /\ k < 3 => k' = k + 1 /\ pc' = pc
         /\ k >= 3 => k = 3 /\ k' = 0 /\ pc' = after
BY TestDim DEF Test!NextK

LEMMA NoRows == \A u, t : RowsOf(u, t, 0)
BY TestDim DEF RowsOf

LEMMA OneMoreRow ==
  ASSUME NEW u, NEW v, NEW t, k \in Test!Dim, RowsOf(u, t, k),
         \A r, c \in Test!Dim : v[r][c] = IF r = k THEN Test!Rows(t)[r][c] ELSE u[r][c]
  PROVE  RowsOf(v, t, k + 1)
BY TestDim DEF RowsOf

\* a row is loaded
LEMMA LoadStep ==
  ASSUME TestTypes, NEW t, Test!Rows(t) \in Table, RowsOf(aTile, t, k),
         Test!Load(Test!Rows(t), Test!TSS_ROW_OF(0, k)), NEW after, Test!NextK(after)
  PROVE  /\ aTile' \in Table /\ k' \in Test!Dim
         /\ \/ pc' = pc /\ RowsOf(aTile', t, k')
            \/ pc' = after /\ k' = 0 /\ aTile' = Test!Rows(t)
<1>1. aTile \in Table /\ k \in Test!Dim
  BY DEF TestTypes
<1>2. aTile' \in Table
  BY <1>1, LoadedTable
<1>3. \A r, c \in Test!Dim : aTile'[r][c] = IF r = k THEN Test!Rows(t)[r][c] ELSE aTile[r][c]
  BY <1>1, RowLoaded
<1>4. RowsOf(aTile', t, k + 1)
  BY <1>1, <1>3, OneMoreRow
<1>5. CASE k < 3
  BY <1>1, <1>2, <1>4, <1>5, NextRow
<1>6. CASE k >= 3
  BY <1>1, <1>2, <1>4, <1>6, NextRow, AllRows
<1>. QED  BY <1>1, <1>5, <1>6, TestDim

\* a row of the result is stored
LEMMA StoreStep ==
  ASSUME TestTypes, NEW t, Test!Rows(t) \in Table, RowsOf(C, t, k), C' \in Table,
         \A r, c \in Test!Dim : C'[r][c] = IF r = k THEN Test!Rows(t)[r][c] ELSE C[r][c],
         NEW after, Test!NextK(after)
  PROVE  /\ k' \in Test!Dim
         /\ \/ pc' = pc /\ RowsOf(C', t, k')
            \/ pc' = after /\ k' = 0 /\ C' = Test!Rows(t)
<1>1. k \in Test!Dim
  BY DEF TestTypes
<1>2. RowsOf(C', t, k + 1)
  BY <1>1, OneMoreRow
<1>3. CASE k < 3
  BY <1>1, <1>2, <1>3, NextRow
<1>4. CASE k >= 3
  BY <1>1, <1>2, <1>4, NextRow, AllRows
<1>. QED  BY <1>1, <1>3, <1>4, TestDim

\* one more product
LEMMA ProductStep ==
  ASSUME TestTypes, \A r, c \in Test!Dim : aTile[r][c] = Outers(k, r, c), Test!Multiply
  PROVE  /\ aTile' \in Table
         /\ \A r, c \in Test!Dim : aTile'[r][c] = Outers(k + 1, r, c)
<1>1. aTile' = [r \in Test!Dim |-> [c \in Test!Dim |-> aTile[r][c] + Outer(k, r, c)]]
  BY DEF Test!Multiply, Outer
<1>2. k \in Test!Dim /\ aTile \in Table
  BY DEF TestTypes
<1>3. ASSUME NEW r \in Test!Dim, NEW c \in Test!Dim
      PROVE  /\ aTile[r][c] + Outer(k, r, c) \in Int
             /\ Outers(k + 1, r, c) = Outers(k, r, c) + Outer(k, r, c)
  <2>1. Outer(k, r, c) \in Int /\ aTile[r][c] \in Int
    BY <1>2, TestTables DEF Table
  <2>2. k = 0 \/ k = 1 \/ k = 2 \/ k = 3
    BY <1>2, TestDim
  <2>3. /\ Outer(0, r, c) \in Int /\ Outer(1, r, c) \in Int
        /\ Outer(2, r, c) \in Int /\ Outer(3, r, c) \in Int
    BY TestDim, TestTables
  <2>4. Outers(k + 1, r, c) = Outers(k, r, c) + Outer(k, r, c)
    BY <2>2, <2>3 DEF Outers
  <2>. QED  BY <2>1, <2>4
<1>4. aTile' \in Table
  BY <1>1, <1>3 DEF Table
<1>. QED  BY <1>1, <1>3, <1>4

LEMMA TestStep ==
  ASSUME TestTypes, MachineInv, TablesInv, Test!TestNext
  PROVE  TestTypes' /\ MachineInv' /\ TablesInv'
<1>1. CASE Test!SetType
  <2>1. pc = "msetmtype" /\ pc' = "msettm" /\ UNCHANGED << machine, k, aTile, C, failed >>
    BY <1>1 DEF Test!SetType
  <2>. QED  BY <2>1 DEF TestTypes, MachineInv, TablesInv
<1>2. CASE Test!SetSize
  <2>1. /\ pc \in Test!MSett /\ UNCHANGED << machine, k, aTile, C >>
        /\ \/ machine = pc /\ pc' = "done" /\ failed' = TRUE
           \/ machine # pc /\ pc' = Test!AfterSize[pc] /\ failed' = failed
    BY <1>2 DEF Test!SetSize
  <2>2. k = 0 /\ ~failed
    BY <2>1 DEF MachineInv, Test!MSett
  <2>3. CASE machine = pc
    BY <2>1, <2>2, <2>3 DEF TestTypes, MachineInv, TablesInv, Test!MSett
  <2>4. CASE machine # pc
    <3>1. pc' = IF pc = "msettm" THEN "msettn" ELSE IF pc = "msettn" THEN "msettk" ELSE "zero"
      BY <2>1, <2>4 DEF Test!AfterSize, Test!MSett
    <3>2. machine' = machine /\ failed' = failed /\ k' = 0 /\ aTile' = aTile /\ C' = C
      BY <2>1, <2>2, <2>4
    <3>3. TestTypes' /\ MachineInv'
      BY <2>1, <2>2, <2>4, <3>1, <3>2 DEF TestTypes, MachineInv, Test!MSett
    <3>. QED  BY <2>1, <3>1, <3>2, <3>3, NoRows DEF TablesInv, Test!MSett
  <2>. QED  BY <2>3, <2>4
<1>3. CASE Test!LoadZero
  <2>1. /\ pc = "zero" /\ UNCHANGED << machine, C, failed >>
        /\ RowsOf(aTile, Test!tile_zero, k)
        /\ Test!Load(Test!Rows(Test!tile_zero), Test!TSS_ROW_OF(0, k)) /\ Test!NextK("fmm")
    BY <1>3 DEF Test!LoadZero, TablesInv
  <2>2. /\ aTile' \in Table /\ k' \in Test!Dim
        /\ \/ pc' = "zero" /\ RowsOf(aTile', Test!tile_zero, k')
           \/ pc' = "fmm" /\ k' = 0 /\ aTile' = Test!Rows(Test!tile_zero)
    BY <2>1, LoadStep, TestTables
  <2>3. \A r, c \in Test!Dim : Outers(0, r, c) = Test!Rows(Test!tile_zero)[r][c]
    BY TestTables DEF Outers
  <2>. QED  BY <2>1, <2>2, <2>3 DEF TestTypes, MachineInv, TablesInv
<1>4. CASE Test!Multiply
  <2>1. /\ pc = "fmm" /\ UNCHANGED << machine, C, failed >> /\ Test!NextK("store")
        /\ k \in Test!Dim /\ \A r, c \in Test!Dim : aTile[r][c] = Outers(k, r, c)
    BY <1>4 DEF Test!Multiply, TablesInv, TestTypes
  <2>2. aTile' \in Table /\ \A r, c \in Test!Dim : aTile'[r][c] = Outers(k + 1, r, c)
    BY <1>4, <2>1, ProductStep
  <2>3. CASE k < 3
    <3>1. k' = k + 1 /\ pc' = "fmm" /\ k' \in Test!Dim
      BY <2>1, <2>3, NextRow
    <3>. QED  BY <2>1, <2>2, <3>1 DEF TestTypes, MachineInv, TablesInv
  <2>4. CASE k >= 3
    <3>1. k = 3 /\ k' = 0 /\ pc' = "store" /\ k' \in Test!Dim
      BY <2>1, <2>4, NextRow
    <3>2. \A r, c \in Test!Dim : aTile'[r][c] = Test!Rows(Test!matmul_expected)[r][c]
      <4>1. k + 1 = 4
        BY <3>1
      <4>. QED  BY <2>2, <4>1, TestTables
    <3>3. RowsOf(aTile', Test!matmul_expected, 4)
      BY <3>2 DEF RowsOf
    <3>4. aTile' = Test!Rows(Test!matmul_expected)
      BY <2>2, <3>3, AllRows, TestTables
    <3>. QED  BY <2>1, <2>2, <3>1, <3>4, NoRows DEF TestTypes, MachineInv, TablesInv
  <2>. QED  BY <2>1, <2>3, <2>4, TestDim
<1>5. CASE Test!StoreProduct
  <2>1. /\ pc = "store" /\ UNCHANGED << machine, aTile, failed >>
        /\ Test!Store(Test!TSS_ROW_OF(0, k)) /\ Test!NextK("check_product")
        /\ aTile = Test!Rows(Test!matmul_expected) /\ RowsOf(C, Test!matmul_expected, k)
        /\ k \in Test!Dim /\ C \in Table /\ aTile \in Table
    BY <1>5 DEF Test!StoreProduct, TablesInv, TestTypes
  <2>2. /\ \A r, c \in Test!Dim : C'[r][c] = IF r = k THEN aTile[k][c] ELSE C[r][c]
        /\ C' \in Table
    BY <2>1, RowStored
  <2>3. \A r, c \in Test!Dim :
          C'[r][c] = IF r = k THEN Test!Rows(Test!matmul_expected)[r][c] ELSE C[r][c]
    BY <2>1, <2>2
  <2>4. /\ k' \in Test!Dim
        /\ \/ pc' = "store" /\ RowsOf(C', Test!matmul_expected, k')
           \/ pc' = "check_product" /\ k' = 0 /\ C' = Test!Rows(Test!matmul_expected)
    BY <2>1, <2>2, <2>3, StoreStep, TestTables
  <2>. QED  BY <2>1, <2>2, <2>4 DEF TestTypes, MachineInv, TablesInv
<1>6. CASE Test!CheckProduct
  <2>1. /\ pc = "check_product" /\ pc' = "load" /\ UNCHANGED << machine, k, aTile, C >>
        /\ failed' = (failed \/ C # Test!Rows(Test!matmul_expected))
        /\ C = Test!Rows(Test!matmul_expected) /\ k = 0 /\ ~failed
    BY <1>6 DEF Test!CheckProduct, Test!Check, TablesInv, MachineInv
  <2>2. ~failed' /\ failed' \in BOOLEAN
    BY <2>1
  <2>. QED  BY <2>1, <2>2, NoRows DEF TestTypes, MachineInv, TablesInv
<1>7. CASE Test!LoadInput
  <2>1. /\ pc = "load" /\ UNCHANGED << machine, C, failed >>
        /\ RowsOf(aTile, Test!transpose_input, k)
        /\ Test!Load(Test!Rows(Test!transpose_input), Test!TSS_ROW_OF(0, k))
        /\ Test!NextK("transpose")
    BY <1>7 DEF Test!LoadInput, TablesInv
  <2>2. /\ aTile' \in Table /\ k' \in Test!Dim
        /\ \/ pc' = "load" /\ RowsOf(aTile', Test!transpose_input, k')
           \/ pc' = "transpose" /\ k' = 0 /\ aTile' = Test!Rows(Test!transpose_input)
    BY <2>1, LoadStep, TestTables
  <2>. QED  BY <2>1, <2>2, NoRows DEF TestTypes, MachineInv, TablesInv
<1>8. CASE Test!StoreColumns
  <2>1. /\ pc = "transpose" /\ UNCHANGED << machine, aTile, failed >>
        /\ Test!Store(Test!TSS_COL_OF(0, k)) /\ Test!NextK("check_columns")
        /\ aTile = Test!Rows(Test!transpose_input) /\ RowsOf(C, Test!transpose_expected, k)
        /\ k \in Test!Dim /\ C \in Table /\ aTile \in Table
    BY <1>8 DEF Test!StoreColumns, TablesInv, TestTypes
  <2>2. /\ \A r, c \in Test!Dim : C'[r][c] = IF r = k THEN aTile[c][k] ELSE C[r][c]
        /\ C' \in Table
    BY <2>1, ColumnStored
  <2>3. \A r, c \in Test!Dim :
          C'[r][c] = IF r = k THEN Test!Rows(Test!transpose_expected)[r][c] ELSE C[r][c]
    BY <2>1, <2>2, TestTables
  <2>4. /\ k' \in Test!Dim
        /\ \/ pc' = "transpose" /\ RowsOf(C', Test!transpose_expected, k')
           \/ pc' = "check_columns" /\ k' = 0 /\ C' = Test!Rows(Test!transpose_expected)
    BY <2>1, <2>2, <2>3, StoreStep, TestTables
  <2>. QED  BY <2>1, <2>2, <2>4 DEF TestTypes, MachineInv, TablesInv
<1>9. CASE Test!CheckColumns
  <2>1. /\ pc = "check_columns" /\ pc' = "done" /\ UNCHANGED << machine, k, aTile, C >>
        /\ failed' = (failed \/ C # Test!Rows(Test!transpose_expected))
        /\ C = Test!Rows(Test!transpose_expected) /\ ~failed /\ machine = "fits"
    BY <1>9 DEF Test!CheckColumns, Test!Check, TablesInv, MachineInv
  <2>2. ~failed' /\ failed' \in BOOLEAN
    BY <2>1
  <2>. QED  BY <2>1, <2>2 DEF TestTypes, MachineInv, TablesInv
<1>10. CASE UNCHANGED Test!tvars
  BY <1>10 DEF Test!tvars, TestTypes, MachineInv, TablesInv
<1>. QED
  BY <1>1, <1>2, <1>3, <1>4, <1>5, <1>6, <1>7, <1>8, <1>9, <1>10 DEF Test!TestNext

LEMMA TestInitial == Test!TestInit => TestTypes /\ MachineInv /\ TablesInv
<1>1. Test!Undefined \in Table
  BY DEF Test!Undefined, Table
<1>. SUFFICES ASSUME Test!TestInit PROVE TestTypes /\ MachineInv /\ TablesInv
  OBVIOUS
<1>2. pc = "msetmtype" /\ k = 0 /\ ~failed /\ failed \in BOOLEAN
      /\ machine \in { "fits" } \cup Test!MSett /\ aTile \in Table /\ C \in Table
  BY <1>1 DEF Test!TestInit
<1>. QED  BY <1>2, TestDim DEF TestTypes, MachineInv, TablesInv

LEMMA TestSame == UNCHANGED Test!tvars /\ TestTypes /\ MachineInv /\ TablesInv
                  => TestTypes' /\ MachineInv' /\ TablesInv'
BY DEF Test!tvars, TestTypes, MachineInv, TablesInv

TestInv == IsTest => TestTypes /\ MachineInv /\ TablesInv

LEMMA TestInvariant == Spec => []TestInv
<1>1. Init => TestInv
  BY InitOfTest, TestInitial DEF TestInv
<1>2. TestInv /\ [Next]_vars => TestInv'
  <2>. SUFFICES ASSUME TestInv, [Next]_vars, IsTest' PROVE (TestTypes /\ MachineInv /\ TablesInv)'
    BY DEF TestInv
  <2>1. IsTest
    BY SameKernel DEF IsTest
  <2>. QED  BY <2>1, StepOfTest, TestStep, TestSame DEF TestInv
<1>. QED  BY <1>1, <1>2, PTL DEF Spec

(***************************************************************************)
(* The verdict of the test: it fails if the machine grants smaller tiles,  *)
(* and if it does not, the sum of the outer products is the table and the  *)
(* stored columns are the other one.                                       *)
(***************************************************************************)
THEOREM TestVerdict == Spec => []VerdictRight
<1>1. TestInv => VerdictRight
  BY DEF TestInv, MachineInv, VerdictRight, Test!VerdictRight, TestTypes
<1>. QED  BY <1>1, TestInvariant, PTL

-----------------------------------------------------------------------------
(* What the variables hold: the tile kernel.                               *)

Elements == { Vme!NoElement } \cup (0 .. Vme!M - 1) \X (0 .. Vme!K - 1)

\* what ControlInv leaves open
VmeTypes ==
  /\ n0 =< Vme!N /\ k0 =< Vme!K
  /\ aTile \in [{ "mt0", "mt8" } -> [Vme!Blk \X Vme!Blk -> Elements]]

LEMMA TypedColumn ==
  ASSUME ControlInv, VmeTypes, Vme!Accepted, m0 < Vme!M, NEW t \in { "mt0", "mt8" },
         NEW x \in Nat, x + T =< Vme!K
  PROVE  Vme!LoadACol(t, k, x) \in [{ "mt0", "mt8" } -> [Vme!Blk \X Vme!Blk -> Elements]]
<1>1. /\ T \in Nat \ {0} /\ k \in Nat /\ k < T /\ m0 \in Nat /\ m0 % T = 0
      /\ Vme!M \in Nat /\ Vme!K \in Nat /\ Vme!M % T = 0
  BY VmeSizes DEF ControlInv
<1>2. m0 + T =< Vme!M
  BY <1>1, MultiplesApart
<1>3. ASSUME NEW rc \in Vme!Blk \X Vme!Blk PROVE << m0 + k, x + rc[1] >> \in Elements
  <2>1. rc[1] \in 0 .. T - 1
    BY DEF Vme!Blk
  <2>2. m0 + k \in 0 .. Vme!M - 1 /\ x + rc[1] \in 0 .. Vme!K - 1
    BY <1>1, <1>2, <2>1
  <2>. QED  BY <2>2 DEF Elements
<1>. QED  BY <1>3 DEF VmeTypes, Vme!LoadACol

LEMMA VmeTypesInit == Vme!Init => VmeTypes
<1>. SUFFICES ASSUME Vme!Init PROVE VmeTypes
  OBVIOUS
<1>1. n0 = 0 /\ k0 = 0 /\ Vme!K \in Nat /\ Vme!N \in Nat
  BY ShapesAssumption DEF Vme!Init, Vme!K, Vme!N
<1>2. aTile \in [{ "mt0", "mt8" } -> [Vme!Blk \X Vme!Blk -> Elements]]
  BY DEF Vme!Init, Elements
<1>. QED  BY <1>1, <1>2 DEF VmeTypes

LEMMA VmeTypesStep ==
  ASSUME ControlInv, VmeTypes, [Vme!Next]_(Vme!vars)
  PROVE  VmeTypes'
<1>0. /\ T \in Nat \ {0} /\ k \in Nat /\ k < T /\ k0 \in Nat /\ n0 \in Nat /\ m0 \in Nat
      /\ Vme!M \in Nat /\ Vme!K \in Nat /\ Vme!N \in Nat
  BY VmeSizes
<1>1. Vme!M' = Vme!M /\ Vme!K' = Vme!K /\ Vme!N' = Vme!N /\ Elements' = Elements /\ Vme!Blk' = Vme!Blk
  BY SameShape DEF Elements, Vme!Blk, Vme!NoElement
<1>2. UNCHANGED << n0, k0, aTile >> => VmeTypes'
  BY <1>1 DEF VmeTypes
<1>3. CASE Vme!Enter \/ Vme!LeaveRows \/ Vme!Multiply \/ Vme!StorePrevious
  BY <1>2, <1>3 DEF Vme!Enter, Vme!LeaveRows, Vme!Multiply, Vme!StorePrevious
<1>4. CASE Vme!EnterRows
  <2>1. /\ pc = "rows" /\ m0 < Vme!M /\ n0' = 0 /\ k0' = 0
        /\ aTile' = [aTile EXCEPT !["mt0"] = [rc \in Vme!Blk \X Vme!Blk |-> << m0 + rc[2], rc[1] >>]]
    BY <1>4 DEF Vme!EnterRows
  <2>2. Vme!Accepted /\ Vme!M % T = 0 /\ Vme!K % T = 0 /\ Vme!K > 0 /\ m0 % T = 0
    BY <2>1, VmeSizes DEF ControlInv
  <2>3. m0 + T =< Vme!M /\ 0 + T =< Vme!K
    <3>1. 0 % T = 0
      BY <1>0
    <3>. QED  BY <1>0, <2>1, <2>2, <3>1, MultiplesApart
  <2>4. ASSUME NEW rc \in Vme!Blk \X Vme!Blk PROVE << m0 + rc[2], rc[1] >> \in Elements
    <3>1. rc[1] \in 0 .. T - 1 /\ rc[2] \in 0 .. T - 1
      BY DEF Vme!Blk
    <3>2. m0 + rc[2] \in 0 .. Vme!M - 1 /\ rc[1] \in 0 .. Vme!K - 1
      BY <1>0, <2>3, <3>1
    <3>. QED  BY <3>2 DEF Elements
  <2>5. aTile' \in [{ "mt0", "mt8" } -> [Vme!Blk \X Vme!Blk -> Elements]]
    BY <2>1, <2>4 DEF VmeTypes
  <2>. QED  BY <1>0, <1>1, <2>1, <2>5 DEF VmeTypes
<1>5. CASE Prefetching
  <2>1. /\ pc = "prefetch" /\ n0' = n0 /\ m0 < Vme!M /\ k0 < Vme!K /\ Vme!Accepted
        /\ Vme!K % T = 0 /\ k0 % T = 0
    BY <1>5, PrefetchControl, VmeSizes DEF ControlInv, InColumn
  <2>2. k0 + T =< Vme!K /\ (k0 + T) % T = 0 /\ k0 + T \in Nat /\ 0 + T =< Vme!K
    <3>1. k0 + T =< Vme!K
      BY <1>0, <2>1, MultiplesApart
    <3>2. (k0 + T) % T = 0
      BY <1>0, <2>1, NextMultiple
    <3>. QED  BY <1>0, <3>1, <3>2
  <2>3. k0' = k0 \/ k0' = k0 + T
    BY <1>5, PrefetchControl
  <2>4. aTile' \in [{ "mt0", "mt8" } -> [Vme!Blk \X Vme!Blk -> Elements]]
    <3>1. CASE Vme!PrefetchA
      <4>1. k0 + T < Vme!K /\ aTile' = Vme!LoadACol(Vme!OtherA, k, k0 + T)
        BY <3>1 DEF Vme!PrefetchA
      <4>2. (k0 + T) + T =< Vme!K
        BY <1>0, <2>1, <2>2, <4>1, MultiplesApart
      <4>3. Vme!OtherA \in { "mt0", "mt8" }
        BY DEF Vme!OtherA
      <4>. QED  BY <2>1, <2>2, <4>1, <4>2, <4>3, TypedColumn
    <3>2. CASE Vme!PrefetchNextColumn
      <4>1. aTile' = Vme!LoadACol("mt0", k, 0)
        BY <3>2 DEF Vme!PrefetchNextColumn, Vme!NextColumnATile
      <4>. QED  BY <2>1, <2>2, <4>1, TypedColumn
    <3>3. CASE Vme!PrefetchNothing
      BY <3>3 DEF Vme!PrefetchNothing, VmeTypes
    <3>. QED  BY <1>5, <3>1, <3>2, <3>3 DEF Prefetching
  <2>. QED  BY <1>0, <1>1, <2>1, <2>2, <2>3, <2>4 DEF VmeTypes
<1>6. CASE Vme!NextColumn
  <2>1. pc = "columns" /\ n0' = n0 + T /\ k0' = 0 /\ aTile' = aTile
    BY <1>6 DEF Vme!NextColumn
  <2>2. n0 < Vme!N /\ n0 % T = 0 /\ Vme!N % T = 0
    BY <2>1, VmeSizes DEF ControlInv
  <2>3. n0 + T =< Vme!N
    BY <1>0, <2>2, MultiplesApart
  <2>. QED  BY <1>0, <1>1, <2>1, <2>3 DEF VmeTypes
<1>7. CASE UNCHANGED Vme!vars
  BY <1>2, <1>7 DEF Vme!vars
<1>. QED
  BY <1>3, <1>4, <1>5, <1>6, <1>7 DEF Vme!Next, Vme!Terminating, Prefetching

LEMMA VmeTyped == ControlInv /\ CInv /\ VmeTypes => Vme!TypeOK
<1>. SUFFICES ASSUME ControlInv, CInv, VmeTypes PROVE Vme!TypeOK
  OBVIOUS
<1>1. DOMAIN cTile = { "mt4", "mt12" } /\ DOMAIN C = Vme!Pieces
  BY DEF CInv, SumsInv, CTiles, PiecesInv
<1>2. m0 \in 0 .. Vme!M /\ n0 \in 0 .. Vme!N /\ k0 \in 0 .. Vme!K
  BY VmeSizes DEF ControlInv, VmeTypes
<1>3. aTile \in [{ "mt0", "mt8" } -> [Vme!Blk \X Vme!Blk ->
                  { Vme!NoElement } \cup (0 .. Vme!M - 1) \X (0 .. Vme!K - 1)]]
  BY DEF VmeTypes, Elements
<1>. QED  BY <1>1, <1>2, <1>3 DEF ControlInv, Vme!TypeOK

-----------------------------------------------------------------------------
(* What the variables hold: the kernels on vector registers.               *)

\* what GroupInv leaves open
RvvTypes ==
  /\ kernel \in Rvv!RvvKernels \cup Rvv!ScalarKernels
  /\ pc \in { "rows", "columns", "products", "done" }
  /\ ii \in 0 .. Rvv!N /\ col \in 0 .. Rvv!N /\ vl \in 0 .. Rvv!N /\ kk \in 0 .. Rvv!K

LEMMA RvvTypesInit == Rvv!Init => RvvTypes
<1>. SUFFICES ASSUME Rvv!Init PROVE RvvTypes
  OBVIOUS
<1>1. Rvv!N \in Nat /\ Rvv!K \in Nat
  BY RvvSizes DEF Rvv!Init
<1>. QED  BY <1>1 DEF Rvv!Init, RvvTypes

LEMMA RvvTypesStep ==
  ASSUME GroupInv, RvvTypes, [Rvv!Next]_(Rvv!rvars)
  PROVE  RvvTypes'
<1>1. /\ kernel' = kernel /\ Rvv!N' = Rvv!N /\ Rvv!K' = Rvv!K /\ Rvv!N \in Nat /\ Rvv!K \in Nat
  BY SameRvvShape, RvvSizes DEF GroupInv
<1>2. ColumnsInv
  BY DEF GroupInv
<1>. HIDE DEF GroupInv
<1>3. CASE Rvv!NextGroups \/ Rvv!LeaveGroup
  BY <1>1, <1>3 DEF Rvv!NextGroups, Rvv!LeaveGroup, RvvTypes
<1>4. CASE Rvv!EnterGroup
  BY <1>1, <1>4 DEF Rvv!EnterGroup, RvvTypes
<1>5. CASE Rvv!StartChunk
  <2>1. /\ pc = "columns" /\ ii > 0 /\ vl' \in Rvv!LegalVl(ii, Rvv!Vlmax) /\ kk' = 0
        /\ pc' = "products" /\ UNCHANGED << ii, col >>
    BY <1>5 DEF Rvv!StartChunk
  <2>2. PICK w \in Nat \ {0} : w = Rvv!Vlmax
    BY TAssumption DEF Rvv!Vlmax
  <2>3. vl' \in 0 .. Rvv!N
    BY <1>1, <2>1, <2>2 DEF Rvv!LegalVl, RvvTypes
  <2>. QED  BY <1>1, <2>1, <2>3 DEF RvvTypes
<1>6. CASE Rvv!AddProduct
  BY <1>1, <1>6 DEF Rvv!AddProduct, RvvTypes
<1>7. CASE Rvv!StoreChunk
  <2>1. pc = "products" /\ col' = col + vl /\ ii' = ii - vl /\ pc' = "columns" /\ UNCHANGED << vl, kk >>
    BY <1>7 DEF Rvv!StoreChunk
  <2>2. col + ii = Rvv!N /\ vl \in 0 .. ii
    BY <1>2, <2>1 DEF ColumnsInv, InGroup
  <2>. QED  BY <1>1, <2>1, <2>2 DEF RvvTypes
<1>8. CASE UNCHANGED Rvv!rvars
  BY <1>1, <1>8 DEF Rvv!rvars, RvvTypes
<1>. QED
  BY <1>3, <1>4, <1>5, <1>6, <1>7, <1>8 DEF Rvv!Next, Rvv!Terminating

LEMMA RvvTyped == GroupInv /\ RvvTypes => Rvv!TypeOK
<1>. SUFFICES ASSUME GroupInv, RvvTypes PROVE Rvv!TypeOK
  OBVIOUS
<1>1. PICK i \in Nat : RowsInv(i) /\ ResultInv(i)
  BY DEF GroupInv
<1>2. shape \in RvvShapes /\ Rvv!M \in Nat /\ Rvv!K \in Nat /\ Rvv!N \in Nat
  BY RvvSizes DEF GroupInv
<1>3. /\ rows \in { 1, 2, 4 } /\ jj \in Nat /\ pin = i * Rvv!K /\ po = i * Rvv!N
      /\ Rvv!M = i + rows * jj + Left(rows)
  BY <1>1 DEF RowsInv
<1>4. Left(rows) \in Nat
  BY <1>2 DEF Left
<1>5. rows * jj \in Nat /\ jj =< rows * jj
  BY <1>3
<1>6. jj \in 0 .. Rvv!M /\ i =< Rvv!M
  BY <1>2, <1>3, <1>4, <1>5
<1>7. \A w \in Nat : i * w \in 0 .. Rvv!M * w
  <2>1. PICK d \in Nat : Rvv!M = i + d
    <3>1. Rvv!M - i \in Nat /\ Rvv!M = i + (Rvv!M - i)
      BY <1>2, <1>6
    <3>. QED  BY <3>1
  <2>2. ASSUME NEW w \in Nat PROVE i * w \in 0 .. Rvv!M * w
    <3>1. i * w \in Nat /\ d * w \in Nat /\ (i + d) * w = i * w + d * w
      OBVIOUS
    <3>. QED  BY <2>1, <3>1
  <2>. QED  BY <2>2
<1>8. pin \in 0 .. Rvv!M * Rvv!K /\ po \in 0 .. Rvv!M * Rvv!N
  BY <1>2, <1>3, <1>7
<1>9. DOMAIN C = (0 .. Rvv!M - 1) \X (0 .. Rvv!N - 1)
  BY <1>1 DEF ResultInv, RvvPieces
<1>. QED  BY <1>2, <1>3, <1>6, <1>8, <1>9 DEF RvvTypes, Rvv!TypeOK

-----------------------------------------------------------------------------
(* What the variables hold: the transposes, for all calls.                 *)

TransTypes ==
  /\ word \in Calls /\ pc \in { "enter", "load", "transpose", "store", "done" }
  /\ rows \in Nat /\ col \in Nat /\ rows + col = Trans!stride
  /\ word.layout = "single" => \E j \in Nat : rows = 8 * j
  /\ word.layout = "single" /\ pc \in { "load", "transpose", "store" } => rows # 0
  /\ pc = "enter" => rows = Trans!stride
  /\ pc \in { "transpose", "store" } => Eight(vc)

LEMMA EightAlways ==
  /\ Eight(Trans!Loaded)
  /\ \A R : Eight(Trans!Butterfly(R))
<1>1. Eight(Trans!Loaded)
  BY DEF Eight, Trans!Loaded, Trans!Rows
<1>2. ASSUME NEW R PROVE Eight(Trans!Butterfly(R))
  BY DEF Eight, Trans!Butterfly, Trans!Rows
<1>. QED  BY <1>1, <1>2

LEMMA TransTypesStep == TransTypes /\ [Trans!TransNext]_(Trans!tvars) => TransTypes'
<1>. SUFFICES ASSUME TransTypes, [Trans!TransNext]_(Trans!tvars) PROVE TransTypes'
  OBVIOUS
<1>1. word' = word
  BY DEF Trans!TransNext, Trans!tvars, Trans!Enter, Trans!Load, Trans!Transpose, Trans!Store
<1>2. Trans!stride' = Trans!stride /\ (Eight(vc)' <=> Eight(vc'))
  BY <1>1 DEF Trans!stride, Trans!L, Trans!PerRound, Eight
<1>3. /\ word \in Calls /\ rows \in Nat /\ col \in Nat /\ rows + col = Trans!stride
      /\ word.n \in Nat /\ Trans!stride = 8 * word.n /\ Trans!L \in Nat \ {0}
      /\ word.layout = "single" => Trans!L = 8
  BY TransSizes DEF TransTypes
<1>4. CASE Trans!Enter
  <2>1. /\ pc = "enter" /\ UNCHANGED << rows, col, vc >>
        /\ pc' = IF word.layout = "single" /\ word.n = 0 THEN "done" ELSE "load"
    BY <1>4 DEF Trans!Enter
  <2>2. word.layout = "single" /\ pc' = "load" => rows # 0
    BY <1>3, <2>1 DEF TransTypes
  <2>. QED  BY <1>1, <1>2, <2>1, <2>2 DEF TransTypes
<1>5. CASE Trans!Load
  <2>1. pc = "load" /\ pc' = "transpose" /\ vc' = Trans!Loaded /\ UNCHANGED << rows, col >>
    BY <1>5 DEF Trans!Load
  <2>2. Eight(vc)'
    BY <1>2, <2>1, EightAlways
  <2>. QED  BY <1>1, <1>2, <2>1, <2>2 DEF TransTypes
<1>6. CASE Trans!Transpose
  <2>1. /\ pc = "transpose" /\ pc' = "store" /\ UNCHANGED << rows, col >>
        /\ vc' = Trans!Butterfly(Trans!Transposed(Trans!Butterfly(vc)))
    BY <1>6 DEF Trans!Transpose
  <2>2. Eight(vc)'
    BY <1>2, <2>1, EightAlways
  <2>. QED  BY <1>1, <1>2, <2>1, <2>2 DEF TransTypes
<1>7. CASE Trans!Store
  <2>1. /\ pc = "store" /\ col' = col + Trans!Stored /\ rows' = rows - Trans!Stored
        /\ pc' = IF rows' = 0 THEN "done" ELSE "load"
    BY <1>7 DEF Trans!Store
  <2>2. Trans!Stored \in 0 .. rows /\ (word.layout = "single" => \E j \in Nat : rows' = 8 * j)
    <3>1. CASE word.layout = "single"
      <4>1. PICK j \in Nat : rows = 8 * j
        BY <3>1 DEF TransTypes
      <4>2. rows # 0
        BY <2>1, <3>1 DEF TransTypes
      <4>3. Trans!Stored = 8
        BY <1>3, <3>1 DEF Trans!Stored
      <4>4. j - 1 \in Nat /\ rows - 8 = 8 * (j - 1) /\ 8 \in 0 .. rows
        BY <4>1, <4>2
      <4>. QED  BY <2>1, <4>3, <4>4
    <3>2. CASE word.layout # "single"
      BY <1>3, <3>2 DEF Trans!Stored
    <3>. QED  BY <3>1, <3>2
  <2>3. rows' \in Nat /\ col' \in Nat /\ rows' + col' = Trans!stride
    BY <1>3, <2>1, <2>2
  <2>. QED  BY <1>1, <1>2, <1>3, <2>1, <2>2, <2>3 DEF TransTypes
<1>8. CASE UNCHANGED Trans!tvars
  BY <1>1, <1>2, <1>8 DEF TransTypes, Trans!tvars
<1>. QED  BY <1>4, <1>5, <1>6, <1>7, <1>8 DEF Trans!TransNext

LEMMA TransTypesInit == Trans!TransInit => TransTypes
<1>. SUFFICES ASSUME Trans!TransInit PROVE TransTypes
  OBVIOUS
<1>1. word \in Calls /\ pc = "enter" /\ rows = 8 * word.n /\ col = 0
  BY DEF Trans!TransInit
<1>2. word.n \in Nat /\ Trans!stride = 8 * word.n
  BY <1>1, TransSizes
<1>. QED  BY <1>1, <1>2 DEF TransTypes

LEMMA TransTyped == TransTypes => Trans!TransTypeOK
<1>. SUFFICES ASSUME TransTypes PROVE Trans!TransTypeOK
  OBVIOUS
<1>1. rows \in 0 .. Trans!stride /\ col = Trans!stride - rows
  BY DEF TransTypes
<1>. QED  BY <1>1 DEF TransTypes, Trans!TransTypeOK, Eight

-----------------------------------------------------------------------------
(* What the variables hold.                                                *)

LEMMA TypesInit == Init => (IsVme => VmeTypes) /\ (IsRvv => RvvTypes) /\ (IsTrans => TransTypes)
<1>. SUFFICES ASSUME Init PROVE (IsVme => VmeTypes) /\ (IsRvv => RvvTypes) /\ (IsTrans => TransTypes)
  OBVIOUS
<1>1. IsVme => Vme!Init
  BY DEF Init, IsVme, Rvv!Init, Rvv!RvvKernels, Rvv!ScalarKernels
<1>2. IsRvv => Rvv!Init
  BY DEF Init, IsVme, IsRvv, IsTest, IsTrans
<1>3. IsTrans => Trans!TransInit
  BY DEF Init, IsTrans, Rvv!Init, Rvv!RvvKernels, Rvv!ScalarKernels
<1>. QED  BY <1>1, <1>2, <1>3, VmeTypesInit, RvvTypesInit, TransTypesInit

LEMMA TypesStep ==
  ASSUME KernelsInv, [Next]_vars,
         (IsVme => VmeTypes) /\ (IsRvv => RvvTypes) /\ (IsTrans => TransTypes)
  PROVE  ((IsVme => VmeTypes) /\ (IsRvv => RvvTypes) /\ (IsTrans => TransTypes))'
<1>1. IsVme' = IsVme /\ IsRvv' = IsRvv /\ IsTrans' = IsTrans
  BY SameKernel DEF IsVme, IsRvv, IsTest, IsTrans
<1>2. IsVme => VmeTypes'
  BY StepOfVme, VmeTypesStep DEF KernelsInv, VmeInv
<1>3. IsRvv => RvvTypes'
  BY StepOfRvv, RvvTypesStep DEF KernelsInv
<1>4. IsTrans => [Trans!TransNext]_(Trans!tvars)
  BY DEF Next, IsTrans, IsVme, IsRvv, IsTest, vars, rvvVars, testVars, Trans!tvars
<1>. QED  BY <1>1, <1>2, <1>3, <1>4, TransTypesStep

(***************************************************************************)
(* Every variable of every kernel holds what the code can put there:       *)
(* pointers and counters stay inside the matrices or just behind them, and *)
(* what is in a tile register is an element of A.                          *)
(***************************************************************************)
THEOREM MatrixTypes == Spec => []TypeOK
<1>1. Spec => []KernelsInv
  BY Kernels
<1>2. Spec => []TestInv
  BY TestInvariant
<1>3. Spec => []NamedInv
  BY NamedInvariant
<1>. DEFINE Typed == (IsVme => VmeTypes) /\ (IsRvv => RvvTypes) /\ (IsTrans => TransTypes)
<1>4. Spec => []Typed
  <2>1. Init => Typed
    BY TypesInit
  <2>2. KernelsInv /\ Typed /\ [Next]_vars => Typed'
    BY TypesStep
  <2>. HIDE DEF Typed
  <2>. QED  BY <1>1, <2>1, <2>2, PTL DEF Spec
<1>5. KernelsInv /\ TestInv /\ NamedInv /\ Typed => TypeOK
  <2>. SUFFICES ASSUME KernelsInv, TestInv, NamedInv, Typed PROVE TypeOK
    OBVIOUS
  <2>1. CASE IsVme
    <3>1. Vme!TypeOK
      BY <2>1, VmeTyped DEF KernelsInv, VmeInv
    <3>. QED  BY <2>1, <3>1 DEF TypeOK, IsVme, IsRvv, IsTest, IsTrans
  <2>2. CASE IsRvv
    <3>1. Rvv!TypeOK
      BY <2>2, RvvTyped DEF KernelsInv
    <3>. QED  BY <2>2, <3>1 DEF TypeOK, IsVme, IsRvv, IsTest, IsTrans
  <2>3. CASE IsTest
    <3>1. Test!TestTypeOK
      BY <2>3 DEF TestInv, TestTypes, NamedInv, Named, Table, Test!TestTypeOK
    <3>. QED  BY <2>3, <3>1 DEF TypeOK, IsVme, IsRvv, IsTest, IsTrans
  <2>4. CASE IsTrans
    <3>1. Trans!TransTypeOK
      BY <2>4, TransTyped
    <3>. QED  BY <2>4, <3>1 DEF TypeOK, IsVme, IsRvv, IsTest, IsTrans
  <2>. QED  BY <2>1, <2>2, <2>3, <2>4 DEF IsRvv
<1>. HIDE DEF Typed
<1>. QED  BY <1>1, <1>2, <1>3, <1>4, <1>5, PTL
=============================================================================
