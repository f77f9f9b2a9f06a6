------------------------------ MODULE SgemmVme ------------------------------
(***************************************************************************)
(* The matrix multiplication kernel for the tile registers of the Zvt      *)
(* matrix extension: _sgemm_vme (common/sgemm_vme.c), and _sgemm_vme_asm   *)
(* (common/sgemm_vme_asm.c), which is the same program with mnemonics.     *)
(*                                                                         *)
(* C is computed tile by tile, a tile being SGEMM_TILE by SGEMM_TILE       *)
(* elements.  Two tile registers hold A (mt0 and mt8) and two hold C (mt4  *)
(* and mt12): while one pair is being multiplied, the next A tile and the  *)
(* next C tile are loaded into the other pair, four rows at a time, and    *)
(* the rows of the last C tile are stored from there.                      *)
(*                                                                         *)
(* The unit of every index below is the four rows or columns one pass of   *)
(* the k loop handles: a tile is T units wide (8 in the code), and what    *)
(* the code does to rows k .. k+3 is done to unit k.                       *)
(***************************************************************************)
EXTENDS Integers, Sequences

CONSTANTS
  T,        \* SGEMM_TILE / 4
  Shapes    \* the <<M, K, N>> the kernel is called with

VARIABLES
  shape,    \* the dimensions of this call
  machine,  \* what vsetvli and msettn grant on this machine
  pc, m0, n0, k0, k,
  aTile,    \* aTile[t][<<r, c>>]: the element of A in row r, column c of t
  cTile,    \* cTile[t][r]: row r of the C tile in t
  C         \* C[<<i, j>>]: columns j .. j+T-1 of row i of the matrix

vars == << shape, machine, pc, m0, n0, k0, k, aTile, cTile, C >>

M == shape[1]
K == shape[2]
N == shape[3]

\* the shapes the kernel does not turn down
Accepted == /\ M > 0 /\ K > 0 /\ N > 0
            /\ M % T = 0 /\ K % T = 0 /\ N % T = 0

Blk      == 0 .. T - 1
NoElement == << -1, -1 >>                          \* what is in a tile register
NoPiece   == [from |-> NoElement, sum |-> << >>]   \* before it is loaded
Machines == { "fits", "short_vectors", "short_tiles" }

\* what the matrices stand for (module Gemm)
Asked == << M, K, N, T, TRUE >>
Sums  == INSTANCE Gemm WITH Shapes <- {}, shape <- Asked, served <- TRUE,
                            returned <- FALSE
Pieces       == Sums!Pieces(Asked)
Before(i, j) == Sums!Before(i, j)

Init ==
  /\ shape \in Shapes
  /\ machine \in Machines
  /\ pc = "enter"
  /\ m0 = 0 /\ n0 = 0 /\ k0 = 0 /\ k = 0
  /\ aTile = [t \in { "mt0", "mt8" } |-> [rc \in Blk \X Blk |-> NoElement]]
  /\ cTile = [t \in { "mt4", "mt12" } |-> [r \in Blk |-> NoPiece]]
  /\ C = [p \in Pieces |-> Before(p[1], p[2])]

-----------------------------------------------------------------------------
(* The tile registers in use, and the instructions on them.                *)

\* mutant: one tile register for all of C
OneCTile == "mt4"

ATile    == IF (k0 \div T) % 2 = 1 THEN "mt8" ELSE "mt0"
CTile    == IF (n0 \div T) % 2 = 1 THEN "mt12" ELSE "mt4"
OtherA   == IF ATile = "mt0" THEN "mt8" ELSE "mt0"
OtherC   == IF CTile = "mt4" THEN "mt12" ELSE "mt4"

\* mutant: the column bit of the tile subset selector is not set
LoadARow(t, c, kk) ==
  [aTile EXCEPT ![t] = [rc \in Blk \X Blk |->
                          IF rc[1] = c THEN << m0 + c, kk + rc[2] >> ELSE @[rc]]]

\* vtle32 into column c of tile t: T elements of row m0 + c of A from kk on
LoadACol(t, c, kk) ==
  [aTile EXCEPT ![t] = [rc \in Blk \X Blk |->
                          IF rc[2] = c THEN << m0 + c, kk + rc[1] >> ELSE @[rc]]]

\* vtle32 into row r of tile t: the piece of C in row m0 + r from column j
LoadCRow(t, r, j) == [cTile EXCEPT ![t][r] = C[<< m0 + r, j >>]]

\* vtse32 of row r of tile t to the piece of C in row m0 + r from column j
StoreCRow(t, r, j) == [C EXCEPT ![<< m0 + r, j >>] = cTile[t][r]]

\* mutant: the product replaces the sum (no accumulation)
SetProduct(row, a) == [row EXCEPT !.sum = << << a, << k0 + k, n0 >> >> >>]

\* vtmv and vtfmm: row r of the C tile gains the product of element r of
\* row k of the A tile (a column of A) and row k0 + k of B
AddProduct(row, a) ==
  [row EXCEPT !.sum = Append(@, << a, << k0 + k, n0 >> >>)]

-----------------------------------------------------------------------------
Enter ==
  /\ pc = "enter"
  /\ pc' = IF Accepted /\ machine # "short_vectors" THEN "rows" ELSE "done"
  /\ UNCHANGED << shape, machine, m0, n0, k0, k, aTile, cTile, C >>

\* head of the m0 loop: configure the tiles, load the first of A and C
EnterRows ==
  /\ pc = "rows" /\ m0 < M /\ machine # "short_tiles"
  /\ aTile' = [aTile EXCEPT !["mt0"] =
                 [rc \in Blk \X Blk |-> << m0 + rc[2], rc[1] >>]]
  /\ cTile' = [cTile EXCEPT !["mt4"] = [r \in Blk |-> C[<< m0 + r, 0 >>]]]
  /\ n0' = 0 /\ k0' = 0 /\ k' = 0
  /\ pc' = "multiply"
  /\ UNCHANGED << shape, machine, m0, C >>

LeaveRows ==
  /\ pc = "rows" /\ (m0 >= M \/ machine = "short_tiles")
  /\ pc' = "done"
  /\ UNCHANGED << shape, machine, m0, n0, k0, k, aTile, cTile, C >>

Multiply ==
  /\ pc = "multiply"
  /\ cTile' = [cTile EXCEPT ![CTile] =
                 [r \in Blk |-> AddProduct(@[r], aTile[ATile][<< k, r >>])]]
  /\ pc' = "store"
  /\ UNCHANGED << shape, machine, m0, n0, k0, k, aTile, C >>

\* during the first A tile of a column of tiles: store the C tile before
StorePrevious ==
  /\ pc = "store"
  /\ C' = IF k0 = 0 /\ n0 # 0 THEN StoreCRow(OtherC, k, n0 - T) ELSE C
  /\ pc' = "prefetch"
  /\ UNCHANGED << shape, machine, m0, n0, k0, k, aTile, cTile >>

\* mutant: the k loop runs once too often
NextKTooFar ==
  IF k < T
    THEN k' = k + 1 /\ pc' = "multiply" /\ UNCHANGED k0
    ELSE /\ k' = 0
         /\ k0' = k0 + T
         /\ pc' = IF k0 + T < K THEN "multiply" ELSE "columns"

\* the end of the k loop body: on to the next k, A tile or column of tiles
NextK ==
  IF k + 1 < T
    THEN k' = k + 1 /\ pc' = "multiply" /\ UNCHANGED k0
    ELSE /\ k' = 0
         /\ k0' = k0 + T
         /\ pc' = IF k0 + T < K THEN "multiply" ELSE "columns"

PrefetchA ==
  /\ pc = "prefetch" /\ k0 + T < K
  /\ aTile' = LoadACol(OtherA, k, k0 + T)
  /\ NextK
  /\ UNCHANGED << shape, machine, m0, n0, cTile, C >>

\* where the first A tile of the next column of tiles goes
NextColumnATile == "mt0"

PrefetchNextColumn ==
  /\ pc = "prefetch" /\ k0 + T >= K /\ n0 + T < N
  /\ aTile' = LoadACol(NextColumnATile, k, 0)
  /\ cTile' = LoadCRow(OtherC, k, n0 + T)
  /\ NextK
  /\ UNCHANGED << shape, machine, m0, n0, C >>

PrefetchNothing ==
  /\ pc = "prefetch" /\ k0 + T >= K /\ n0 + T >= N
  /\ NextK
  /\ UNCHANGED << shape, machine, m0, n0, aTile, cTile, C >>

\* the end of the n0 loop body, where the last C tile of a row is stored
NextColumn ==
  /\ pc = "columns"
  /\ C' = IF n0 + T = N
            THEN [p \in Pieces |-> IF p[1] \in m0 .. m0 + T - 1 /\ p[2] = n0
                                     THEN cTile[CTile][p[1] - m0] ELSE C[p]]
            ELSE C
  /\ n0' = n0 + T
  /\ k0' = 0
  /\ IF n0 + T < N THEN pc' = "multiply" /\ UNCHANGED m0
                   ELSE pc' = "rows" /\ m0' = m0 + T
  /\ UNCHANGED << shape, machine, k, aTile, cTile >>

Terminating == pc = "done" /\ UNCHANGED vars

Next ==
  \/ Enter \/ EnterRows \/ LeaveRows
  \/ Multiply \/ StorePrevious
  \/ PrefetchA \/ PrefetchNextColumn \/ PrefetchNothing
  \/ NextColumn
  \/ Terminating

-----------------------------------------------------------------------------
(* Properties.                                                             *)

\* Every variable holds what the code can put there.
TypeOK ==
  /\ shape \in Shapes /\ machine \in Machines
  /\ pc \in { "enter", "rows", "multiply", "store", "prefetch", "columns",
              "done" }
  /\ m0 \in 0 .. M /\ m0 % T = 0
  /\ n0 \in 0 .. N /\ n0 % T = 0
  /\ k0 \in 0 .. K /\ k0 % T = 0
  /\ k \in Blk
  /\ aTile \in [{ "mt0", "mt8" } ->
                  [Blk \X Blk -> { NoElement } \cup (0 .. M - 1) \X (0 .. K - 1)]]
  /\ DOMAIN cTile = { "mt4", "mt12" } /\ DOMAIN C = Pieces

(***************************************************************************)
(* The double buffering of A: whatever is being prefetched, the column of  *)
(* A about to be multiplied is still in the tile register it is read from. *)
(***************************************************************************)
OperandInTile ==
  pc = "multiply" =>
    \A r \in Blk : aTile[ATile][<< k, r >>] = << m0 + r, k0 + k >>

(***************************************************************************)
(* The double buffering of C: a step in which a finished row leaves its    *)
(* tile register finds it stored.                                          *)
(***************************************************************************)
Finished(row) == Len(row.sum) = K

FinishedRowsStored ==
  \A t \in { "mt4", "mt12" }, r \in Blk :
    K > 0 /\ Finished(cTile[t][r]) /\ cTile'[t][r] # cTile[t][r]
    => C[cTile[t][r].from] = cTile[t][r]
=============================================================================
