-------------------------------- MODULE Hist --------------------------------
(***************************************************************************)
(* The histogram kernels of bench/hist.S.  Element i belongs to bin        *)
(* min(dist[i], Last), dist being the truncated distance of a point from   *)
(* the origin, and the caller reads the bins below Last.                   *)
(*                                                                         *)
(*   no_conflict  counts a register group with one gather and one scatter  *)
(*   slidedown    counts the elements of a group one by one                *)
(*   dup_m1, dup_m2, dup_m4                                                *)
(*                keep one counter per bin and lane, so that the lanes of a*)
(*                scatter never meet, and add the lanes up at the end, in  *)
(*                place                                                    *)
(*                                                                         *)
(* The counter of bin b and lane l of the dup kernels is cell              *)
(* b * Lanes + l of hist, the counter of bin b of the others is cell b.    *)
(***************************************************************************)
EXTENDS Vsetvl, FiniteSets, Functions

CONSTANTS
  Variants,    \* the kernels that are called
  Lanes,       \* 32-bit elements of one vector register; a power of two in
               \* every processor, so that x & (Lanes-1) is x % Lanes
  GroupLanes,  \* elements of the register groups of the first two kernels
  Last,        \* 100: what distances from there on are counted as
  MaxLen       \* bound on the number of elements

DupVariants == { "dup_m1", "dup_m2", "dup_m4" }

VARIABLES
  variant,  \* the kernel that was called
  dist,     \* the distances, before they are clamped
  pc,
  pos,      \* elements before the chunk in the registers
  n,        \* a3: elements from pos on
  vl,       \* elements of the chunk
  reg,      \* registers of the chunk that are done (dup), or elements
            \* of it (slidedown: a4)
  row,      \* bins the final loop has added up
  hist      \* the counters

vars == << variant, dist, pc, pos, n, vl, reg, row, hist >>

Cells == 0 .. (Last + 2) * Lanes - 1

Init ==
  /\ variant \in Variants
  /\ \E len \in 0 .. MaxLen : dist \in [0 .. len - 1 -> 0 .. Last + 1]
  /\ pc = "entry"
  /\ pos = 0 /\ vl = 0 /\ reg = 0 /\ row = 0
  /\ n = Cardinality(DOMAIN dist)
  /\ hist = [c \in Cells |-> 0]

-----------------------------------------------------------------------------
\* vminu.vx
Bin(i) == IF dist[i] > Last THEN Last ELSE dist[i]

Registers == CASE variant = "dup_m1" -> 1
               [] variant = "dup_m2" -> 2
               [] variant = "dup_m4" -> 4

Group == IF variant \in DupVariants THEN Registers * Lanes ELSE GroupLanes

\* mutant: every lane counts in the first counter of the bin
SharedCounter(l) == 0

(***************************************************************************)
(* vid.v, vand.vx: what element l of a group adds to the cell number.  m1  *)
(* and m2 mask with Lanes - 1; m4 computes that mask into a5, and then     *)
(* masks with t1, which is Lanes.                                          *)
(***************************************************************************)
LaneOffset(l) ==
  IF variant = "dup_m4" THEN IF (l \div Lanes) % 2 = 1 THEN Lanes ELSE 0
                        ELSE l % Lanes

\* the cell element l of the chunk is counted in
Cell(l) == IF variant \in DupVariants
             THEN Bin(pos + l) * Lanes + LaneOffset(l)
             ELSE Bin(pos + l)

\* mutant: the gather is left out
SetToOne(ls) ==
  [c \in Cells |-> IF \E l \in ls : Cell(l) = c THEN 1 ELSE hist[c]]

(***************************************************************************)
(* vluxei32.v, vadd.vi, vsuxei32.v: the elements ls read their counters,   *)
(* and then write them; those that read the same one write the same value. *)
(***************************************************************************)
Incremented(ls) ==
  [c \in Cells |-> IF \E l \in ls : Cell(l) = c THEN hist[c] + 1 ELSE hist[c]]

\* the elements of the chunk in register r of the group
InRegister(r) == { l \in 0 .. vl - 1 : l \div Lanes = r }

-----------------------------------------------------------------------------
\* beqz a3: the dup kernels go straight to the final loop
EnterEmpty ==
  /\ pc = "entry" /\ n = 0 /\ variant \in DupVariants
  /\ pc' = "reduce"
  /\ UNCHANGED << variant, dist, pos, n, vl, reg, row, hist >>

\* vsetvli at the head of the loop
NextChunk ==
  /\ \/ pc = "entry" /\ (n > 0 \/ variant \notin DupVariants)
     \/ pc = "more" /\ n > 0
  /\ vl' \in LegalVl(n, Group)
  /\ reg' = 0
  /\ pc' = IF vl' = 0 /\ variant = "slidedown" THEN "next" ELSE "count"
  /\ UNCHANGED << variant, dist, pos, n, row, hist >>

CountGroup ==
  /\ pc = "count" /\ variant = "no_conflict"
  /\ hist' = Incremented(0 .. vl - 1)
  /\ pc' = "next"
  /\ UNCHANGED << variant, dist, pos, n, vl, reg, row >>

\* vslidedown.vx, vmv.x.s, lw, addi, sw
CountElement ==
  /\ pc = "count" /\ variant = "slidedown"
  /\ hist' = Incremented({ reg })
  /\ reg' = reg + 1
  /\ pc' = IF reg' = vl THEN "next" ELSE "count"
  /\ UNCHANGED << variant, dist, pos, n, vl, row >>

CountRegister ==
  /\ pc = "count" /\ variant \in DupVariants
  /\ hist' = Incremented(InRegister(reg))
  /\ reg' = reg + 1
  /\ pc' = IF reg' = Registers THEN "next" ELSE "count"
  /\ UNCHANGED << variant, dist, pos, n, vl, row >>

\* mutant: the pointers advance by a full group whatever vl is
AdvanceGroup == Group

\* what a1 and a2 advance by
Advance == vl

\* the pointer updates at the end of the loop; the chunk is done with
Advanced ==
  /\ pc = "next"
  /\ pos' = pos + Advance
  /\ n' = n - vl
  /\ vl' = 0 /\ reg' = 0
  /\ pc' = "more"
  /\ UNCHANGED << variant, dist, row, hist >>

\* bnez a3 not taken
LeaveLoop ==
  /\ pc = "more" /\ n = 0
  /\ pc' = IF variant \in DupVariants THEN "reduce" ELSE "done"
  /\ UNCHANGED << variant, dist, pos, n, vl, reg, row, hist >>

\* the counters of bin b
CountersOf(b) == b * Lanes .. b * Lanes + Lanes - 1

\* mutant: the sum goes to the bin's own first counter
ReducedTo0(b) == b * Lanes

\* where the final loop puts the sum of bin b
ReducedTo(b) == b

\* vle32.v, vredsum.vs and the store of the sum
Reduce ==
  /\ pc = "reduce"
  /\ hist' = [hist EXCEPT ![ReducedTo(row)] =
                SumFunctionOnSet(hist, CountersOf(row))]
  /\ row' = row + 1
  /\ pc' = IF row' = Last THEN "done" ELSE "reduce"
  /\ UNCHANGED << variant, dist, pos, n, vl, reg >>

Terminating == pc = "done" /\ UNCHANGED vars

Next ==
  \/ EnterEmpty \/ NextChunk
  \/ CountGroup \/ CountElement \/ CountRegister
  \/ Advanced \/ LeaveLoop \/ Reduce
  \/ Terminating

-----------------------------------------------------------------------------
(* Properties.                                                             *)

\* Every variable holds what the code can put there.
TypeOK ==
  /\ variant \in Variants
  /\ dist \in UNION { [0 .. len - 1 -> 0 .. Last + 1] : len \in 0 .. MaxLen }
  /\ pc \in { "entry", "count", "next", "more", "reduce", "done" }
  /\ n \in 0 .. MaxLen /\ pos + n = Cardinality(DOMAIN dist)
  /\ vl \in 0 .. n /\ reg \in 0 .. vl + 4 /\ row \in 0 .. Last
  /\ hist \in [Cells -> 0 .. MaxLen]

(***************************************************************************)
(* Why the dup kernels keep a counter for every lane: no two lanes of one  *)
(* scatter write the same counter, so that none of them is lost.           *)
(***************************************************************************)
LanesApart ==
  pc = "count" /\ variant \in DupVariants =>
    \A l, k \in InRegister(reg) : l # k => Cell(l) # Cell(k)

\* elements that are counted, in the middle of a chunk too
Taken == pos + CASE pc = "count" /\ variant = "no_conflict" -> 0
                 [] pc = "count" /\ variant = "slidedown" -> reg
                 [] pc = "count" /\ variant \in DupVariants ->
                      IF reg * Lanes < vl THEN reg * Lanes ELSE vl
                 [] OTHER -> vl

\* bin b, wherever its counters are at the moment
Count(b) == IF variant \in DupVariants /\ b >= row
              THEN SumFunctionOnSet(hist, CountersOf(b))
              ELSE hist[b]

BinOf  == [i \in DOMAIN dist |-> Bin(i)]
Counts == [b \in 0 .. Last - 1 |-> Count(b)]

\* hist_scalar: the histogram of the first k elements
Exact(k) == [b \in 0 .. Last - 1 |-> Cardinality({ i \in 0 .. k - 1 : Bin(i) = b })]

(***************************************************************************)
(* What bench.h compares the kernels by: the counts are those of           *)
(* hist_scalar (bench/hist.c) when the kernel returns.                     *)
(***************************************************************************)
CountsAreExact ==
  pc = "done" => \A b \in 0 .. Last - 1 :
                   hist[b] = Exact(Cardinality(DOMAIN dist))[b]

(***************************************************************************)
(* "assumes no conflicts, which causes the wrong result" (hist.S:54), made *)
(* precise: conflicts lose counts and never add any, at least one element  *)
(* of a chunk is counted, and without two elements of a bin so close that  *)
(* they can meet in a chunk the result is right.                           *)
(***************************************************************************)
Close == \E i, j \in 0 .. Taken - 1 : i < j /\ j < i + Group /\ Bin(i) = Bin(j)

ConflictsOnlyLose ==
  variant = "no_conflict" =>
    \A b \in 0 .. Last - 1 :
      /\ hist[b] =< Exact(Taken)[b]
      /\ Exact(Taken)[b] =< hist[b] * Group
      /\ ~Close => hist[b] = Exact(Taken)[b]
=============================================================================
