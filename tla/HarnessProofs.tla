--------------------------- MODULE HarnessProofs ---------------------------
(***************************************************************************)
(* Proofs about the harness: for any kernels, sizes and samples, and for   *)
(* memory of every size.                                                   *)
(***************************************************************************)
EXTENDS Harness, Division, FiniteSetTheorems, WellFoundedInduction, SequenceTheorems, TLAPS

(***************************************************************************)
(* A step is a step on the level that was chosen, which stays the one.     *)
(***************************************************************************)
LEMMA SameLevel == [Next]_vars => level' = level
BY DEF Next, vars

-----------------------------------------------------------------------------
(* main and the bench functions: the buffers.                              *)

Names == Cut!Benchmarks([alloc |-> "malloc"])

\* What the bench functions cut with any n that is reached and any random
\* numbers lies in the first MAX_MEM + 21 bytes, and what is written apart
\* from what is read.
LEMMA Divided ==
  ASSUME NEW M \in Nat, M >= 4096, NEW bm \in Names,
         NEW k \in Nat, k < Cut!Limit(bm, M), NEW d \in Nat, NEW e \in Nat,
         NEW R \in Int, M + 21 =< R
  PROVE  /\ Cut!Inside(Cut!Dest(bm, M, k, d, e), R)
         /\ Cut!Inside(Cut!Source(bm, M, k, d, e), R)
         /\ Cut!Apart(Cut!Dest(bm, M, k, d, e), Cut!Source(bm, M, k, d, e))
<1>1. Cut!Low(d) \in 0 .. 255 /\ Cut!Low(e) \in 0 .. 255 /\ d % 512 \in 0 .. 511 /\ d % 511 \in 0 .. 510
  BY SMT DEF Cut!Low
<1>. USE DEF Cut!Inside, Cut!Apart, Cut!Buffer
<1>2. CASE bm = "memcpy"
  <2>1. k < Cut!Limit("memcpy", M)
    BY <1>2
  <2>2. PICK h \in Nat : h = M \div 2 /\ 2 * h =< M /\ k < h - 521
    BY <2>1 DEF Cut!Limit
  <2>3. PICK x \in 0 .. 255 : x = Cut!Low(d)
    BY <1>1
  <2>4. PICK y \in 0 .. 255 : y = Cut!Low(e)
    BY <1>1
  <2>5. Cut!Dest(bm, M, k, d, e) = Cut!Buffer(x, k + 9)
    BY <1>2, <2>3 DEF Cut!Dest
  <2>6. Cut!Source(bm, M, k, d, e) = Cut!Buffer(x + h + y + 9, k)
    BY <1>2, <2>2, <2>3, <2>4 DEF Cut!Source
  <2>. QED  BY <2>2, <2>5, <2>6
<1>3. CASE bm = "memset"
  <2>1. k < Cut!Limit("memset", M)
    BY <1>3
  <2>. QED  BY <1>1, <1>3, <2>1 DEF Cut!Dest, Cut!Source, Cut!Limit
<1>4. CASE bm = "strlen"
  <2>1. k < Cut!Limit("strlen", M)
    BY <1>4
  <2>. QED  BY <1>1, <1>4, <2>1 DEF Cut!Dest, Cut!Source, Cut!Limit
<1>5. CASE bm = "mergelines"
  <2>1. k < Cut!Limit("mergelines", M)
    BY <1>5
  <2>. QED  BY <1>1, <1>5, <2>1 DEF Cut!Dest, Cut!Source, Cut!Limit
<1>6. CASE bm = "hist"
  <2>1. k < Cut!Limit("hist", M)
    BY <1>6
  <2>. QED  BY <1>1, <1>6, <2>1 DEF Cut!Dest, Cut!Source, Cut!Limit
<1>7. CASE bm = "mandelbrot"
  <2>1. k < Cut!Limit("mandelbrot", M)
    BY <1>7
  <2>. QED  BY <1>1, <1>7, <2>1 DEF Cut!Dest, Cut!Source, Cut!Limit
<1>8. CASE bm = "chacha20"
  <2>1. k < Cut!Limit("chacha20", M)
    BY <1>8
  <2>. QED  BY <1>1, <1>8, <2>1 DEF Cut!Dest, Cut!Source, Cut!Limit
<1>9. CASE bm = "poly1305"
  <2>1. k < Cut!Limit("poly1305", M)
    BY <1>9
  <2>. QED  BY <1>1, <1>9, <2>1 DEF Cut!Dest, Cut!Source, Cut!Limit
<1>10. CASE bm = "ascii_to_utf16"
  <2>1. k < Cut!Limit("ascii_to_utf16", M)
    BY <1>10
  <2>2. /\ M \div 3 \in Nat /\ 3 * (M \div 3) =< M /\ k < M \div 3 - 530
        /\ Cut!Low(d) \div 2 \in Nat /\ 2 * (Cut!Low(d) \div 2) =< Cut!Low(d)
    BY <1>1, <2>1 DEF Cut!Limit
  <2>3. Cut!Dest(bm, M, k, d, e) = Cut!Buffer(2 * (Cut!Low(d) \div 2), 2 * (k + 9))
    BY <1>10 DEF Cut!Dest
  <2>4. Cut!Source(bm, M, k, d, e) = 
          Cut!Buffer(2 * (Cut!Low(d) \div 2) + 2 * (9 + M \div 3) + Cut!Low(e), k + 9)
    BY <1>10 DEF Cut!Source
  <2>5. Cut!Inside(Cut!Dest(bm, M, k, d, e), R)
    BY <1>1, <2>2, <2>3
  <2>6. Cut!Inside(Cut!Source(bm, M, k, d, e), R)
    BY <1>1, <2>2, <2>4
  <2>7. Cut!Apart(Cut!Dest(bm, M, k, d, e), Cut!Source(bm, M, k, d, e))
    BY <1>1, <2>2, <2>3, <2>4
  <2>. QED  BY <2>5, <2>6, <2>7
<1>11. CASE bm = "ascii_to_utf32"
  <2>1. k < Cut!Limit("ascii_to_utf32", M)
    BY <1>11
  <2>2. /\ M \div 5 \in Nat /\ 5 * (M \div 5) =< M /\ k < M \div 5 - 530
        /\ Cut!Low(d) \div 4 \in Nat /\ 4 * (Cut!Low(d) \div 4) =< 252
    BY <1>1, <2>1 DEF Cut!Limit
  <2>3. Cut!Dest(bm, M, k, d, e) = Cut!Buffer(4 * (Cut!Low(d) \div 4), 4 * (k + 9))
    BY <1>11 DEF Cut!Dest
  <2>4. Cut!Source(bm, M, k, d, e) = 
          Cut!Buffer(4 * (Cut!Low(d) \div 4) + 4 * (9 + M \div 5) + Cut!Low(e), k + 9)
    BY <1>11 DEF Cut!Source
  <2>5. Cut!Inside(Cut!Dest(bm, M, k, d, e), R)
    BY <1>1, <2>2, <2>3
  <2>6. Cut!Inside(Cut!Source(bm, M, k, d, e), R)
    BY <1>1, <2>2, <2>4
  <2>7. Cut!Apart(Cut!Dest(bm, M, k, d, e), Cut!Source(bm, M, k, d, e))
    BY <1>1, <2>2, <2>3, <2>4
  <2>. QED  BY <2>5, <2>6, <2>7
<1>12. CASE bm = "base64"
  <2>1. k < Cut!Limit("base64", M)
    BY <1>12
  <2>. QED  BY <1>1, <1>12, <2>1 DEF Cut!Dest, Cut!Source, Cut!Limit
<1>13. CASE bm = "byteswap32"
  <2>1. k < Cut!Limit("byteswap32", M)
    BY <1>13
  <2>. QED  BY <1>1, <1>13, <2>1 DEF Cut!Dest, Cut!Source, Cut!Limit
<1>14. CASE bm = "LUT"
  <2>1. k < Cut!Limit("LUT", M)
    BY <1>14
  <2>. QED  BY <1>1, <1>14, <2>1 DEF Cut!Dest, Cut!Source, Cut!Limit
<1>15. CASE bm = "trans8x8e8"
  <2>1. k < Cut!Limit("trans8x8e8", M)
    BY <1>15
  <2>. QED  BY <1>1, <1>15, <2>1 DEF Cut!Dest, Cut!Source, Cut!Limit
<1>16. CASE bm = "trans8x8e16"
  <2>1. k < Cut!Limit("trans8x8e16", M)
    BY <1>16
  <2>. QED  BY <1>1, <1>16, <2>1 DEF Cut!Dest, Cut!Source, Cut!Limit
<1>. QED
  BY <1>2, <1>3, <1>4, <1>5, <1>6, <1>7, <1>8, <1>9, <1>10, <1>11, <1>12, <1>13, <1>14, <1>15, <1>16
  DEF Names, Cut!Benchmarks

(***************************************************************************)
(* What BuffersInside has, but that buffers may reach 21 bytes beyond      *)
(* MAX_MEM, which are not there for every address of the block.            *)
(***************************************************************************)
Near ==
  /\ pc # "allocate" => program.max =< sum    \* bench_memrand(mem, MAX_MEM)
  /\ pc = "called" /\ program.alloc # "vlm" =>
       /\ Cut!Inside(Cut!Dest(mem, program.max, i, arr[1], arr[2]), program.max + 21)
       /\ Cut!Inside(Cut!Source(mem, program.max, i, arr[1], arr[2]), program.max + 21)
       /\ Cut!Apart(Cut!Dest(mem, program.max, i, arr[1], arr[2]),
                    Cut!Source(mem, program.max, i, arr[1], arr[2]))

BuffersNear == level = "layout" => Near

\* a benchmark runs with an n of its loop
Looping ==
  /\ pc \in { "allocate", "run", "call", "called", "done" }
  /\ pc # "allocate" => /\ program.max =< sum /\ sum \in Nat
                        /\ program.alloc = "vlm" => sum = program.max
  /\ i \in Nat /\ arr \in Nat \X Nat
  /\ pc \in { "call", "called" } /\ program.alloc # "vlm" =>
       mem \in Names /\ i < Cut!Limit(mem, program.max)

LoopInv == program \in Memories /\ Looping

LEMMA MemoryTypes ==
  ASSUME program \in Memories
  PROVE  /\ program.alloc \in { "malloc", "static", "vlm" } /\ program.kind = "layout"
         /\ program.max \in Nat /\ program.max >= 4096 /\ program.growth \in Nat \ {0}
BY MemoriesAssumption

LEMMA InitLoops == program \in Memories /\ Cut!LayoutInit => LoopInv
BY DEF Cut!LayoutInit, LoopInv, Looping

\* What is left of z bytes from the next multiple of 4096 on.
LEMMA RoomLeft ==
  ASSUME NEW a \in 0 .. 4095, NEW z \in Nat, NEW M \in Nat, NEW left,
         left = z - (((a + 4096 - 1) \div 4096) * 4096 - a),
         (a = 0 /\ z = M) \/ z >= M + 4096
  PROVE  left \in Nat /\ M =< left /\ (a = 0 => left = z)
<1>1. (a + 4096 - 1) \div 4096 = IF a = 0 THEN 0 ELSE 1
  OBVIOUS
<1>. QED  BY <1>1

LEMMA StepLoops == LoopInv /\ [Cut!LayoutNext]_(Cut!lvars) => LoopInv'
<1>. SUFFICES ASSUME LoopInv, [Cut!LayoutNext]_(Cut!lvars)
              PROVE  LoopInv'
  OBVIOUS
<1>. USE DEF LoopInv, Looping
<1>1. program' = program
  BY DEF Cut!LayoutNext, Cut!Allocate, Cut!StartBench, Cut!Call, Cut!NextSize, Cut!lvars
<1>2. /\ program.alloc \in { "malloc", "static", "vlm" } /\ program.max \in Nat
      /\ program.growth \in Nat \ {0}
  BY MemoryTypes
<1>3. CASE Cut!Allocate
  <2>1. s' \in 0 .. 4095 /\ (program.alloc = "vlm" => s' = 0)
    BY <1>2, <1>3, AddressesAssumption DEF Cut!Allocate, Cut!Aligned
  <2>2. /\ Cut!BlockSize(program) \in Nat
        /\ IF program.alloc = "vlm" THEN Cut!BlockSize(program) = program.max
                                    ELSE Cut!BlockSize(program) >= program.max + 4096
    BY <1>2 DEF Cut!BlockSize, Cut!MEM_ALIGN
  <2>3. PICK a \in 0 .. 4095 : a = s'
    BY <2>1
  <2>4. /\ program.max =< sum' /\ sum' \in Nat
        /\ s' = 0 => sum' = Cut!BlockSize(program)
    <3>1. PICK z \in Nat : z = Cut!BlockSize(program)
      BY <2>2
    <3>2. sum' = z - (((a + 4096 - 1) \div 4096) * 4096 - a)
      BY <1>3, <2>3, <3>1 DEF Cut!Allocate, Cut!RoundedUp, Cut!MEM_ALIGN
    <3>3. PICK M \in Nat : M = program.max
      BY <1>2
    <3>4. (a = 0 /\ z = M) \/ z >= M + 4096
      BY <2>1, <2>2, <2>3, <3>1, <3>3
    <3>5. M =< sum' /\ sum' \in Nat /\ (a = 0 => sum' = z)
      BY ONLY <2>3, <3>1, <3>2, <3>3, <3>4, RoomLeft
    <3>. QED  BY ONLY <2>3, <3>1, <3>3, <3>5
  <2>5. program.alloc = "vlm" => sum' = program.max
    BY <2>1, <2>2, <2>4
  <2>6. pc' = "run" /\ i' = i /\ arr' = arr
    BY <1>3 DEF Cut!Allocate
  <2>. QED  BY ONLY <1>1, <2>4, <2>5, <2>6, LoopInv DEF LoopInv, Looping
<1>4. CASE Cut!StartBench
  <2>1. program.alloc # "vlm" => mem' \in Names
    BY <1>4 DEF Cut!StartBench, Cut!Benchmarks, Names
  <2>2. i' \in Nat
    BY <1>4 DEF Cut!StartBench
  <2>. QED  BY <1>1, <1>4, <2>1, <2>2 DEF Cut!StartBench, Cut!InLoop
<1>5. CASE Cut!Call
  <2>1. arr' \in Nat \X Nat
    <3>1. Displacements \subseteq Nat
      BY AddressesAssumption
    <3>. QED  BY <1>5, <3>1 DEF Cut!Call
  <2>. QED  BY <1>1, <1>5, <2>1 DEF Cut!Call
<1>6. CASE Cut!NextSize
  <2>1. i' \in Nat
    <3>1. i \div program.growth \in Nat
      BY <1>2, Quotient
    <3>. QED  BY <1>6, <3>1 DEF Cut!NextSize
  <2>. QED  BY <1>1, <1>6, <2>1 DEF Cut!NextSize, Cut!InLoop
<1>7. CASE UNCHANGED Cut!lvars
  BY <1>1, <1>7 DEF Cut!lvars
<1>. QED  BY <1>3, <1>4, <1>5, <1>6, <1>7 DEF Cut!LayoutNext

LEMMA CalledInside ==
  ASSUME LoopInv, pc = "called", program.alloc # "vlm", NEW R \in Int, program.max + 21 =< R
  PROVE  /\ Cut!Inside(Cut!Dest(mem, program.max, i, arr[1], arr[2]), R)
         /\ Cut!Inside(Cut!Source(mem, program.max, i, arr[1], arr[2]), R)
         /\ Cut!Apart(Cut!Dest(mem, program.max, i, arr[1], arr[2]),
                      Cut!Source(mem, program.max, i, arr[1], arr[2]))
<1>1. program.max \in Nat /\ program.max >= 4096
  BY MemoryTypes DEF LoopInv
<1>2. mem \in Names /\ i \in Nat /\ i < Cut!Limit(mem, program.max)
      /\ arr[1] \in Nat /\ arr[2] \in Nat
  BY DEF LoopInv, Looping
<1>. QED  BY <1>1, <1>2, Divided

LEMMA LoopsNear == LoopInv => Near
<1>1. program \in Memories => program.max + 21 \in Int /\ program.max + 21 =< program.max + 21
  BY MemoryTypes
<1>. QED  BY <1>1, CalledInside DEF Near, LoopInv, Looping

LEMMA LayoutLoops == Spec => [](level = "layout" => LoopInv)
<1>1. Init => (level = "layout" => LoopInv)
  BY InitLoops DEF Init
<1>2. (level = "layout" => LoopInv) /\ [Next]_vars => (level = "layout" => LoopInv)'
  <2>. SUFFICES ASSUME level = "layout" => LoopInv, [Next]_vars, level' = "layout"
                PROVE  LoopInv'
    OBVIOUS
  <2>1. level = "layout"
    BY SameLevel
  <2>2. [Cut!LayoutNext]_(Cut!lvars)
    BY <2>1 DEF Next, vars, timeVars, Cut!lvars
  <2>. QED  BY <2>1, <2>2, StepLoops
<1>. QED  BY <1>1, <1>2, PTL DEF Spec

(***************************************************************************)
(* For every MAX_MEM that config.h allows ("minimum of 4096"), every NEXT, *)
(* every address of the block and all random numbers: MAX_MEM bytes are    *)
(* there, and the buffers lie in the first MAX_MEM + 21 bytes, none that   *)
(* is written in one that is read.                                         *)
(***************************************************************************)
THEOREM BuffersStayNear == Spec => []BuffersNear
<1>1. (level = "layout" => LoopInv) => BuffersNear
  BY LoopsNear DEF BuffersNear
<1>. QED  BY <1>1, LayoutLoops, PTL

(***************************************************************************)
(* So where the block has as many bytes behind MAX_MEM, which is for all   *)
(* its addresses but a few, the buffers are inside.  The run has in        *)
(* addition that for its MAX_MEM and NEXT the other addresses will do, and *)
(* that the matrices in vlm, which has no byte more, do.                   *)
(***************************************************************************)
THEOREM BuffersStayInside == Spec => [](level = "layout" /\ program.max + 21 =< sum => BuffersInside)
<1>1. (level = "layout" => LoopInv) =>
        (level = "layout" /\ program.max + 21 =< sum => BuffersInside)
  <2>. SUFFICES ASSUME LoopInv, program.max + 21 =< sum PROVE Cut!BuffersInside
    BY DEF BuffersInside
  <2>1. program.max \in Nat
    BY MemoryTypes DEF LoopInv
  <2>2. pc # "allocate" => program.max =< sum /\ sum \in Nat
    BY DEF LoopInv, Looping
  <2>3. pc = "called" => program.alloc # "vlm"
    BY <2>1, <2>2 DEF LoopInv, Looping
  <2>. QED  BY <2>2, <2>3, CalledInside DEF Cut!BuffersInside
<1>. QED  BY <1>1, LayoutLoops, PTL

-----------------------------------------------------------------------------
(* bench_run: the comparison.                                              *)

LEMMA SmallestOf ==
  ASSUME NEW S \in SUBSET Nat, S # {}
  PROVE  \E x \in S : \A y \in S : x =< y
<1>1. \E x \in S : \A y \in S : ~ (<< y, x >> \in OpToRel(<, Nat))
  BY NatLessThanWellFounded, WFMin
<1>2. \A x, y \in Nat : (<< y, x >> \in OpToRel(<, Nat)) <=> y < x
  BY DEF OpToRel
<1>3. PICK x \in S : \A y \in S : ~ (<< y, x >> \in OpToRel(<, Nat))
  BY <1>1
<1>4. \A y \in S : ~ (y < x)
  BY <1>2, <1>3
<1>. QED  BY <1>4

\* The first k numbers of q have a bound.
LEMMA Bounded ==
  ASSUME NEW q \in Seq(Nat)
  PROVE  \E u \in Nat : \A j \in DOMAIN q : q[j] =< u
<1>1. Len(q) \in Nat /\ DOMAIN q = 1 .. Len(q) /\ \A m \in DOMAIN q : q[m] \in Nat
  OBVIOUS
<1>. DEFINE Bound(k, u) == \A j \in 1 .. k : q[j] =< u
            S == { k \in 0 .. Len(q) : \A u \in Nat : ~Bound(k, u) }
<1>2. \A k \in 0 .. Len(q) : k \in S \/ \E u \in Nat : Bound(k, u)
  OBVIOUS
<1>3. \A k \in S : k \in 0 .. Len(q) /\ \A u \in Nat : ~Bound(k, u)
  OBVIOUS
<1>4. S \in SUBSET Nat
  OBVIOUS
<1>. HIDE DEF S
<1>5. ASSUME S # {} PROVE FALSE
  <2>1. PICK k \in S : \A y \in S : k =< y
    BY <1>4, <1>5, SmallestOf
  <2>2. k \in 0 .. Len(q)
    BY <1>3, <2>1
  <2>3. \A u \in Nat : ~Bound(k, u)
    BY <1>3, <2>1
  <2>4. k # 0
    BY <2>3
  <2>5. k - 1 \in 0 .. Len(q) /\ k \in DOMAIN q /\ k - 1 < k
    BY <1>1, <2>2, <2>4
  <2>. HIDE DEF Bound
  <2>6. PICK u \in Nat : Bound(k - 1, u)
    BY <1>2, <1>4, <2>1, <2>5
  <2>7. PICK v \in Nat : v = q[k]
    BY <1>1, <2>5
  <2>8. PICK w \in Nat : w = u + v
    BY ONLY <2>6, <2>7
  <2>9. Bound(k, w)
    <3>. USE DEF Bound
    <3>. SUFFICES ASSUME NEW j \in 1 .. k PROVE q[j] =< w
      OBVIOUS
    <3>1. CASE j = k
      BY <2>6, <2>7, <2>8, <3>1
    <3>2. CASE j # k
      <4>1. j \in 1 .. k - 1 /\ j \in DOMAIN q
        BY <1>1, <2>2, <3>2
      <4>2. PICK m \in Nat : m = q[j]
        BY <1>1, <4>1
      <4>3. m =< u
        BY <2>6, <4>1, <4>2
      <4>. QED  BY <2>6, <2>7, <2>8, <4>2, <4>3
    <3>. QED  BY <3>1, <3>2
  <2>. QED  BY <2>3, <2>9
<1>6. Len(q) \in 0 .. Len(q) /\ Len(q) \notin S
  BY <1>1, <1>5
<1>7. \E u \in Nat : Bound(Len(q), u)
  <2>. HIDE DEF Bound
  <2>. QED  BY <1>2, <1>6
<1>. QED  BY <1>1, <1>7

\* All sizes fit in the memory of the model.
LEMMA SizesFit ==
  ASSUME NEW j \in DOMAIN Sizes
  PROVE  Sizes[j] \in Nat \ {0} /\ Run!MaxN \in Nat /\ Sizes[j] =< Run!MaxN
<1>. DEFINE Values == { Sizes[k] : k \in DOMAIN Sizes }
            S == { u \in Nat : \A k \in DOMAIN Sizes : Sizes[k] =< u }
<1>1. \A k \in DOMAIN Sizes : Sizes[k] \in Nat \ {0}
  BY SizesAssumption
<1>2. S # {}
  <2>1. Sizes \in Seq(Nat)
    BY SizesAssumption
  <2>. QED  BY <2>1, Bounded
<1>3. PICK u \in S : \A y \in S : u =< y
  <2>1. S \in SUBSET Nat
    OBVIOUS
  <2>. HIDE DEF S
  <2>. QED  BY <1>2, <2>1, SmallestOf
<1>4. u \in Nat /\ \A k \in DOMAIN Sizes : Sizes[k] =< u
  BY <1>3
<1>5. u \in Values
  <2>. SUFFICES ASSUME u \notin Values PROVE FALSE
    OBVIOUS
  <2>1. u - 1 \in Nat
    BY <1>1, <1>4
  <2>2. \A k \in DOMAIN Sizes : Sizes[k] =< u - 1
    BY <1>1, <1>4
  <2>. QED  BY <1>3, <2>1, <2>2
<1>6. Run!MaxN = CHOOSE m \in Values : \A k \in DOMAIN Sizes : Sizes[k] =< m
  BY DEF Run!MaxN
<1>7. Run!MaxN \in Values /\ \A k \in DOMAIN Sizes : Sizes[k] =< Run!MaxN
  <2>. HIDE DEF Values
  <2>. QED  BY <1>4, <1>5, <1>6
<1>. QED  BY <1>1, <1>7

\* The first kernel of a benchmark, with which the others are compared, is right.
ReferencesRight ==
  \A p \in Programs : p.impls[1].wrong = {} /\ ~p.impls[1].over

\* what checksum is computed from after kernel f has run from random state r on
Expected(f, r) ==
  IF program.kind = "copy"
    THEN [c \in 0 .. Run!n + Guard - 1 |->
            IF c \in Run!Written(f) THEN Run!Made(f, r, c) ELSE << "clear" >>]
    ELSE [c \in 0 .. Run!n - 1 |-> Run!Made(f, r, c)]

RunTypes ==
  /\ program \in Programs /\ rand \in Nat /\ seed \in Nat
  /\ mem = [c \in Run!Cells |-> mem[c]]
  /\ i \in Nat \ {0} /\ s \in Nat \ {0}
  /\ pc \in { "reference", "compare", "time" } =>
       i =< Len(program.impls) /\ s =< Len(Sizes)

\* both results are those of the random state that was saved
SameInput ==
  /\ pc \in { "reference", "compare" } => si = Expected(Run!impl, seed)
  /\ pc = "compare" => s0 = Expected(program.impls[1], seed)

RunInv == RunTypes /\ SameInput

LEMMA KindOf == ASSUME program \in Programs PROVE program.kind \in { "copy", "fresh", "patch" }
BY ProgramsAssumption DEF Run!Kinds

\* The bytes of a result are among those of the model.
LEMMA ResultFits ==
  ASSUME s \in Nat \ {0}, s =< Len(Sizes)
  PROVE  /\ Run!n \in Nat \ {0} /\ Guard \in Nat \ {0}
         /\ 0 .. Run!n + Guard - 1 \subseteq Run!Cells /\ 0 .. Run!n - 1 \subseteq Run!Cells
<1>1. s \in DOMAIN Sizes
  BY SizesAssumption
<1>2. Sizes[s] \in Nat \ {0} /\ Run!MaxN \in Nat /\ Sizes[s] =< Run!MaxN
  BY <1>1, SizesFit
<1>3. Guard \in Nat \ {0}
  BY SizesAssumption
<1>. QED  BY <1>2, <1>3 DEF Run!n, Run!Cells

\* A call draws what it needs, and finds in memory what it would find again.
LEMMA CallKeepsInput ==
  ASSUME RunTypes, s =< Len(Sizes), NEW f, NEW r \in Nat, Run!Call(f, r),
         UNCHANGED << program, b, i, s >>, NEW c \in 0 .. Run!n - 1
  PROVE  Run!Operand(r, c)' = Run!Operand(r, c)
<1>1. Run!n' = Run!n /\ Run!Draws' = Run!Draws /\ program' = program
  BY DEF Run!n, Run!Draws
<1>2. program.kind \in { "copy", "fresh", "patch" }
  BY KindOf DEF RunTypes
<1>3. CASE program.kind = "copy"
  BY <1>1, <1>3 DEF Run!Operand
<1>4. Run!n \in Nat \ {0} /\ c \in Run!Cells
  BY ResultFits DEF RunTypes
<1>5. CASE program.kind = "fresh"
  <2>1. Run!Prepared(r)[c] = Run!Random(r + c)
    BY <1>4, <1>5 DEF Run!Prepared
  <2>2. (Run!Prepared(r)[c])' = Run!Random(r + c)
    BY <1>1, <1>4, <1>5 DEF Run!Prepared, Run!Random
  <2>. QED  BY <1>1, <1>5, <2>1, <2>2 DEF Run!Operand
<1>6. CASE program.kind = "patch"
  <2>1. mem' = [mem EXCEPT ![r % Run!n] = Run!Random(r + 1)]
    BY <1>6 DEF Run!Call, Run!Prepared
  <2>2. Run!Prepared(r)' = [mem' EXCEPT ![r % Run!n] = Run!Random(r + 1)]
    BY <1>1, <1>6 DEF Run!Prepared, Run!Random
  <2>3. (Run!Prepared(r)')[c] = mem'[c]
    BY <1>4, <2>1, <2>2 DEF RunTypes
  <2>4. Run!Prepared(r)[c] = mem'[c]
    BY <1>6, <2>1 DEF Run!Prepared
  <2>. QED  BY <1>1, <1>6, <2>3, <2>4 DEF Run!Operand
<1>. QED  BY <1>2, <1>3, <1>5, <1>6

LEMMA CallKeepsExpected ==
  ASSUME RunTypes, s =< Len(Sizes), NEW f, NEW r \in Nat, Run!Call(f, r),
         UNCHANGED << program, b, i, s >>, NEW g
  PROVE  Expected(g, r)' = Expected(g, r)
<1>1. Run!n' = Run!n /\ program' = program /\ Run!n \in Nat \ {0}
  BY ResultFits DEF Run!n, RunTypes
<1>2. \A c \in 0 .. Run!n - 1 : Run!Operand(r, c)' = Run!Operand(r, c)
  BY CallKeepsInput
<1>3. Run!Written(g)' = Run!Written(g)
  BY <1>1 DEF Run!Written
<1>4. ASSUME NEW c \in Nat PROVE Run!Made(g, r, c)' = Run!Made(g, r, c)
  BY <1>1, <1>2 DEF Run!Made
<1>. QED  BY <1>1, <1>3, <1>4, SizesAssumption DEF Expected

LEMMA CallChecksum ==
  ASSUME RunTypes, s =< Len(Sizes), NEW f, NEW r \in Nat, Run!Call(f, r),
         UNCHANGED << program, b, i, s >>
  PROVE  /\ Run!Checksum = Expected(f, r)'
         /\ mem' = [c \in Run!Cells |-> mem'[c]] /\ rand' \in Nat
<1>1. Run!n \in Nat \ {0} /\ Guard \in Nat \ {0}
      /\ 0 .. Run!n + Guard - 1 \subseteq Run!Cells /\ 0 .. Run!n - 1 \subseteq Run!Cells
  BY ResultFits DEF RunTypes
<1>2. program.kind \in { "copy", "fresh", "patch" }
  BY KindOf DEF RunTypes
<1>3. Expected(f, r)' = Expected(f, r)
  BY CallKeepsExpected
<1>4. rand' \in Nat
  <2>1. Run!Draws \in Nat
    BY <1>1, <1>2 DEF Run!Draws
  <2>. QED  BY <2>1 DEF Run!Call
<1>5. CASE program.kind = "copy"
  <2>1. mem' = [c \in Run!Cells |-> IF c \in Run!Written(f) THEN Run!Made(f, r, c)
                                                           ELSE Run!Prepared(r)[c]]
    BY <1>5 DEF Run!Call
  <2>2. ASSUME NEW c \in 0 .. Run!n + Guard - 1
        PROVE  mem'[c] = IF c \in Run!Written(f) THEN Run!Made(f, r, c) ELSE << "clear" >>
    <3>1. c \in Run!Cells /\ c < Run!n + Guard
      BY <1>1
    <3>2. Run!Prepared(r)[c] = << "clear" >>
      BY <1>5, <3>1 DEF Run!Prepared
    <3>. QED  BY <2>1, <3>1, <3>2
  <2>3. Run!Checksum = [c \in 0 .. Run!n + Guard - 1 |-> mem'[c]]
    BY <1>5 DEF Run!Checksum
  <2>4. Run!Checksum = Expected(f, r)
    BY <1>5, <2>2, <2>3 DEF Expected
  <2>. QED  BY <1>3, <1>4, <2>1, <2>4
<1>6. CASE program.kind = "fresh"
  <2>1. mem' = [c \in Run!Cells |-> IF c \in Run!Written(f) THEN Run!Made(f, r, c)
                                                           ELSE Run!Prepared(r)[c]]
    BY <1>6 DEF Run!Call
  <2>2. ASSUME NEW c \in 0 .. Run!n - 1
        PROVE  mem'[c] = Run!Made(f, r, c)
    <3>1. c \in Run!Cells /\ c \in Run!Written(f)
      BY <1>1 DEF Run!Written
    <3>. QED  BY <2>1, <3>1
  <2>3. Run!Checksum = [c \in 0 .. Run!n - 1 |-> mem'[c]]
    BY <1>6 DEF Run!Checksum
  <2>4. Run!Checksum = Expected(f, r)
    BY <1>6, <2>2, <2>3 DEF Expected
  <2>. QED  BY <1>3, <1>4, <2>1, <2>4
<1>7. CASE program.kind = "patch"
  <2>1. Run!Checksum = Expected(f, r)
    BY <1>7 DEF Run!Call, Run!Checksum, Expected
  <2>2. mem' = [c \in Run!Cells |-> mem'[c]]
    BY <1>7 DEF Run!Call, Run!Prepared, RunTypes
  <2>. QED  BY <1>3, <1>4, <2>1, <2>2
<1>. QED  BY <1>2, <1>5, <1>6, <1>7

LEMMA InitCompared == Run!Init => RunInv
BY DEF Run!Init, RunInv, RunTypes, SameInput

LEMMA StepCompared == RunInv /\ [Run!Next]_(Run!vars) => RunInv'
<1>. SUFFICES ASSUME RunInv, [Run!Next]_(Run!vars) PROVE RunInv'
  OBVIOUS
<1>1. RunTypes /\ SameInput
  BY DEF RunInv
<1>2. program \in Programs /\ program.impls \in Seq(Run!Kernels) /\ Len(program.impls) \in Nat
      /\ Len(Sizes) \in Nat
  BY <1>1, ProgramsAssumption, SizesAssumption DEF RunTypes
<1>3. CASE Run!RunKernel
  <2>1. PICK r \in Nat : r = rand
    BY <1>1 DEF RunTypes
  <2>0. PICK f : f = Run!impl
    OBVIOUS
  <2>2. /\ Run!Call(f, r) /\ UNCHANGED << program, b, i, s >>
        /\ seed' = r /\ si' = Run!Checksum /\ pc' = "reference" /\ Run!impl' = f
        /\ i =< Len(program.impls) /\ s =< Len(Sizes)
    BY <2>0, <1>3, <2>1 DEF Run!RunKernel, Run!AtCell, Run!impl
  <2>3. /\ Run!Checksum = Expected(f, r)'
        /\ mem' = [c \in Run!Cells |-> mem'[c]] /\ rand' \in Nat
    BY <1>1, <2>1, <2>2, CallChecksum
  <2>4. SameInput'
    BY <2>0, <2>2, <2>3 DEF SameInput
  <2>5. RunTypes'
    BY <1>1, <2>1, <2>2, <2>3 DEF RunTypes
  <2>. QED  BY <2>4, <2>5 DEF RunInv
<1>4. CASE Run!RunReference
  <2>1. PICK r \in Nat : r = seed
    BY <1>1 DEF RunTypes
  <2>0. PICK f : f = program.impls[1]
    OBVIOUS
  <2>2. /\ Run!Call(f, r) /\ UNCHANGED << program, b, i, s >>
        /\ seed' = r /\ si' = si /\ s0' = Run!Checksum /\ pc' = "compare"
        /\ Run!impl' = Run!impl /\ program'.impls[1] = f
        /\ i =< Len(program.impls) /\ s =< Len(Sizes) /\ si = Expected(Run!impl, seed)
    BY <2>0, <1>1, <1>4, <2>1 DEF Run!RunReference, Run!Restored, Run!impl, RunTypes, SameInput
  <2>3. /\ Run!Checksum = Expected(f, r)'
        /\ mem' = [c \in Run!Cells |-> mem'[c]] /\ rand' \in Nat
    BY <1>1, <2>1, <2>2, CallChecksum
  <2>4. PICK g : g = Run!impl
    OBVIOUS
  <2>5. Expected(g, r)' = Expected(g, r)
    BY <1>1, <2>1, <2>2, CallKeepsExpected
  <2>6. SameInput'
    BY <2>0, <2>1, <2>2, <2>3, <2>4, <2>5 DEF SameInput
  <2>7. RunTypes'
    BY <1>1, <2>1, <2>2, <2>3 DEF RunTypes
  <2>. QED  BY <2>6, <2>7 DEF RunInv
<1>5. CASE Run!Measure
  <2>1. PICK r \in Nat : r = rand
    BY <1>1 DEF RunTypes
  <2>0. PICK f : f = Run!impl
    OBVIOUS
  <2>2. /\ Run!Call(f, r) /\ UNCHANGED << program, b, i, s, seed, pc >> /\ pc = "time"
        /\ i =< Len(program.impls) /\ s =< Len(Sizes)
    BY <2>0, <1>1, <1>5, <2>1 DEF Run!Measure, RunTypes
  <2>3. mem' = [c \in Run!Cells |-> mem'[c]] /\ rand' \in Nat
    BY <1>1, <2>1, <2>2, CallChecksum
  <2>. QED  BY <1>1, <2>2, <2>3 DEF RunInv, RunTypes, SameInput
<1>6. CASE Run!Skip
  BY <1>1, <1>6 DEF Run!Skip, Run!AtCell, RunInv, RunTypes, SameInput
<1>7. CASE Run!Agree
  BY <1>1, <1>7 DEF Run!Agree, RunInv, RunTypes, SameInput
<1>8. CASE Run!StartBench \/ Run!NextBench \/ Run!NextRow \/ Run!Differ \/ Run!Report \/ Run!Finish
  BY <1>1, <1>8
  DEF Run!StartBench, Run!NextBench, Run!NextRow, Run!Differ, Run!Report, Run!Finish,
      RunInv, RunTypes, SameInput
<1>9. CASE UNCHANGED Run!vars
  <2>1. UNCHANGED << program, rand, mem, pc, b, i, s, seed, si, s0 >>
    BY <1>9 DEF Run!vars
  <2>2. Run!impl' = Run!impl /\ Run!n' = Run!n /\ Run!Draws' = Run!Draws
    BY <2>1 DEF Run!impl, Run!n, Run!Draws
  <2>3. ASSUME s =< Len(Sizes), NEW f, NEW r PROVE Expected(f, r)' = Expected(f, r)
    <3>0. Run!n \in Nat \ {0} /\ Guard \in Nat \ {0}
      BY <1>1, <2>3, ResultFits DEF RunTypes
    <3>1. Run!Prepared(r)' = Run!Prepared(r)
      BY <2>1, <2>2 DEF Run!Prepared, Run!Random
    <3>2. ASSUME NEW c PROVE Run!Made(f, r, c)' = Run!Made(f, r, c)
      <4>1. Run!Operand(r, c)' = Run!Operand(r, c)
        BY <2>1, <2>2, <3>1 DEF Run!Operand
      <4>. QED  BY <2>2, <4>1 DEF Run!Made
    <3>3. Run!Written(f)' = Run!Written(f)
      BY <2>2 DEF Run!Written
    <3>. QED  BY <2>1, <2>2, <3>0, <3>2, <3>3 DEF Expected
  <2>4. PICK f, g, r : f = Run!impl /\ g = program.impls[1] /\ r = seed
    OBVIOUS
  <2>5. SameInput'
    BY <1>1, <2>1, <2>2, <2>3, <2>4 DEF SameInput, RunTypes
  <2>6. RunTypes'
    BY <1>1, <2>1 DEF RunTypes
  <2>. QED  BY <2>5, <2>6 DEF RunInv
<1>. QED  BY <1>3, <1>4, <1>5, <1>6, <1>7, <1>8, <1>9 DEF Run!Next, Run!Terminating

\* A byte of one kernel's result is that of another's unless one of them is
\* wrong and the other is not.
LEMMA MadeEqual ==
  ASSUME NEW f, NEW g, NEW r, NEW c, (Run!n \in f.wrong) = (Run!n \in g.wrong)
  PROVE  Run!Made(f, r, c) = Run!Made(g, r, c)
BY DEF Run!Made

LEMMA MadeDifferent ==
  ASSUME NEW f, NEW g, NEW r, NEW c, c < Run!n, Run!n \in f.wrong, Run!n \notin g.wrong
  PROVE  Run!Made(f, r, c) # Run!Made(g, r, c)
<1>1. /\ Run!Made(f, r, c) = << "made", Run!n \in f.wrong, Run!Operand(r, c) >>
      /\ Run!Made(g, r, c) = << "made", Run!n \in g.wrong, Run!Operand(r, c) >>
  BY DEF Run!Made
<1>2. \A q, u, v : u # v => << "made", u, q >> # << "made", v, q >>
  OBVIOUS
<1>3. (Run!n \in f.wrong) # (Run!n \in g.wrong)
  OBVIOUS
<1>. QED  BY <1>1, <1>2, <1>3, Zenon

LEMMA ExpectedDiffer ==
  ASSUME RunTypes, s =< Len(Sizes), NEW r, NEW f, NEW g,
         f.over \in BOOLEAN, g.wrong = {}, ~g.over
  PROVE  (Expected(f, r) # Expected(g, r)) = Run!Detectable(program.kind, f, Run!n)
<1>1. Run!n \in Nat \ {0} /\ Guard \in Nat \ {0}
  BY ResultFits DEF RunTypes
<1>2. Run!Written(g) = 0 .. Run!n - 1
  BY <1>1 DEF Run!Written
<1>3. CASE Run!n \in f.wrong
  <2>1. Run!Made(f, r, 0) # Run!Made(g, r, 0)
    BY <1>1, <1>3, MadeDifferent
  <2>2. 0 \in Run!Written(f) /\ 0 \in Run!Written(g)
    BY <1>1 DEF Run!Written
  <2>3. Expected(f, r)[0] # Expected(g, r)[0]
    BY <1>1, <2>1, <2>2 DEF Expected
  <2>. QED  BY <1>3, <2>3 DEF Run!Detectable
<1>4. CASE Run!n \notin f.wrong
  <2>1. \A c : Run!Made(f, r, c) = Run!Made(g, r, c)
    BY <1>4, MadeEqual
  <2>2. CASE program.kind # "copy"
    <3>1. Expected(f, r) = Expected(g, r)
      BY <2>1, <2>2 DEF Expected
    <3>. QED  BY <1>4, <2>2, <3>1 DEF Run!Detectable
  <2>3. CASE program.kind = "copy" /\ ~f.over
    <3>1. Run!Written(f) = Run!Written(g)
      BY <2>3 DEF Run!Written
    <3>2. Expected(f, r) = Expected(g, r)
      BY <2>1, <2>3, <3>1 DEF Expected
    <3>. QED  BY <1>4, <2>3, <3>2 DEF Run!Detectable
  <2>4. CASE program.kind = "copy" /\ f.over
    <3>1. Run!n \in Run!Written(f) /\ Run!n \notin Run!Written(g) /\ Run!n \in 0 .. Run!n + Guard - 1
      BY <1>1, <1>2, <2>4 DEF Run!Written
    <3>2. Run!Made(f, r, Run!n) = << "beyond" >>
      BY <1>1 DEF Run!Made
    <3>3. Expected(f, r)[Run!n] # Expected(g, r)[Run!n]
      <4>1. Expected(f, r)[Run!n] = << "beyond" >> /\ Expected(g, r)[Run!n] = << "clear" >>
        BY <2>4, <3>1, <3>2 DEF Expected
      <4>. QED  BY <4>1
    <3>. QED  BY <2>4, <3>3 DEF Run!Detectable
  <2>. QED  BY <2>2, <2>3, <2>4
<1>. QED  BY <1>3, <1>4

LEMMA ComparedExactly == ReferencesRight /\ RunInv => Run!ComparisonExact
<1>. SUFFICES ASSUME ReferencesRight, RunInv, pc = "compare"
              PROVE  (si # s0) = Run!Detectable(program.kind, Run!impl, Run!n)
  BY DEF Run!ComparisonExact
<1>1. RunTypes /\ s =< Len(Sizes) /\ i \in Nat \ {0} /\ i =< Len(program.impls)
      /\ si = Expected(Run!impl, seed) /\ s0 = Expected(program.impls[1], seed)
      /\ program \in Programs
  BY DEF RunInv, RunTypes, SameInput
<1>2. program.impls[1].wrong = {} /\ ~program.impls[1].over
  BY <1>1 DEF ReferencesRight
<1>3. Run!impl.over \in BOOLEAN
  <2>1. program.impls \in Seq(Run!Kernels)
    BY <1>1, ProgramsAssumption
  <2>2. program.impls[i] \in Run!Kernels
    BY <1>1, <2>1
  <2>. QED  BY <2>2 DEF Run!impl, Run!Kernels
<1>. QED  BY <1>1, <1>2, <1>3, ExpectedDiffer

(***************************************************************************)
(* Whatever sizes, numbers of repetitions and kernels there are: where the *)
(* first kernel is right, a kernel is reported if and only if checksum can *)
(* tell what it did from what is right, although both run on memory that   *)
(* other calls have written and on a random state that goes on.            *)
(***************************************************************************)
THEOREM ReportedIfWrong == ASSUME ReferencesRight PROVE Spec => []ComparisonExact
<1>1. Init => (level = "bench_run" => RunInv)
  BY InitCompared DEF Init
<1>2. (level = "bench_run" => RunInv) /\ [Next]_vars => (level = "bench_run" => RunInv)'
  <2>. SUFFICES ASSUME level = "bench_run" => RunInv, [Next]_vars, level' = "bench_run"
                PROVE  RunInv'
    OBVIOUS
  <2>1. level = "bench_run"
    BY SameLevel
  <2>2. [Run!Next]_(Run!vars)
    BY <2>1 DEF Next, vars, runVars, Run!vars
  <2>. QED  BY <2>1, <2>2, StepCompared
<1>3. (level = "bench_run" => RunInv) => ComparisonExact
  BY ComparedExactly DEF ComparisonExact
<1>. QED  BY <1>1, <1>2, <1>3, PTL DEF Spec

-----------------------------------------------------------------------------
(* bench_time: the samples.                                                *)

LEMMA CardSame == ASSUME NEW S PROVE Run!Cardinality(S) = Cardinality(S)
BY DEF Run!Cardinality, Cardinality

LEMMA PartOfInterval ==
  ASSUME NEW m \in Nat, NEW S, S \subseteq 0 .. m - 1
  PROVE  IsFiniteSet(S) /\ Cardinality(S) \in Nat
<1>1. IsFiniteSet(0 .. m - 1)
  <2>1. 0 \in Int /\ m - 1 \in Int
    OBVIOUS
  <2>. QED  BY <2>1, FS_Interval
<1>. QED  BY <1>1, FS_Subset, FS_CardinalityType

LEMMA PartIsSmaller ==
  ASSUME NEW m \in Nat, NEW T, NEW S, T \subseteq S, S \subseteq 0 .. m - 1
  PROVE  Cardinality(T) \in Nat /\ Cardinality(S) \in Nat /\ Cardinality(T) =< Cardinality(S)
<1>1. IsFiniteSet(S) /\ Cardinality(S) \in Nat
  BY PartOfInterval
<1>2. T \subseteq 0 .. m - 1
  OBVIOUS
<1>3. Cardinality(T) \in Nat
  BY <1>2, PartOfInterval
<1>. QED  BY <1>1, <1>3, FS_Subset

LEMMA IntervalSize ==
  ASSUME NEW l \in Nat, NEW h \in Int, l =< h + 1
  PROVE  Cardinality(l .. h) = h - l + 1
<1>1. Cardinality(l .. h) = IF l > h THEN 0 ELSE h - l + 1
  BY FS_Interval
<1>. QED  BY <1>1

\* the positions of the first m numbers of q that are less than v, or not greater
Less(q, m, v)   == { j \in 0 .. m - 1 : q[j] < v }
AtMost(q, m, v) == { j \in 0 .. m - 1 : q[j] =< v }

\* Of m numbers there is one with position k of their order.
LEMMA Ranked ==
  ASSUME NEW q, NEW m \in Nat, \A j \in 0 .. m - 1 : q[j] \in Nat, NEW k \in 0 .. m - 1
  PROVE  \E v \in { q[j] : j \in 0 .. m - 1 } :
           Cardinality(Less(q, m, v)) =< k /\ k < Cardinality(AtMost(q, m, v))
<1>. DEFINE T == { v \in Nat : k < Cardinality(AtMost(q, m, v)) }
<1>1. T # {}
  <2>. DEFINE p == [j \in 1 .. m |-> q[j - 1]]
  <2>1. p \in Seq(Nat) /\ DOMAIN p = 1 .. m
    <3>1. \A j \in 1 .. m : q[j - 1] \in Nat
      OBVIOUS
    <3>. QED  BY <3>1
  <2>2. PICK u \in Nat : \A j \in DOMAIN p : p[j] =< u
    <3>. HIDE DEF p
    <3>. QED  BY <2>1, Bounded
  <2>3. ASSUME NEW j \in 0 .. m - 1 PROVE q[j] =< u
    <3>1. j + 1 \in DOMAIN p /\ p[j + 1] = q[j]
      BY <2>1
    <3>. HIDE DEF p
    <3>. QED  BY <2>2, <3>1
  <2>4. AtMost(q, m, u) = 0 .. m - 1
    BY <2>3 DEF AtMost
  <2>5. Cardinality(0 .. m - 1) = m
    <3>1. 0 \in Nat /\ m - 1 \in Int /\ 0 =< (m - 1) + 1 /\ (m - 1) - 0 + 1 = m
      OBVIOUS
    <3>. QED  BY <3>1, IntervalSize
  <2>. QED  BY <2>2, <2>4, <2>5
<1>2. PICK u \in T : \A y \in T : u =< y
  <2>1. T \in SUBSET Nat
    OBVIOUS
  <2>. HIDE DEF T
  <2>. QED  BY <1>1, <2>1, SmallestOf
<1>3. u \in Nat /\ k < Cardinality(AtMost(q, m, u))
  BY <1>2
<1>4. CASE u = 0
  <2>1. Less(q, m, u) = {}
    BY <1>4 DEF Less
  <2>2. AtMost(q, m, u) # {}
    BY <1>3, FS_EmptySet
  <2>3. PICK j \in 0 .. m - 1 : q[j] = 0
    BY <1>4, <2>2 DEF AtMost
  <2>4. Cardinality(Less(q, m, u)) = 0
    BY <2>1, FS_EmptySet
  <2>. QED  BY <1>3, <1>4, <2>3, <2>4
<1>5. CASE u # 0
  <2>1. PICK w \in Nat : u = w + 1
    BY ONLY <1>3, <1>5
  <2>2. ~(k < Cardinality(AtMost(q, m, w)))
    BY <1>2, <2>1
  <2>3. Less(q, m, u) = AtMost(q, m, w)
    BY <2>1 DEF Less, AtMost
  <2>4. AtMost(q, m, w) \subseteq 0 .. m - 1
    BY DEF AtMost
  <2>5. Cardinality(AtMost(q, m, w)) \in Nat
    BY <2>4, PartOfInterval
  <2>6. AtMost(q, m, u) # AtMost(q, m, w)
    BY <1>3, <2>2
  <2>7. PICK j \in 0 .. m - 1 : q[j] = u
    BY <2>1, <2>6 DEF AtMost
  <2>. QED  BY <1>3, <2>2, <2>3, <2>5, <2>7
<1>. QED  BY <1>4, <1>5

Ascending(q, m) == \A j, k \in 0 .. m - 1 : j =< k => q[j] =< q[k]

\* What qsort makes of the samples ascends, and consists of samples.
LEMMA SortedAscends ==
  ASSUME NEW m \in Nat, m = repeats, 0 .. m - 1 \subseteq DOMAIN arr,
         \A j \in 0 .. m - 1 : arr[j] \in Nat
  PROVE  /\ DOMAIN Run!Sorted = DOMAIN arr
         /\ \A k \in 0 .. m - 1 : Run!Sorted[k] \in { arr[j] : j \in 0 .. m - 1 }
         /\ \A k \in DOMAIN arr \ 0 .. m - 1 : k \in Nat => Run!Sorted[k] = arr[k]
         /\ Ascending(Run!Sorted, m)
<1>. DEFINE used == { arr[j] : j \in 0 .. repeats - 1 }
            Rank(v, k) == /\ Run!Cardinality({ j \in 0 .. repeats - 1 : arr[j] < v }) =< k
                          /\ k < Run!Cardinality({ j \in 0 .. repeats - 1 : arr[j] =< v })
<1>1. Run!Sorted = [k \in DOMAIN arr |->
                      IF k < repeats THEN CHOOSE v \in used : Rank(v, k) ELSE arr[k]]
  BY DEF Run!Sorted
<1>6. ASSUME NEW v, NEW k
      PROVE  Rank(v, k) = ( /\ Cardinality(Less(arr, m, v)) =< k
                           /\ k < Cardinality(AtMost(arr, m, v)))
  BY CardSame DEF Less, AtMost
<1>. HIDE DEF Rank
<1>2. ASSUME NEW k \in 0 .. m - 1
      PROVE  Run!Sorted[k] \in used /\ Rank(Run!Sorted[k], k)
  <2>1. \E v \in used : Rank(v, k)
    BY <1>6, Ranked
  <2>2. Run!Sorted[k] = CHOOSE v \in used : Rank(v, k)
    <3>. HIDE DEF used
    <3>. QED  BY <1>1
  <2>. HIDE DEF used
  <2>. QED  BY <2>1, <2>2
<1>3. ASSUME NEW j \in 0 .. m - 1, NEW k \in 0 .. m - 1, j =< k
      PROVE  Run!Sorted[j] =< Run!Sorted[k]
  <2>1. PICK u \in Nat : u = Run!Sorted[j] /\ Rank(u, j)
    BY <1>2
  <2>2. PICK v \in Nat : v = Run!Sorted[k] /\ Rank(v, k)
    BY <1>2
  <2>3. SUFFICES ASSUME v < u PROVE FALSE
    BY <2>1, <2>2
  <2>4. AtMost(arr, m, v) \subseteq Less(arr, m, u) /\ Less(arr, m, u) \subseteq 0 .. m - 1
    BY <2>3 DEF AtMost, Less
  <2>6. /\ Cardinality(Less(arr, m, u)) =< j
        /\ k < Cardinality(AtMost(arr, m, v))
    BY <1>6, <2>1, <2>2
  <2>5. /\ Cardinality(AtMost(arr, m, v)) \in Nat /\ Cardinality(Less(arr, m, u)) \in Nat
        /\ Cardinality(AtMost(arr, m, v)) =< Cardinality(Less(arr, m, u))
    BY <2>4, PartIsSmaller
  <2>. QED  BY <1>3, <2>5, <2>6
<1>4. ASSUME NEW k \in DOMAIN arr \ 0 .. m - 1, k \in Nat PROVE Run!Sorted[k] = arr[k]
  <2>1. ~(k < repeats)
    BY <1>4
  <2>. QED  BY <1>1, <1>4, <2>1
<1>5. DOMAIN Run!Sorted = DOMAIN arr
  BY <1>1
<1>. QED  BY <1>2, <1>3, <1>4, <1>5 DEF Ascending

-----------------------------------------------------------------------------

LEMMA PartSummed ==
  ASSUME NEW m \in Nat \ {0}
  PROVE  /\ m \div 5 \in Nat /\ (4 * m + 4) \div 5 = m - m \div 5
         /\ m \div 5 < m - m \div 5
<1>1. PICK x \in Nat, y \in 0 .. 4 : m = 5 * x + y /\ x = m \div 5
  <2>1. m \div 5 \in Nat /\ m % 5 \in 0 .. 4 /\ m = 5 * (m \div 5) + (m % 5)
    OBVIOUS
  <2>. QED  BY <2>1
<1>2. (4 * m + 4) \div 5 = 4 * x + y
  BY ONLY <1>1
<1>. QED  BY ONLY <1>1, <1>2, m \in Nat \ {0}

TimeTypes ==
  /\ config \in Configs
  /\ pc \in { "sample", "sort", "sum", "done" }
  /\ DOMAIN arr = 0 .. Run!MAX_REPEATS - 1
  /\ \A k \in 0 .. repeats - 1 : arr[k] \in Times
  /\ repeats \in 0 .. Run!MAX_REPEATS
  /\ i \in Nat /\ sum \in Nat /\ count \in Nat

\* what has been summed are the samples from First on, in ascending order if
\* the outer ones are left out
TimeSummed ==
  /\ pc \in { "sample", "sort" } => sum = 0 /\ count = 0
  /\ pc # "sample" => repeats > Run!MIN_REPEATS \/ repeats = Run!MAX_REPEATS
  /\ pc \in { "sum", "done" } =>
       /\ Run!Trims => Ascending(arr, repeats)
       /\ i \in Run!First .. Run!End /\ count = i - Run!First
       /\ \A v \in Times : (\A k \in Run!First .. Run!End - 1 : arr[k] = v) => sum = count * v
  /\ pc = "done" => i = Run!End

TimeInv == TimeTypes /\ TimeSummed

LEMMA ConfigTypes ==
  ASSUME config \in Configs
  PROVE  Run!MIN_REPEATS \in Nat /\ Run!MAX_REPEATS \in Nat \ {0} /\ Run!Trims \in BOOLEAN
BY ConfigsAssumption DEF Run!MIN_REPEATS, Run!MAX_REPEATS, Run!Trims

LEMMA InitSampled == Run!TimeInit => TimeInv
<1>. SUFFICES ASSUME Run!TimeInit PROVE TimeInv
  OBVIOUS
<1>1. Run!MAX_REPEATS \in Nat
  BY ConfigTypes DEF Run!TimeInit
<1>. QED  BY <1>1 DEF Run!TimeInit, TimeInv, TimeTypes, TimeSummed

\* At least one sample is summed, and all that are lie among those in use.
LEMMA SomeSummed ==
  ASSUME TimeTypes, repeats > Run!MIN_REPEATS \/ repeats = Run!MAX_REPEATS
  PROVE  /\ repeats \in Nat \ {0} /\ Run!First \in Nat /\ Run!End \in Nat
         /\ Run!First < Run!End /\ Run!End =< repeats
         /\ Run!Trims => Run!First = repeats \div 5 /\ Run!End = repeats - repeats \div 5
<1>1. Run!MIN_REPEATS \in Nat /\ Run!MAX_REPEATS \in Nat \ {0} /\ Run!Trims \in BOOLEAN
  BY ConfigTypes DEF TimeTypes
<1>2. repeats \in Nat \ {0}
  BY <1>1 DEF TimeTypes
<1>3. PICK m \in Nat \ {0} : m = repeats
  BY <1>2
<1>4. m \div 5 \in Nat /\ (4 * m + 4) \div 5 = m - m \div 5 /\ m \div 5 < m - m \div 5
  BY PartSummed
<1>5. PICK x \in Nat : x = m \div 5
  BY <1>4
<1>6. CASE Run!Trims
  <2>1. Run!First = x /\ Run!End = m - x
    BY <1>3, <1>4, <1>5, <1>6 DEF Run!First, Run!End
  <2>2. x < m - x
    BY <1>4, <1>5
  <2>. QED  BY <1>3, <1>5, <1>6, <2>1, <2>2
<1>7. CASE ~Run!Trims
  BY <1>3, <1>7 DEF Run!First, Run!End
<1>. QED  BY <1>6, <1>7

LEMMA StepSampled == TimeInv /\ [Run!TimeNext]_(Run!tvars) => TimeInv'
<1>. SUFFICES ASSUME TimeInv, [Run!TimeNext]_(Run!tvars) PROVE TimeInv'
  OBVIOUS
<1>1. TimeTypes /\ TimeSummed
  BY DEF TimeInv
<1>2. Run!MIN_REPEATS \in Nat /\ Run!MAX_REPEATS \in Nat \ {0} /\ Run!Trims \in BOOLEAN
  BY <1>1, ConfigTypes DEF TimeTypes
<1>3. /\ config' = config
      /\ Run!MIN_REPEATS' = Run!MIN_REPEATS /\ Run!MAX_REPEATS' = Run!MAX_REPEATS
      /\ Run!Trims' = Run!Trims
  BY DEF Run!TimeNext, Run!Sample, Run!AllSampled, Run!Sort, Run!Sum, Run!Return,
         Run!TimeTerminating, Run!tvars, Run!MIN_REPEATS, Run!MAX_REPEATS, Run!Trims
<1>4. Times \subseteq Nat
  BY TimesAssumption
<1>5. CASE Run!Sample
  <2>1. /\ pc = "sample" /\ repeats < Run!MAX_REPEATS /\ UNCHANGED << i, sum, count >>
        /\ sum = 0 /\ count = 0 /\ repeats \in Nat
    BY <1>1, <1>2, <1>5 DEF Run!Sample, Run!MoreSamples, TimeTypes, TimeSummed
  <2>2. PICK t \in Times : /\ arr' = [arr EXCEPT ![repeats] = t]
                           /\ IF Run!EnoughAfter(t)
                                THEN repeats' = Run!RepeatsOnStop /\ pc' = "sort"
                                ELSE repeats' = repeats + 1 /\ UNCHANGED pc
    BY <1>5 DEF Run!Sample
  <2>3. repeats' \in { repeats, repeats + 1 }
    BY <2>2 DEF Run!RepeatsOnStop
  <2>4. DOMAIN arr' = 0 .. Run!MAX_REPEATS - 1
    BY <1>1, <2>2 DEF TimeTypes
  <2>5. ASSUME NEW k \in 0 .. repeats' - 1 PROVE arr'[k] \in Times
    <3>1. k \in 0 .. repeats /\ k \in DOMAIN arr /\ repeats \in DOMAIN arr
      <4>1. PICK m \in Nat, M \in Nat : m = repeats /\ M = Run!MAX_REPEATS
        BY <1>2, <2>1
      <4>2. m < M /\ DOMAIN arr = 0 .. M - 1
        BY <1>1, <2>1, <4>1 DEF TimeTypes
      <4>3. k \in 0 .. m
        <5>1. CASE repeats' = m
          BY ONLY <4>1, <5>1, <2>5
        <5>2. CASE repeats' = m + 1
          BY ONLY <4>1, <5>2, <2>5
        <5>. QED  BY <2>3, <4>1, <5>1, <5>2
      <4>. QED  BY ONLY <4>1, <4>2, <4>3
    <3>2. CASE k = repeats
      BY <2>2, <3>1, <3>2
    <3>3. CASE k # repeats
      <4>1. k \in 0 .. repeats - 1
        BY <2>1, <3>1, <3>3
      <4>. QED  BY <1>1, <2>2, <3>1, <3>3, <4>1 DEF TimeTypes
    <3>. QED  BY <3>2, <3>3
  <2>6. TimeTypes'
    <3>1. repeats' \in 0 .. Run!MAX_REPEATS
      BY <1>2, <2>1, <2>3
    <3>2. pc' \in { "sample", "sort" }
      BY <2>1, <2>2
    <3>. QED  BY <1>1, <1>3, <2>1, <2>4, <2>5, <3>1, <3>2 DEF TimeTypes
  <2>7. pc' # "sample" => pc' = "sort" /\ repeats' > Run!MIN_REPEATS
    BY <1>2, <2>1, <2>2, <2>3 DEF Run!EnoughAfter
  <2>8. pc' \in { "sample", "sort" }
    BY <2>1, <2>2
  <2>9. TimeSummed'
    BY <1>3, <2>1, <2>7, <2>8 DEF TimeSummed
  <2>. QED  BY <2>6, <2>9 DEF TimeInv
<1>6. CASE Run!AllSampled
  <2>1. /\ pc = "sample" /\ ~(repeats < Run!MAX_REPEATS) /\ pc' = "sort"
        /\ UNCHANGED << config, arr, repeats, i, sum, count >>
    BY <1>6 DEF Run!AllSampled, Run!MoreSamples
  <2>2. repeats = Run!MAX_REPEATS
    BY <1>1, <1>2, <2>1 DEF TimeTypes
  <2>. QED  BY <1>1, <1>3, <2>1, <2>2 DEF TimeInv, TimeTypes, TimeSummed
<1>7. CASE Run!Sort
  <2>1. /\ pc = "sort" /\ pc' = "sum" /\ i' = Run!First
        /\ arr' = IF Run!Trims THEN Run!Sorted ELSE arr
        /\ UNCHANGED << config, repeats, sum, count >>
        /\ sum = 0 /\ count = 0
        /\ repeats > Run!MIN_REPEATS \/ repeats = Run!MAX_REPEATS
    BY <1>1, <1>7 DEF Run!Sort, TimeSummed
  <2>2. repeats \in Nat \ {0} /\ Run!First \in Nat /\ Run!End \in Nat /\ Run!First < Run!End
    BY <1>1, <2>1, SomeSummed
  <2>3. Run!First' = Run!First /\ Run!End' = Run!End
    BY <1>3, <2>1 DEF Run!First, Run!End
  <2>4. \A j \in 0 .. repeats - 1 : arr[j] \in Times
    BY <1>1 DEF TimeTypes
  <2>5. 0 .. repeats - 1 \subseteq DOMAIN arr
    BY <1>1, <1>2 DEF TimeTypes
  <2>6. /\ DOMAIN Run!Sorted = DOMAIN arr /\ Ascending(Run!Sorted, repeats)
        /\ \A k \in 0 .. repeats - 1 : Run!Sorted[k] \in { arr[j] : j \in 0 .. repeats - 1 }
    <3>1. PICK m \in Nat : m = repeats
      BY <2>2
    <3>2. 0 .. m - 1 \subseteq DOMAIN arr /\ \A j \in 0 .. m - 1 : arr[j] \in Nat
      BY <1>4, <2>4, <2>5, <3>1
    <3>3. /\ DOMAIN Run!Sorted = DOMAIN arr /\ Ascending(Run!Sorted, m)
          /\ \A k \in 0 .. m - 1 : Run!Sorted[k] \in { arr[j] : j \in 0 .. m - 1 }
      BY <3>1, <3>2, SortedAscends
    <3>. QED  BY <3>1, <3>3
  <2>7. DOMAIN arr' = DOMAIN arr /\ \A k \in 0 .. repeats - 1 : arr'[k] \in Times
    BY <2>1, <2>4, <2>6
  <2>8. Run!Trims => Ascending(arr, repeats)'
    BY <2>1, <2>6 DEF Ascending
  <2>9. TimeTypes'
    BY <1>1, <1>3, <2>1, <2>2, <2>7 DEF TimeTypes
  <2>10. \A v \in Times : sum' = count' * v
    BY <1>4, <2>1
  <2>11. TimeSummed'
    BY <1>3, <2>1, <2>2, <2>3, <2>8, <2>10 DEF TimeSummed
  <2>. QED  BY <2>9, <2>11 DEF TimeInv
<1>8. CASE Run!Sum
  <2>1. /\ pc = "sum" /\ i < Run!End /\ sum' = sum + arr[i] /\ count' = count + 1 /\ i' = i + 1
        /\ UNCHANGED << config, pc, arr, repeats >>
    BY <1>8 DEF Run!Sum
  <2>2. repeats > Run!MIN_REPEATS \/ repeats = Run!MAX_REPEATS
    BY <1>1, <2>1 DEF TimeSummed
  <2>3. /\ repeats \in Nat \ {0} /\ Run!First \in Nat /\ Run!End \in Nat
        /\ Run!First < Run!End /\ Run!End =< repeats
    BY <1>1, <2>2, SomeSummed
  <2>4. Run!First' = Run!First /\ Run!End' = Run!End
    BY <1>3, <2>1 DEF Run!First, Run!End
  <2>5. i \in Run!First .. Run!End /\ count = i - Run!First
    BY <1>1, <2>1 DEF TimeSummed
  <2>6. PICK x \in Nat : x = arr[i]
    <3>1. i \in 0 .. repeats - 1
      BY <1>1, <2>1, <2>3 DEF TimeTypes
    <3>2. arr[i] \in Times
      BY <1>1, <3>1 DEF TimeTypes
    <3>. QED  BY <1>4, <3>2
  <2>7. i' \in Run!First .. Run!End /\ count' = i' - Run!First /\ count' \in Nat
        /\ sum' \in Nat /\ i' \in Nat
    BY <1>1, <2>1, <2>3, <2>5, <2>6 DEF TimeTypes
  <2>8. ASSUME NEW v \in Times, \A k \in Run!First .. Run!End - 1 : arr[k] = v
        PROVE  sum' = count' * v
    <3>1. i \in Run!First .. Run!End - 1
      BY <2>1, <2>3, <2>5
    <3>2. x = v
      BY <2>6, <2>8, <3>1
    <3>3. sum = count * v
      BY <1>1, <2>1, <2>8 DEF TimeSummed
    <3>4. PICK c \in Nat, w \in Nat : c = count /\ w = v
      BY <1>1, <1>4, <2>8 DEF TimeTypes
    <3>5. c * w + w = (c + 1) * w
      BY ONLY <3>4
    <3>. QED  BY <2>1, <2>6, <3>2, <3>3, <3>4, <3>5
  <2>9. TimeTypes'
    BY <1>1, <1>3, <2>1, <2>7 DEF TimeTypes
  <2>10. Run!Trims => Ascending(arr, repeats)'
    BY <1>1, <2>1 DEF TimeSummed, Ascending
  <2>11. TimeSummed'
    BY <1>3, <2>1, <2>2, <2>4, <2>7, <2>8, <2>10 DEF TimeSummed
  <2>. QED  BY <2>9, <2>11 DEF TimeInv
<1>9. CASE Run!Return \/ UNCHANGED Run!tvars
  <2>1. /\ UNCHANGED << config, arr, repeats, i, sum, count >>
        /\ pc' = pc \/ (pc = "sum" /\ pc' = "done" /\ i >= Run!End)
    BY <1>9 DEF Run!Return, Run!tvars
  <2>2. Run!First' = Run!First /\ Run!End' = Run!End
    BY <1>3, <2>1 DEF Run!First, Run!End
  <2>3. pc' # "sample" => repeats > Run!MIN_REPEATS \/ repeats = Run!MAX_REPEATS
    BY <1>1, <2>1 DEF TimeSummed
  <2>4. pc' = "done" => i = Run!End
    <3>1. CASE pc = "sum" /\ i >= Run!End
      <4>1. Run!First \in Nat /\ Run!End \in Nat
        BY <1>1, <3>1, SomeSummed DEF TimeSummed
      <4>. QED  BY <1>1, <3>1, <4>1 DEF TimeSummed
    <3>. QED  BY <1>1, <2>1, <3>1 DEF TimeSummed
  <2>5. Run!Trims /\ pc' \in { "sum", "done" } => Ascending(arr, repeats)'
    BY <1>1, <2>1 DEF TimeSummed, Ascending
  <2>6. TimeTypes'
    BY <1>1, <1>3, <2>1 DEF TimeTypes
  <2>7. TimeSummed'
    BY <1>1, <1>3, <2>1, <2>2, <2>3, <2>4, <2>5 DEF TimeSummed
  <2>. QED  BY <2>6, <2>7 DEF TimeInv
<1>. QED  BY <1>5, <1>6, <1>7, <1>8, <1>9 DEF Run!TimeNext, Run!TimeTerminating

\* Those that differ from a value and are not among the m \div 5 on either
\* side pull the ones on their side with them.
LEMMA OuterDiffer ==
  ASSUME NEW q, NEW m \in Nat \ {0}, \A j \in 0 .. m - 1 : q[j] \in Nat, Ascending(q, m),
         NEW v \in Nat, Cardinality({ k \in 0 .. m - 1 : q[k] # v }) =< m \div 5,
         NEW k \in (m \div 5) .. (m - m \div 5) - 1
  PROVE  q[k] = v
<1>. DEFINE D == { j \in 0 .. m - 1 : q[j] # v }
<1>1. PICK x \in Nat : x = m \div 5
  BY PartSummed
<1>2. k \in Nat /\ x =< k /\ k < m - x /\ k \in 0 .. m - 1
  BY <1>1
<1>3. D \subseteq 0 .. m - 1 /\ Cardinality(D) =< x
  BY <1>1
<1>4. CASE q[k] < v
  <2>1. 0 .. k \subseteq D
    <3>. SUFFICES ASSUME NEW j \in 0 .. k PROVE j \in D
      OBVIOUS
    <3>1. j \in 0 .. m - 1 /\ j =< k
      BY <1>2
    <3>2. q[j] =< q[k] /\ q[j] \in Nat /\ q[k] \in Nat
      BY <1>2, <3>1 DEF Ascending
    <3>. QED  BY <1>4, <3>1, <3>2
  <2>. HIDE DEF D
  <2>2. Cardinality(0 .. k) = k + 1
    <3>1. 0 \in Nat /\ k \in Int /\ 0 =< k + 1 /\ k - 0 + 1 = k + 1
      BY <1>2
    <3>. QED  BY <3>1, IntervalSize
  <2>3. Cardinality(0 .. k) =< Cardinality(D) /\ Cardinality(D) \in Nat
    BY <1>3, <2>1, PartIsSmaller
  <2>. QED  BY <1>1, <1>2, <1>3, <2>2, <2>3
<1>5. CASE v < q[k]
  <2>1. k .. m - 1 \subseteq D
    <3>. SUFFICES ASSUME NEW j \in k .. m - 1 PROVE j \in D
      OBVIOUS
    <3>1. j \in 0 .. m - 1 /\ k =< j
      BY <1>2
    <3>2. q[k] =< q[j] /\ q[j] \in Nat /\ q[k] \in Nat
      BY <1>2, <3>1 DEF Ascending
    <3>. QED  BY <1>5, <3>1, <3>2
  <2>. HIDE DEF D
  <2>2. Cardinality(k .. m - 1) = m - k
    <3>1. m - 1 \in Int /\ k =< (m - 1) + 1 /\ (m - 1) - k + 1 = m - k
      BY <1>2
    <3>. QED  BY <1>2, <3>1, IntervalSize
  <2>3. Cardinality(k .. m - 1) =< Cardinality(D) /\ Cardinality(D) \in Nat
    BY <1>3, <2>1, PartIsSmaller
  <2>. QED  BY <1>1, <1>2, <1>3, <2>2, <2>3
<1>6. q[k] \in Nat
  BY <1>2
<1>. QED  BY <1>4, <1>5, <1>6

LEMMA SampledSoundly == TimeInv => Run!EnoughSamples /\ Run!OutliersDropped
<1>. SUFFICES ASSUME TimeInv PROVE Run!EnoughSamples /\ Run!OutliersDropped
  OBVIOUS
<1>1. TimeTypes /\ TimeSummed
  BY DEF TimeInv
<1>2. Run!EnoughSamples
  BY <1>1 DEF Run!EnoughSamples, Run!SamplesInUse, TimeTypes, TimeSummed
<1>3. ASSUME pc = "done" 
      PROVE  /\ count > 0
             /\ Run!Trims => \A v \in Times :
                  Run!Cardinality({ k \in 0 .. repeats - 1 : arr[k] # v }) =< repeats \div 5
                    => sum = count * v
  <2>1. /\ repeats \in Nat \ {0} /\ Run!First \in Nat /\ Run!End \in Nat /\ Run!First < Run!End
        /\ Run!Trims => Run!First = repeats \div 5 /\ Run!End = repeats - repeats \div 5
    BY <1>1, <1>3, SomeSummed DEF TimeSummed
  <2>2. count = Run!End - Run!First
    BY <1>1, <1>3 DEF TimeSummed
  <2>3. ASSUME Run!Trims, NEW v \in Times,
               Run!Cardinality({ k \in 0 .. repeats - 1 : arr[k] # v }) =< repeats \div 5
        PROVE  sum = count * v
    <3>1. PICK m \in Nat \ {0} : m = repeats
      BY <2>1
    <3>2. \A j \in 0 .. m - 1 : arr[j] \in Nat
      BY <1>1, <3>1, TimesAssumption DEF TimeTypes
    <3>3. Ascending(arr, m)
      BY <1>1, <1>3, <2>3, <3>1 DEF TimeSummed
    <3>4. Cardinality({ k \in 0 .. m - 1 : arr[k] # v }) =< m \div 5 /\ v \in Nat
      BY <2>3, <3>1, CardSame, TimesAssumption
    <3>5. \A k \in (m \div 5) .. (m - m \div 5) - 1 : arr[k] = v
      BY <3>2, <3>3, <3>4, OuterDiffer
    <3>6. \A k \in Run!First .. Run!End - 1 : arr[k] = v
      BY <2>1, <2>3, <3>1, <3>5
    <3>. QED  BY <1>1, <1>3, <2>3, <3>6 DEF TimeSummed
  <2>. QED  BY <2>1, <2>2, <2>3
<1>. QED  BY <1>2, <1>3 DEF Run!OutliersDropped, Run!SamplesInUse

(***************************************************************************)
(* For any times, limits and numbers of samples: the samples are those of  *)
(* this call and as many as are asked for, there is a mean, and a fifth of *)
(* outliers does not change it.                                            *)
(***************************************************************************)
THEOREM OutliersDoNotCount == Spec => []SamplesSound
<1>1. Init => (level = "bench_time" => TimeInv)
  BY InitSampled DEF Init
<1>2. (level = "bench_time" => TimeInv) /\ [Next]_vars => (level = "bench_time" => TimeInv)'
  <2>. SUFFICES ASSUME level = "bench_time" => TimeInv, [Next]_vars, level' = "bench_time"
                PROVE  TimeInv'
    OBVIOUS
  <2>1. level = "bench_time"
    BY SameLevel
  <2>2. [Run!TimeNext]_(Run!tvars)
    BY <2>1 DEF Next, vars, timeVars, Run!tvars
  <2>. QED  BY <2>1, <2>2, StepSampled
<1>3. (level = "bench_time" => TimeInv) => SamplesSound
  BY SampledSoundly DEF SamplesSound
<1>. QED  BY <1>1, <1>2, <1>3, PTL DEF Spec

-----------------------------------------------------------------------------
(* bench_run: the table.                                                   *)

Rows(p)    == Len(p.aligned) * Len(p.impls)
Entries(p) == Rows(p) * Len(Sizes)

\* the benchmark, kernel and size that entry k is of, counted from 0
CellOf(p, k) ==
  << k \div (Len(p.impls) * Len(Sizes)) + 1, ((k \div Len(Sizes)) % Len(p.impls)) + 1,
     (k % Len(Sizes)) + 1 >>

BadAt(p, k) ==
  LET f == p.impls[CellOf(p, k)[2]]
  IN  ~f.skip /\ Run!Detectable(p.kind, f, Sizes[CellOf(p, k)[3]])

Entry == (Nat \X Nat \X Nat) \cup { << >> }

Upto(p, k) == [j \in 1 .. k |-> CellOf(p, j - 1)]

\* q has the first k entries, none of which is of a wrong kernel
SoFar(p, q, k) ==
  /\ q \in Seq(Entry) /\ Len(q) = k
  /\ \A j \in 1 .. k : q[j] = CellOf(p, j - 1)
  /\ \A j \in 0 .. k - 1 : ~BadAt(p, j)

\* how many entries there are before kernel y of benchmark x at size z
At(p, x, y, z) == ((x - 1) * Len(p.impls) + (y - 1)) * Len(Sizes) + (z - 1)

LEMMA EntriesNat == ASSUME NEW p \in Programs PROVE Entries(p) \in Nat
<1>1. PICK I \in Nat, S \in Nat, A \in Nat :
        I = Len(p.impls) /\ S = Len(Sizes) /\ A = Len(p.aligned)
  BY ProgramsAssumption, SizesAssumption
<1>2. A \in Nat /\ I \in Nat /\ S \in Nat
  OBVIOUS
<1>3. A * I \in Nat
  BY ONLY <1>2
<1>4. PICK w \in Nat : w = A * I
  BY ONLY <1>3
<1>5. w \in Nat
  OBVIOUS
<1>6. w * S \in Nat
  BY ONLY <1>2, <1>5
<1>. QED  BY <1>1, <1>4, <1>6 DEF Entries, Rows

LEMMA CellIs ==
  ASSUME NEW p \in Programs,
         NEW x \in 1 .. Len(p.aligned), NEW y \in 1 .. Len(p.impls), NEW z \in 1 .. Len(Sizes),
         NEW k, k = At(p, x, y, z)
  PROVE  k \in 0 .. Entries(p) - 1 /\ CellOf(p, k) = << x, y, z >>
<1>1. k = ((x - 1) * Len(p.impls) + (y - 1)) * Len(Sizes) + (z - 1)
  BY DEF At
<1>2. Len(p.aligned) \in Nat /\ Len(p.impls) \in Nat /\ Len(Sizes) \in Nat
  BY ProgramsAssumption, SizesAssumption
<1>3. PICK I \in Nat \ {0}, S \in Nat \ {0}, A \in Nat :
        I = Len(p.impls) /\ S = Len(Sizes) /\ A = Len(p.aligned)
  BY <1>2
<1>4. PICK u \in 0 .. A - 1, v \in 0 .. I - 1, w \in 0 .. S - 1 :
        u = x - 1 /\ v = y - 1 /\ w = z - 1
  BY <1>3
<1>5. /\ k \in Nat /\ k < (A * I) * S
      /\ k \div (I * S) = u /\ (k \div S) % I = v /\ k % S = w
  <2>1. u \in Nat /\ v \in Nat /\ w \in Nat /\ I \in Nat /\ S \in Nat
    BY <1>3, <1>4
  <2>2. u * I \in Nat
    BY ONLY <2>1
  <2>3. u * I + v \in Nat
    BY ONLY <2>1, <2>2
  <2>4. PICK m \in Nat : m = u * I + v
    BY ONLY <2>3
  <2>5. k = m * S + w
    BY <1>1, <1>3, <1>4, <2>4
  <2>6. m * S \in Nat
    BY ONLY <2>1, <2>4
  <2>7. k \in Nat
    BY ONLY <2>1, <2>6, <2>5
  <2>8. /\ I \in Nat \ {0} /\ S \in Nat \ {0} /\ A \in Nat
        /\ u \in 0 .. A - 1 /\ v \in 0 .. I - 1 /\ w \in 0 .. S - 1
    BY <1>3, <1>4
  <2>9. A * I \in Nat /\ I * S \in Nat
    BY ONLY <2>8
  <2>10. PICK g \in Nat, e \in Nat : g = A * I /\ e = I * S
    BY ONLY <2>9
  <2>11. m \in Nat /\ g \in Nat /\ e \in Nat
    BY ONLY <2>4, <2>10
  <2>12. m = u * I + v /\ g = A * I /\ e = I * S
    BY ONLY <2>4, <2>10
  <2>13. u \in Nat /\ v \in Nat /\ w \in Nat /\ u < A /\ v < I /\ w < S
    BY ONLY <2>8
  <2>14. m < g /\ m % I = v
    BY ONLY <2>8, <2>13, <2>12, RowMajor
  <2>15. k < g * S /\ k \div S = m /\ k % S = w
    <3>1. m * S + w < g * S /\ (m * S + w) \div S = m /\ (m * S + w) % S = w
      BY ONLY <2>13, <2>1, <2>11, <2>14, RowMajor
    <3>. QED  BY ONLY <2>5, <3>1
  <2>16. v * S + w \in Nat /\ v * S + w < e
    BY ONLY <2>8, <2>13, <2>12, RowMajor
  <2>17. PICK r \in Nat : r = v * S + w
    BY ONLY <2>16
  <2>18. e \in Nat \ {0} /\ r \in 0 .. e - 1
    BY ONLY <2>11, <2>16, <2>17
  <2>19. k = u * e + r
    BY ONLY <2>12, <2>5, <2>8, <2>13, <2>11, <2>17
  <2>20. k \div e = u
    BY ONLY <2>7, <2>13, <2>18, <2>19, QuotientUnique
  <2>. QED  BY ONLY <2>7, <2>10, <2>14, <2>15, <2>20
<1>6. u + 1 = x /\ v + 1 = y /\ w + 1 = z
  BY <1>4
<1>7. CellOf(p, k) = << x, y, z >>
  BY <1>3, <1>5, <1>6 DEF CellOf
<1>8. Entries(p) = (A * I) * S
  BY <1>3 DEF Entries, Rows
<1>9. PICK t \in Nat : t = Entries(p)
  BY EntriesNat
<1>. QED  BY <1>5, <1>7, <1>8, <1>9

LEMMA CellType ==
  ASSUME NEW p \in Programs, NEW k \in 0 .. Entries(p) - 1
  PROVE  CellOf(p, k) \in Entry /\ Entries(p) \in Nat
<1>1. Len(p.aligned) \in Nat /\ Len(p.impls) \in Nat /\ Len(Sizes) \in Nat
  BY ProgramsAssumption, SizesAssumption
<1>2. PICK I \in Nat, S \in Nat, A \in Nat :
        I = Len(p.impls) /\ S = Len(Sizes) /\ A = Len(p.aligned)
  BY <1>1
<1>3. Entries(p) = (A * I) * S
  BY <1>2 DEF Entries, Rows
<1>4. PICK t \in Nat : t = (A * I) * S
  OBVIOUS
<1>5. k \in Nat /\ t # 0
  BY <1>3, <1>4
<1>6. I \in Nat \ {0} /\ S \in Nat \ {0}
  BY <1>4, <1>5
<1>7. PICK v \in Nat \ {0} : v = I * S
  BY <1>6
<1>8. k \div v \in Nat
  BY ONLY <1>5, <1>7, Quotient
<1>9. k \div S \in Nat /\ k % S \in Nat
  BY ONLY <1>5, <1>6, Quotient
<1>10. (k \div S) % I \in Nat
  BY ONLY <1>6, <1>9, Quotient
<1>11. CellOf(p, k) = << k \div v + 1, ((k \div S) % I) + 1, (k % S) + 1 >>
  BY <1>2, <1>7 DEF CellOf
<1>12. CellOf(p, k) \in Nat \X Nat \X Nat
  BY <1>8, <1>9, <1>10, <1>11
<1>. QED  BY <1>3, <1>4, <1>12 DEF Entry

\* The table, without and with an error.
LEMMA TableIs ==
  ASSUME NEW p
  PROVE  Run!TableOf(p) =
           IF \E k \in 0 .. Entries(p) - 1 : BadAt(p, k)
             THEN LET first == CHOOSE k \in 0 .. Entries(p) - 1 :
                                 BadAt(p, k) /\ \A j \in 0 .. k - 1 : ~BadAt(p, j)
                  IN  Append(Upto(p, first), << >>)
             ELSE Upto(p, Entries(p))
BY DEF Run!TableOf, BadAt, Upto, CellOf, Entries, Rows, Run!Error

\* Sequences that agree as far as the shorter one goes.
LEMMA PrefixOf ==
  ASSUME NEW T, NEW q \in Seq(T), NEW t \in Seq(T), Len(q) =< Len(t),
         \A j \in 1 .. Len(q) : q[j] = t[j]
  PROVE  Abstract!IsPrefix(q, t)
<1>1. Len(q) \in Nat /\ \A j \in 1 .. Len(q) : q[j] \in T /\ t[j] \in T
  OBVIOUS
<1>2. PICK m \in Nat : m = Len(q)
  BY <1>1
<1>3. /\ SubSeq(q, 1, m) \in Seq(T) /\ Len(SubSeq(q, 1, m)) = m
      /\ \A j \in 1 .. m : SubSeq(q, 1, m)[j] = q[j]
  BY <1>1, <1>2, SubSeqProperties
<1>4. /\ SubSeq(t, 1, m) \in Seq(T) /\ Len(SubSeq(t, 1, m)) = m
      /\ \A j \in 1 .. m : SubSeq(t, 1, m)[j] = t[j]
  BY <1>1, <1>2, SubSeqProperties
<1>5. SubSeq(q, 1, m) = SubSeq(t, 1, m)
  <2>. DEFINE x == SubSeq(q, 1, m)  y == SubSeq(t, 1, m)
  <2>1. x \in Seq(T) /\ y \in Seq(T) /\ Len(x) = Len(y)
        /\ \A j \in 1 .. Len(x) : x[j] = y[j]
    BY <1>2, <1>3, <1>4
  <2>. HIDE DEF x, y
  <2>2. x = y
    BY <2>1
  <2>. QED  BY <2>2 DEF x, y
<1>. QED  BY <1>2, <1>5 DEF Abstract!IsPrefix

LEMMA OneLonger ==
  ASSUME NEW T, NEW q \in Seq(T), NEW e \in T
  PROVE  Abstract!IsPrefix(q, Append(q, e))
<1>. PICK t : t = Append(q, e)
  OBVIOUS
<1>1. t \in Seq(T) /\ Len(q) =< Len(t) /\ \A j \in 1 .. Len(q) : q[j] = t[j]
  OBVIOUS
<1>. QED  BY <1>1, PrefixOf

LEMMA UptoIs ==
  ASSUME NEW p \in Programs, NEW k \in 0 .. Entries(p)
  PROVE  /\ Upto(p, k) \in Seq(Entry) /\ Len(Upto(p, k)) = k
         /\ \A j \in 1 .. k : Upto(p, k)[j] = CellOf(p, j - 1)
<1>1. k \in Nat
  OBVIOUS
<1>2. \A j \in 1 .. k : CellOf(p, j - 1) \in Entry
  <2>. TAKE j \in 1 .. k
  <2>1. Entries(p) \in Nat
    BY EntriesNat
  <2>2. j - 1 \in 0 .. Entries(p) - 1
    BY <2>1
  <2>3. PICK h : h = j - 1
    OBVIOUS
  <2>. QED  BY <2>2, <2>3, CellType
<1>3. Upto(p, k) \in [1 .. k -> Entry]
  BY <1>2 DEF Upto
<1>. QED  BY <1>1, <1>3 DEF Upto

\* A table so far is the one up to its length.
LEMMA SoFarIs ==
  ASSUME NEW p \in Programs, NEW k \in 0 .. Entries(p), NEW q, SoFar(p, q, k)
  PROVE  q = Upto(p, k)
<1>1. PICK u \in Seq(Entry) : u = Upto(p, k)
  BY UptoIs
<1>2. q \in Seq(Entry) /\ Len(q) = Len(u) /\ \A j \in 1 .. Len(u) : q[j] = u[j]
  BY <1>1, UptoIs DEF SoFar
<1>. QED  BY <1>1, <1>2

\* With an error, the table ends at the first.
LEMMA FirstError ==
  ASSUME NEW p \in Programs, NEW k \in 0 .. Entries(p) - 1, BadAt(p, k)
  PROVE  \E h \in 0 .. k : /\ BadAt(p, h) /\ \A j \in 0 .. h - 1 : ~BadAt(p, j)
                           /\ Run!TableOf(p) = Append(Upto(p, h), << >>)
<1>. DEFINE B == { h \in 0 .. Entries(p) - 1 : BadAt(p, h) }
<1>1. B \in SUBSET Nat /\ k \in B
  OBVIOUS
<1>2. PICK h \in B : \A y \in B : h =< y
  <2>. HIDE DEF B
  <2>. QED  BY <1>1, SmallestOf
<1>3. /\ h \in 0 .. Entries(p) - 1 /\ BadAt(p, h) /\ h =< k
      /\ \A j \in 0 .. h - 1 : ~BadAt(p, j)
  <2>1. Entries(p) \in Nat
    BY CellType
  <2>. QED  BY <1>1, <1>2, <2>1
<1>. DEFINE First(x) == BadAt(p, x) /\ \A j \in 0 .. x - 1 : ~BadAt(p, j)
<1>4. \A x \in 0 .. Entries(p) - 1 : First(x) => x = h
  <2>. SUFFICES ASSUME NEW x \in 0 .. Entries(p) - 1, First(x) PROVE x = h
    OBVIOUS
  <2>1. BadAt(p, x) /\ \A j \in 0 .. x - 1 : ~BadAt(p, j)
    OBVIOUS
  <2>2. ~(h < x) /\ ~(x < h)
    BY <1>3, <2>1
  <2>. QED  BY <1>3, <2>2
<1>5. (CHOOSE x \in 0 .. Entries(p) - 1 : First(x)) = h
  <2>1. First(h)
    BY <1>3
  <2>. HIDE DEF First
  <2>. QED  BY <1>3, <1>4, <2>1
<1>6. Run!TableOf(p) = Append(Upto(p, h), << >>)
  BY <1>3, <1>5, TableIs
<1>. QED  BY <1>3, <1>6

LEMMA TableStarts ==
  ASSUME NEW p \in Programs, NEW k \in 0 .. Entries(p), NEW q, SoFar(p, q, k)
  PROVE  Abstract!IsPrefix(q, Run!TableOf(p))
<1>1. q \in Seq(Entry) /\ Len(q) = k /\ \A j \in 1 .. k : q[j] = CellOf(p, j - 1)
  BY DEF SoFar
<1>2. Entries(p) \in Nat
  BY EntriesNat
<1>3. CASE \E h \in 0 .. Entries(p) - 1 : BadAt(p, h)
  <2>1. PICK g \in 0 .. Entries(p) - 1 : BadAt(p, g)
    BY <1>3
  <2>2. PICK h \in 0 .. g : BadAt(p, h) /\ Run!TableOf(p) = Append(Upto(p, h), << >>)
    BY <2>1, FirstError
  <2>3. h \in 0 .. Entries(p) /\ h >= k
    <3>1. ~(h \in 0 .. k - 1)
      BY <2>2 DEF SoFar
    <3>. QED  BY <1>2, <2>1, <2>2, <3>1
  <2>4. PICK u \in Seq(Entry) : u = Upto(p, h)
    BY <2>3, UptoIs
  <2>5. Len(u) = h /\ \A j \in 1 .. h : u[j] = CellOf(p, j - 1)
    BY <2>3, <2>4, UptoIs
  <2>6. << >> \in Entry
    BY DEF Entry
  <2>7. PICK t : t = Append(u, << >>)
    OBVIOUS
  <2>8. t \in Seq(Entry) /\ Len(t) = h + 1 /\ \A j \in 1 .. h : t[j] = u[j]
    BY <2>4, <2>5, <2>6, <2>7
  <2>9. Len(q) =< Len(t) /\ \A j \in 1 .. Len(q) : q[j] = t[j]
    BY <1>1, <2>3, <2>5, <2>8
  <2>10. Abstract!IsPrefix(q, t)
    BY <1>1, <2>8, <2>9, PrefixOf
  <2>. QED  BY <2>2, <2>4, <2>7, <2>10
<1>4. CASE ~ \E h \in 0 .. Entries(p) - 1 : BadAt(p, h)
  <2>1. Run!TableOf(p) = Upto(p, Entries(p))
    BY <1>4, TableIs
  <2>2. Entries(p) \in 0 .. Entries(p)
    BY <1>2
  <2>3. PICK t \in Seq(Entry) : t = Upto(p, Entries(p))
    BY <2>2, UptoIs
  <2>4. Len(t) = Entries(p) /\ \A j \in 1 .. Entries(p) : t[j] = CellOf(p, j - 1)
    BY <2>2, <2>3, UptoIs
  <2>5. Len(q) =< Len(t) /\ \A j \in 1 .. Len(q) : q[j] = t[j]
    BY <1>1, <1>2, <2>4
  <2>6. Abstract!IsPrefix(q, t)
    BY <1>1, <2>5, PrefixOf
  <2>. QED  BY <2>1, <2>3, <2>6
<1>. QED  BY <1>3, <1>4

LEMMA TableAll ==
  ASSUME NEW p \in Programs, NEW q, SoFar(p, q, Entries(p))
  PROVE  q = Run!TableOf(p)
<1>1. Entries(p) \in 0 .. Entries(p)
  BY EntriesNat
<1>2. q = Upto(p, Entries(p))
  BY <1>1, SoFarIs
<1>3. ~ \E h \in 0 .. Entries(p) - 1 : BadAt(p, h)
  BY DEF SoFar
<1>. QED  BY <1>2, <1>3, TableIs

LEMMA TableStops ==
  ASSUME NEW p \in Programs, NEW k \in 0 .. Entries(p) - 1, NEW q, SoFar(p, q, k), BadAt(p, k)
  PROVE  Append(q, << >>) = Run!TableOf(p)
<1>1. PICK h \in 0 .. k : BadAt(p, h) /\ Run!TableOf(p) = Append(Upto(p, h), << >>)
  BY FirstError
<1>2. ~(h \in 0 .. k - 1)
  BY <1>1 DEF SoFar
<1>3. h = k
  BY <1>1, <1>2
<1>4. q = Upto(p, k)
  BY EntriesNat, SoFarIs
<1>. QED  BY <1>1, <1>3, <1>4

LEMMA AtMoves ==
  ASSUME NEW p \in Programs, NEW x \in Nat \ {0}, NEW y \in Nat \ {0}, NEW z \in Nat \ {0}
  PROVE  /\ At(p, x, y, z) \in Nat
         /\ At(p, x, y, z + 1) = At(p, x, y, z) + 1
         /\ At(p, x, y, Len(Sizes) + 1) = At(p, x, y + 1, 1)
         /\ At(p, x, Len(p.impls) + 1, 1) = At(p, x + 1, 1, 1)
         /\ At(p, Len(p.aligned) + 1, 1, 1) = Entries(p)
         /\ At(p, 1, 1, 1) = 0
<1>1. PICK I \in Nat, S \in Nat, A \in Nat :
        I = Len(p.impls) /\ S = Len(Sizes) /\ A = Len(p.aligned)
  BY ProgramsAssumption, SizesAssumption
<1>2. I \in Nat /\ S \in Nat /\ A \in Nat
  OBVIOUS
<1>3. PICK u \in Nat, v \in Nat, w \in Nat : x = u + 1 /\ y = v + 1 /\ z = w + 1
  <2>1. x - 1 \in Nat /\ y - 1 \in Nat /\ z - 1 \in Nat
    OBVIOUS
  <2>. QED  BY <2>1
<1>4. /\ x - 1 = u /\ y - 1 = v /\ z - 1 = w /\ (x + 1) - 1 = u + 1
      /\ (y + 1) - 1 = v + 1 /\ (z + 1) - 1 = w + 1
      /\ (S + 1) - 1 = S /\ (I + 1) - 1 = I /\ (A + 1) - 1 = A /\ 1 - 1 = 0
  BY <1>2, <1>3
<1>5. /\ At(p, x, y, z) = (u * I + v) * S + w
      /\ At(p, x, y, z + 1) = (u * I + v) * S + (w + 1)
      /\ At(p, x, y, Len(Sizes) + 1) = (u * I + v) * S + S
      /\ At(p, x, y + 1, 1) = (u * I + (v + 1)) * S + 0
      /\ At(p, x, Len(p.impls) + 1, 1) = (u * I + I) * S + 0
      /\ At(p, x + 1, 1, 1) = ((u + 1) * I + 0) * S + 0
      /\ At(p, Len(p.aligned) + 1, 1, 1) = (A * I + 0) * S + 0
      /\ At(p, 1, 1, 1) = (0 * I + 0) * S + 0
      /\ Entries(p) = (A * I) * S
  BY ONLY <1>1, <1>4 DEF At, Entries, Rows
<1>6. u \in Nat /\ v \in Nat /\ w \in Nat
  OBVIOUS
<1>7. PICK m \in Nat : m = u * I
  <2>1. u * I \in Nat
    BY ONLY <1>2, <1>6
  <2>. QED  BY ONLY <2>1
<1>8. m \in Nat
  OBVIOUS
<1>9. PICK q \in Nat : q = (m + v) * S
  <2>1. PICK h \in Nat : h = m + v
    BY ONLY <1>6, <1>8
  <2>2. h \in Nat
    OBVIOUS
  <2>3. h * S \in Nat
    BY ONLY <1>2, <2>2
  <2>. QED  BY ONLY <2>1, <2>3
<1>10. q \in Nat
  OBVIOUS
<1>11. (m + (v + 1)) * S = q + S
  BY ONLY <1>2, <1>6, <1>8, <1>9
<1>12. (u + 1) * I = m + I
  BY ONLY <1>2, <1>6, <1>7
<1>13. A * I \in Nat
  BY ONLY <1>2
<1>14. (A * I + 0) * S + 0 = (A * I) * S
  <2>1. PICK h \in Nat : h = A * I
    BY ONLY <1>13
  <2>2. h \in Nat
    OBVIOUS
  <2>3. h * S \in Nat
    BY ONLY <1>2, <2>2
  <2>4. (h + 0) * S + 0 = h * S
    BY ONLY <1>2, <2>2, <2>3
  <2>. QED  BY ONLY <2>1, <2>4
<1>15. (0 * I + 0) * S + 0 = 0
  BY ONLY <1>2
<1>16. (m + I) * S = (m + I + 0) * S
  BY ONLY <1>2, <1>8
<1>17. At(p, x, y, z) = q + w /\ At(p, x, y, z + 1) = q + (w + 1)
       /\ At(p, x, y, Len(Sizes) + 1) = q + S /\ At(p, x, y + 1, 1) = (q + S) + 0
  BY ONLY <1>5, <1>7, <1>9, <1>11
<1>18. At(p, x, y, z) \in Nat /\ At(p, x, y, z + 1) = At(p, x, y, z) + 1
       /\ At(p, x, y, Len(Sizes) + 1) = At(p, x, y + 1, 1)
  BY ONLY <1>2, <1>6, <1>10, <1>17
<1>19. At(p, x, Len(p.impls) + 1, 1) = At(p, x + 1, 1, 1)
  BY ONLY <1>5, <1>7, <1>12, <1>16
<1>20. At(p, Len(p.aligned) + 1, 1, 1) = Entries(p) /\ At(p, 1, 1, 1) = 0
  BY ONLY <1>5, <1>14, <1>15
<1>. QED  BY <1>18, <1>19, <1>20

\* bench_run has printed what is before its place in the loops.
RunPrinted ==
  /\ b \in Nat \ {0} /\ i \in Nat \ {0} /\ s \in Nat \ {0}
  /\ b =< Len(program.aligned) + 1 /\ i =< Len(program.impls) + 1 /\ s =< Len(Sizes) + 1
  /\ pc \in { "bench", "cell", "reference", "compare", "time", "done" }
  /\ pc = "bench" => SoFar(program, out, At(program, b, 1, 1))
  /\ pc \in { "cell", "reference", "compare", "time" } =>
       /\ b =< Len(program.aligned) /\ (i =< Len(program.impls) \/ s = 1)
       /\ SoFar(program, out, At(program, b, i, s))
  /\ pc \in { "reference", "compare" } => ~Run!impl.skip
  /\ pc = "time" => ~BadAt(program, At(program, b, i, s))
  /\ pc = "done" => out = Run!TableOf(program)

\* The place in the loops is that of an entry.
LEMMA PlaceIs ==
  ASSUME RunPrinted, program \in Programs, i =< Len(program.impls), s =< Len(Sizes),
         b =< Len(program.aligned)
  PROVE  /\ At(program, b, i, s) \in 0 .. Entries(program) - 1
         /\ CellOf(program, At(program, b, i, s)) = << b, i, s >>
         /\ BadAt(program, At(program, b, i, s)) <=>
              ~Run!impl.skip /\ Run!Detectable(program.kind, Run!impl, Run!n)
<1>1. Len(program.aligned) \in Nat /\ Len(program.impls) \in Nat /\ Len(Sizes) \in Nat
  BY ProgramsAssumption, SizesAssumption
<1>2. /\ b \in 1 .. Len(program.aligned) /\ i \in 1 .. Len(program.impls)
      /\ s \in 1 .. Len(Sizes)
  BY <1>1 DEF RunPrinted
<1>3. /\ At(program, b, i, s) \in 0 .. Entries(program) - 1
      /\ CellOf(program, At(program, b, i, s)) = << b, i, s >>
  BY <1>2, CellIs
<1>. QED  BY <1>3 DEF BadAt, Run!impl, Run!n

LEMMA InitPrinted == Run!Init => RunPrinted
<1>. SUFFICES ASSUME Run!Init PROVE RunPrinted
  OBVIOUS
<1>1. program \in Programs /\ b = 1 /\ i = 1 /\ s = 1 /\ pc = "bench" /\ out = << >>
  BY DEF Run!Init
<1>2. At(program, 1, 1, 1) = 0
  BY <1>1, AtMoves
<1>3. SoFar(program, out, 0)
  BY <1>1 DEF SoFar
<1>4. Len(program.aligned) \in Nat /\ Len(program.impls) \in Nat /\ Len(Sizes) \in Nat
  BY <1>1, ProgramsAssumption, SizesAssumption
<1>. QED  BY <1>1, <1>2, <1>3, <1>4 DEF RunPrinted

\* One more entry.
LEMMA OneMore ==
  ASSUME NEW p \in Programs, NEW k \in 0 .. Entries(p) - 1, NEW q, SoFar(p, q, k), ~BadAt(p, k)
  PROVE  SoFar(p, Append(q, CellOf(p, k)), k + 1)
<1>1. CellOf(p, k) \in Entry /\ k \in Nat
  BY EntriesNat, CellType
<1>2. /\ q \in Seq(Entry) /\ Len(q) = k
      /\ \A j \in 1 .. k : q[j] = CellOf(p, j - 1)
      /\ \A j \in 0 .. k - 1 : ~BadAt(p, j)
  BY DEF SoFar
<1>3. PICK e \in Entry : e = CellOf(p, k)
  BY <1>1
<1>4. PICK t : t = Append(q, e)
  OBVIOUS
<1>5. t \in Seq(Entry) /\ Len(t) = k + 1 /\ t[k + 1] = e /\ \A j \in 1 .. k : t[j] = q[j]
  BY <1>2, <1>3, <1>4
<1>6. \A j \in 1 .. k + 1 : t[j] = CellOf(p, j - 1)
  <2>. TAKE j \in 1 .. k + 1
  <2>1. CASE j = k + 1
    <3>1. j - 1 = k
      BY <1>1, <2>1
    <3>. QED  BY <1>3, <1>5, <2>1, <3>1
  <2>2. CASE j # k + 1
    <3>1. j \in 1 .. k
      BY <1>1, <2>2
    <3>. QED  BY <1>2, <1>5, <3>1
  <2>. QED  BY <2>1, <2>2
<1>7. \A j \in 0 .. (k + 1) - 1 : ~BadAt(p, j)
  <2>. TAKE j \in 0 .. (k + 1) - 1
  <2>1. j = k \/ j \in 0 .. k - 1
    BY <1>1
  <2>. QED  BY <1>2, <2>1
<1>8. SoFar(p, t, k + 1)
  BY <1>5, <1>6, <1>7 DEF SoFar
<1>. QED  BY <1>3, <1>4, <1>8

LEMMA StepPrinted ==
  ASSUME ReferencesRight, RunInv, RunPrinted, [Run!Next]_(Run!vars)
  PROVE  RunPrinted'
<1>0. /\ program \in Programs /\ program' = program
      /\ Len(program.aligned) \in Nat /\ Len(program.impls) \in Nat /\ Len(Sizes) \in Nat
  <2>1. program \in Programs
    BY DEF RunInv, RunTypes
  <2>2. program' = program
    BY DEF Run!Next, Run!vars, Run!StartBench, Run!NextBench, Run!NextRow, Run!Skip,
           Run!RunKernel, Run!RunReference, Run!Agree, Run!Differ, Run!Measure, Run!Report,
           Run!Finish, Run!Terminating
  <2>. QED  BY <2>1, <2>2, ProgramsAssumption, SizesAssumption
<1>. PICK p \in Programs : p = program
  BY <1>0
<1>1. PICK A \in Nat, I \in Nat, S \in Nat :
        A = Len(p.aligned) /\ I = Len(p.impls) /\ S = Len(Sizes)
  BY <1>0
<1>2. /\ b \in Nat \ {0} /\ i \in Nat \ {0} /\ s \in Nat \ {0}
      /\ b =< A + 1 /\ i =< I + 1 /\ s =< S + 1
      /\ pc = "bench" => SoFar(p, out, At(p, b, 1, 1))
      /\ pc \in { "cell", "reference", "compare", "time" } =>
           b =< A /\ (i =< I \/ s = 1) /\ SoFar(p, out, At(p, b, i, s))
  BY <1>0, <1>1 DEF RunPrinted
<1>. USE <1>0, <1>1
<1>3. CASE Run!StartBench
  <2>1. /\ pc = "bench" /\ b =< A /\ b' = b /\ i' = 1 /\ s' = 1 /\ pc' = "cell" /\ out' = out
    BY <1>3 DEF Run!StartBench
  <2>. QED  BY <1>2, <2>1 DEF RunPrinted
<1>4. CASE Run!NextBench
  <2>1. pc = "cell" /\ i > I /\ b' = b + 1 /\ pc' = "bench" /\ out' = out /\ i' = i /\ s' = s
    BY <1>4 DEF Run!NextBench
  <2>2. i = I + 1 /\ s = 1 /\ b =< A
    BY <1>2, <2>1
  <2>3. At(p, b, I + 1, 1) = At(p, b + 1, 1, 1)
    BY <1>2, AtMoves
  <2>4. SoFar(p, out, At(p, b + 1, 1, 1))
    BY <1>2, <2>1, <2>2, <2>3
  <2>. QED  BY <1>2, <2>1, <2>2, <2>4 DEF RunPrinted
<1>5. CASE Run!NextRow
  <2>1. /\ pc = "cell" /\ i =< I /\ s > S /\ i' = i + 1 /\ s' = 1 /\ pc' = "cell"
        /\ out' = out /\ b' = b
    BY <1>5 DEF Run!NextRow
  <2>2. s = S + 1 /\ b =< A
    BY <1>2, <2>1
  <2>3. At(p, b, i, S + 1) = At(p, b, i + 1, 1)
    BY <1>2, AtMoves
  <2>4. SoFar(p, out, At(p, b, i + 1, 1))
    BY <1>2, <2>1, <2>2, <2>3
  <2>. QED  BY <1>2, <2>1, <2>2, <2>4 DEF RunPrinted
<1>6. CASE Run!Skip
  <2>1. /\ pc = "cell" /\ i =< I /\ s =< S /\ pc' = "time" /\ (i = 1 \/ Run!impl.skip)
        /\ UNCHANGED << out, b, i, s >>
    BY <1>6 DEF Run!Skip, Run!AtCell, Run!Compared
  <2>2. ~BadAt(p, At(p, b, i, s))
    <3>1. p.impls[1].wrong = {} /\ ~p.impls[1].over
      BY DEF ReferencesRight
    <3>2. i = 1 => ~Run!Detectable(program.kind, Run!impl, Run!n)
      BY <3>1 DEF Run!Detectable, Run!impl
    <3>. QED  BY <1>2, <2>1, <3>2, PlaceIs
  <2>. QED  BY <1>2, <2>1, <2>2 DEF RunPrinted
<1>7. CASE Run!RunKernel
  <2>1. /\ pc = "cell" /\ i =< I /\ s =< S /\ pc' = "reference" /\ ~Run!impl.skip
        /\ UNCHANGED << out, b, i, s >> /\ Run!impl' = Run!impl
    BY <1>7 DEF Run!RunKernel, Run!AtCell, Run!Compared, Run!impl
  <2>. QED  BY <1>2, <2>1 DEF RunPrinted
<1>8. CASE Run!RunReference
  <2>1. /\ pc = "reference" /\ pc' = "compare" /\ ~Run!impl.skip
        /\ UNCHANGED << out, b, i, s >> /\ Run!impl' = Run!impl
    BY <1>8 DEF Run!RunReference, Run!impl, RunPrinted
  <2>. QED  BY <1>2, <2>1 DEF RunPrinted
<1>9. CASE Run!Agree
  <2>1. /\ pc = "compare" /\ si = s0 /\ pc' = "time" /\ UNCHANGED << out, b, i, s >>
    BY <1>9 DEF Run!Agree
  <2>2. i =< I /\ s =< S
    BY <2>1 DEF RunInv, RunTypes
  <2>3. ~Run!Detectable(program.kind, Run!impl, Run!n)
    BY <2>1, ComparedExactly DEF Run!ComparisonExact
  <2>4. ~BadAt(p, At(p, b, i, s))
    BY <1>2, <2>1, <2>2, <2>3, PlaceIs
  <2>. QED  BY <1>2, <2>1, <2>4 DEF RunPrinted
<1>10. CASE Run!Differ
  <2>1. /\ pc = "compare" /\ si # s0 /\ pc' = "done" /\ UNCHANGED << b, i, s >>
        /\ out' = Append(out, << >>)
    BY <1>10 DEF Run!Differ, Run!Error
  <2>2. i =< I /\ s =< S
    BY <2>1 DEF RunInv, RunTypes
  <2>3. Run!Detectable(program.kind, Run!impl, Run!n) /\ ~Run!impl.skip
    BY <2>1, ComparedExactly DEF Run!ComparisonExact, RunPrinted
  <2>4. At(p, b, i, s) \in 0 .. Entries(p) - 1 /\ BadAt(p, At(p, b, i, s))
    BY <1>2, <2>1, <2>2, <2>3, PlaceIs
  <2>5. out' = Run!TableOf(p)
    BY <1>2, <2>1, <2>4, TableStops
  <2>6. Run!TableOf(program)' = Run!TableOf(p)
    BY DEF Run!TableOf, Run!Detectable, Run!Error
  <2>. QED  BY <1>2, <2>1, <2>5, <2>6 DEF RunPrinted
<1>11. CASE Run!Measure
  <2>1. pc = "time" /\ pc' = "time" /\ UNCHANGED << out, b, i, s >>
    BY <1>11 DEF Run!Measure
  <2>. QED  BY <1>2, <2>1 DEF RunPrinted
<1>12. CASE Run!Report
  <2>1. /\ pc = "time" /\ out' = Append(out, << b, i, s >>) /\ s' = s + 1 /\ pc' = "cell"
        /\ b' = b /\ i' = i
    BY <1>12 DEF Run!Report
  <2>2. i =< I /\ s =< S
    BY <2>1 DEF RunInv, RunTypes
  <2>3. PICK k : k = At(p, b, i, s)
    OBVIOUS
  <2>4. k \in 0 .. Entries(p) - 1 /\ CellOf(p, k) = << b, i, s >> /\ ~BadAt(p, k)
    BY <1>2, <2>1, <2>2, <2>3, PlaceIs DEF RunPrinted
  <2>5. SoFar(p, out', k + 1)
    BY <1>2, <2>1, <2>3, <2>4, OneMore
  <2>6. At(p, b, i, s + 1) = k + 1
    BY <1>2, <2>3, AtMoves
  <2>. QED  BY <1>2, <2>1, <2>2, <2>5, <2>6 DEF RunPrinted
<1>13. CASE Run!Finish
  <2>1. pc = "bench" /\ b > A /\ pc' = "done" /\ UNCHANGED << b, i, s, out >>
    BY <1>13 DEF Run!Finish
  <2>2. b = A + 1
    BY <1>2, <2>1
  <2>3. At(p, A + 1, 1, 1) = Entries(p)
    BY AtMoves
  <2>4. out = Run!TableOf(p)
    BY <1>2, <2>1, <2>2, <2>3, TableAll
  <2>6. Run!TableOf(program)' = Run!TableOf(p)
    BY DEF Run!TableOf, Run!Detectable, Run!Error
  <2>. QED  BY <1>2, <2>1, <2>4, <2>6 DEF RunPrinted
<1>14. CASE UNCHANGED Run!vars
  <2>1. UNCHANGED << program, pc, b, i, s, out >> /\ Run!impl' = Run!impl
    BY <1>14 DEF Run!vars, Run!impl
  <2>6. Run!TableOf(program)' = Run!TableOf(program)
    BY DEF Run!TableOf, Run!Detectable, Run!Error
  <2>. QED  BY <2>1, <2>6 DEF RunPrinted
<1>. QED
  BY <1>3, <1>4, <1>5, <1>6, <1>7, <1>8, <1>9, <1>10, <1>11, <1>12, <1>13, <1>14
     DEF Run!Next, Run!Terminating

\* What bench_run does to the table.
LEMMA RunWrites ==
  ASSUME ReferencesRight, RunInv, RunPrinted, [Run!Next]_(Run!vars)
  PROVE  [Abstract!Write]_(Abstract!vars)
<1>0. program \in Programs /\ program' = program
  <2>1. program \in Programs
    BY DEF RunInv, RunTypes
  <2>2. program' = program
    BY DEF Run!Next, Run!vars, Run!StartBench, Run!NextBench, Run!NextRow, Run!Skip,
           Run!RunKernel, Run!RunReference, Run!Agree, Run!Differ, Run!Measure, Run!Report,
           Run!Finish, Run!Terminating
  <2>. QED  BY <2>1, <2>2
<1>. PICK p : p = program
  OBVIOUS
<1>1. Output(program) = Run!TableOf(p)
  BY <1>0, ProgramsAssumption DEF Output
<1>2. PICK T : T = Run!TableOf(p)
  OBVIOUS
<1>3. RunPrinted'
  BY StepPrinted
<1>4. /\ Len(program.aligned) \in Nat /\ Len(program.impls) \in Nat /\ Len(Sizes) \in Nat
      /\ b \in Nat \ {0} /\ i \in Nat \ {0} /\ s \in Nat \ {0}
  BY <1>0, ProgramsAssumption, SizesAssumption DEF RunPrinted
<1>5. Run!TableOf(program)' = T
  <2>1. Run!TableOf(program)' = Run!TableOf(p)
    BY <1>0 DEF Run!TableOf, Run!Detectable, Run!Error
  <2>. QED  BY <1>2, <2>1
<1>6. CASE Run!Report
  <2>1. /\ pc = "time" /\ out' = Append(out, << b, i, s >>) /\ s' = s + 1 /\ pc' = "cell"
        /\ b' = b /\ i' = i
    BY <1>6 DEF Run!Report
  <2>2. i =< Len(program.impls) /\ s =< Len(Sizes) /\ b =< Len(program.aligned)
        /\ SoFar(program, out, At(program, b, i, s))
    BY <2>1 DEF RunInv, RunTypes, RunPrinted
  <2>3. PICK k : k = At(program, b, i, s)
    OBVIOUS
  <2>4. k \in 0 .. Entries(program) - 1 /\ k + 1 \in 0 .. Entries(program)
    BY <1>0, <2>2, <2>3, PlaceIs, EntriesNat
  <2>5. At(program, b, i, s + 1) = k + 1
    BY <1>0, <1>4, <2>3, AtMoves
  <2>6. SoFar(program, out', k + 1)
    BY <1>0, <1>3, <2>1, <2>5 DEF RunPrinted
  <2>7. Abstract!IsPrefix(out', T)
    BY <1>0, <1>2, <2>4, <2>6, TableStarts
  <2>8. out \in Seq(Entry) /\ << b, i, s >> \in Entry
    BY <1>4, <2>2 DEF SoFar, Entry
  <2>9. Abstract!IsPrefix(out, out')
    BY <2>1, <2>8, OneLonger
  <2>. QED  BY <1>0, <1>1, <1>2, <2>1, <2>7, <2>9 DEF Abstract!Write
<1>7. CASE Run!Differ
  <2>1. pc = "compare" /\ pc' = "done" /\ out' = Append(out, << >>)
    BY <1>7 DEF Run!Differ, Run!Error
  <2>2. out' = T
    BY <1>3, <1>5, <2>1 DEF RunPrinted
  <2>3. out \in Seq(Entry) /\ << >> \in Entry
    BY <2>1 DEF RunPrinted, SoFar, Entry
  <2>4. out' \in Seq(Entry)
    BY <2>1, <2>3
  <2>5. Abstract!IsPrefix(out, out') /\ Abstract!IsPrefix(out', T)
    <3>1. Abstract!IsPrefix(out, out')
      BY <2>1, <2>3, OneLonger
    <3>2. Abstract!IsPrefix(out', out')
      BY <2>4, PrefixOf
    <3>. QED  BY <2>2, <3>1, <3>2
  <2>. QED  BY <1>0, <1>1, <1>2, <2>1, <2>2, <2>5 DEF Abstract!Write
<1>8. CASE Run!Finish
  <2>1. pc = "bench" /\ pc' = "done" /\ out' = out
    BY <1>8 DEF Run!Finish
  <2>2. out' = T
    BY <1>3, <1>5, <2>1 DEF RunPrinted
  <2>3. out \in Seq(Entry)
    BY <2>1 DEF RunPrinted, SoFar
  <2>4. Abstract!IsPrefix(out, out') /\ Abstract!IsPrefix(out', T)
    BY <2>1, <2>2, <2>3, PrefixOf
  <2>. QED  BY <1>0, <1>1, <1>2, <2>1, <2>2, <2>4 DEF Abstract!Write
<1>9. ASSUME ~(Run!Report \/ Run!Differ \/ Run!Finish)
      PROVE  out' = out /\ (pc' = "done" <=> pc = "done")
  <2>1. CASE Run!StartBench \/ Run!NextBench \/ Run!NextRow
    BY <2>1 DEF Run!StartBench, Run!NextBench, Run!NextRow
  <2>2. CASE Run!Skip \/ Run!RunKernel
    BY <2>2 DEF Run!Skip, Run!RunKernel, Run!AtCell
  <2>3. CASE Run!RunReference \/ Run!Agree \/ Run!Measure
    BY <2>3 DEF Run!RunReference, Run!Agree, Run!Measure
  <2>4. CASE UNCHANGED Run!vars
    BY <2>4 DEF Run!vars
  <2>. QED  BY <1>9, <2>1, <2>2, <2>3, <2>4 DEF Run!Next, Run!Terminating
<1>10. CASE out' = out /\ (pc' = "done" <=> pc = "done")
  BY <1>0, <1>10 DEF Abstract!vars
<1>. QED  BY <1>6, <1>7, <1>8, <1>9, <1>10

-----------------------------------------------------------------------------
(* The programs that run each kernel once: the lines.                      *)

LineOf(p, j) ==
  IF p.kind = "fixed"
    THEN << j, Fixed!ResultOf(p.impls[j]), Fixed!Passes(p.impls[j]), Fixed!MaxError(p.impls[j]) >>
    ELSE << j, Fixed!ResultOf(p.impls[j]) >>

Lines(p) == { LineOf(p, j) : j \in DOMAIN p.impls } \cup { << "success" >>, << "failure" >> }

Rounds(p) == [j \in DOMAIN p.impls |-> LineOf(p, j)]

Good(p) == p.kind = "fixed" => \A j \in DOMAIN p.impls : Fixed!Passes(p.impls[j])

\* the first k lines
LinesSoFar(p, q, k) ==
  q \in Seq(Lines(p)) /\ Len(q) = k /\ \A j \in 1 .. k : q[j] = LineOf(p, j)

LEMMA FixedType ==
  ASSUME NEW p \in FixedPrograms
  PROVE  /\ p.kind \in { "fixed", "i8i32" } /\ p.simulation \in BOOLEAN
         /\ Len(p.impls) \in Nat \ {0} /\ DOMAIN p.impls = 1 .. Len(p.impls)
         /\ Len(p.impls[1]) \in Nat \ {0}
         /\ \A j \in 1 .. Len(p.impls) :
              /\ DOMAIN p.impls[j] = 1 .. Len(p.impls[1])
              /\ \A e \in 1 .. Len(p.impls[1]) :
                   p.impls[j][e] \in { "same", "near", "far", "nan", "nothing" }
<1>. DEFINE Effects == { "same", "near", "far", "nan", "nothing" }
            Matrices == Seq(Effects) \ { << >> }
<1>1. p.kind \in { "fixed", "i8i32" } /\ p.simulation \in BOOLEAN
      /\ p.impls \in Seq(Matrices) /\ p.impls # << >>
  BY FixedProgramsAssumption
<1>2. \A j \in DOMAIN p.impls : Len(p.impls[j]) = Len(p.impls[1])
  BY FixedProgramsAssumption
<1>3. PICK q \in Seq(Matrices) : q = p.impls
  BY <1>1
<1>4. \A j \in 1 .. Len(q) : q[j] \in Matrices
  <2>. HIDE DEF Matrices
  <2>. QED  OBVIOUS
<1>5. Len(q) \in Nat \ {0} /\ DOMAIN q = 1 .. Len(q)
  <2>. HIDE DEF Matrices
  <2>. QED  BY <1>1, <1>3
<1>6. \A f \in Matrices : /\ Len(f) \in Nat \ {0} /\ DOMAIN f = 1 .. Len(f)
                          /\ \A e \in 1 .. Len(f) : f[e] \in Effects
  <2>. HIDE DEF Effects
  <2>. QED  OBVIOUS
<1>7. 1 \in 1 .. Len(q)
  BY <1>5
<1>8. \A j \in 1 .. Len(q) : q[j] \in Matrices /\ Len(q[j]) = Len(q[1])
  BY <1>2, <1>3, <1>4, <1>5
<1>. HIDE DEF Matrices, Effects
<1>9. Len(q[1]) \in Nat \ {0}
  BY <1>6, <1>7, <1>8
<1>10. \A j \in 1 .. Len(q) : /\ DOMAIN q[j] = 1 .. Len(q[1])
                              /\ \A e \in 1 .. Len(q[1]) : q[j][e] \in Effects
  BY <1>6, <1>8
<1>. QED  BY <1>1, <1>3, <1>5, <1>9, <1>10 DEF Effects

LEMMA RoundsIs ==
  ASSUME NEW p \in FixedPrograms
  PROVE  /\ Rounds(p) \in Seq(Lines(p)) /\ Len(Rounds(p)) = Len(p.impls)
         /\ \A j \in 1 .. Len(p.impls) : Rounds(p)[j] = LineOf(p, j)
<1>1. Len(p.impls) \in Nat /\ DOMAIN p.impls = 1 .. Len(p.impls)
  BY FixedType
<1>2. Rounds(p) \in [1 .. Len(p.impls) -> Lines(p)]
  BY <1>1 DEF Rounds, Lines
<1>. QED  BY <1>1, <1>2 DEF Rounds

LEMMA LinesIs ==
  ASSUME NEW p \in FixedPrograms
  PROVE  Fixed!Lines(p) = IF p.simulation
                            THEN Append(Rounds(p), << IF Good(p) THEN "success" ELSE "failure" >>)
                            ELSE Rounds(p)
<1>1. Fixed!Lines(p) = Rounds(p) \o (IF p.simulation
                                       THEN << << IF Good(p) THEN "success" ELSE "failure" >> >>
                                       ELSE << >>)
  BY DEF Fixed!Lines, Rounds, LineOf, Good
<1>2. PICK r \in Seq(Lines(p)) : r = Rounds(p)
  BY RoundsIs
<1>3. PICK e \in Lines(p) : e = << IF Good(p) THEN "success" ELSE "failure" >>
  BY DEF Lines
<1>4. r \o << e >> = Append(r, e) /\ r \o << >> = r
  BY AppendIsConcat, ConcatEmptySeq
<1>. QED  BY <1>1, <1>2, <1>3, <1>4

LEMMA LinesSoFarIs ==
  ASSUME NEW p \in FixedPrograms, NEW q, LinesSoFar(p, q, Len(p.impls))
  PROVE  q = Rounds(p)
<1>1. PICK u \in Seq(Lines(p)) : u = Rounds(p)
  BY RoundsIs
<1>2. q \in Seq(Lines(p)) /\ Len(q) = Len(u) /\ \A j \in 1 .. Len(u) : q[j] = u[j]
  BY <1>1, RoundsIs, FixedType DEF LinesSoFar
<1>. QED  BY <1>1, <1>2

LEMMA LinesStart ==
  ASSUME NEW p \in FixedPrograms, NEW k \in 0 .. Len(p.impls), NEW q, LinesSoFar(p, q, k)
  PROVE  Abstract!IsPrefix(q, Fixed!Lines(p))
<1>1. PICK u \in Seq(Lines(p)) : u = Rounds(p)
  BY RoundsIs
<1>2. Len(u) = Len(p.impls) /\ \A j \in 1 .. Len(p.impls) : u[j] = LineOf(p, j)
  BY <1>1, RoundsIs
<1>3. Len(p.impls) \in Nat
  BY FixedType
<1>4. PICK e \in Lines(p) : e = << IF Good(p) THEN "success" ELSE "failure" >>
  BY DEF Lines
<1>5. PICK t \in Seq(Lines(p)) : t = IF p.simulation THEN Append(u, e) ELSE u
  <2>1. Append(u, e) \in Seq(Lines(p)) /\ u \in Seq(Lines(p))
    OBVIOUS
  <2>2. PICK a \in Seq(Lines(p)) : a = Append(u, e)
    BY <2>1
  <2>. QED  BY <2>1, <2>2
<1>6. Len(u) =< Len(t) /\ \A j \in 1 .. Len(u) : t[j] = u[j]
  BY <1>3, <1>2, <1>5
<1>7. q \in Seq(Lines(p)) /\ Len(q) =< Len(t) /\ \A j \in 1 .. Len(q) : q[j] = t[j]
  BY <1>2, <1>3, <1>6 DEF LinesSoFar
<1>8. Abstract!IsPrefix(q, t)
  BY <1>7, PrefixOf
<1>9. t = Fixed!Lines(p)
  BY <1>1, <1>4, <1>5, LinesIs
<1>. QED  BY <1>8, <1>9

\* m is the largest distance of the first k elements
Largest(q, m, k) ==
  /\ m \in 0 .. 2 /\ \A e \in 1 .. k : q[e] # "nan" /\ Fixed!Distance(q[e]) =< m
  /\ m = 0 \/ \E e \in 1 .. k : Fixed!Distance(q[e]) = m

Size == Len(program.impls[1])

FixedPrinted ==
  /\ program \in FixedPrograms
  /\ i \in Nat \ {0} /\ i =< Len(program.impls) + 1
  /\ pc \in { "measure", "compare", "report", "done" }
  /\ pass \in BOOLEAN /\ failed \in BOOLEAN
  /\ pc \in { "compare", "report" } =>
       /\ i =< Len(program.impls) /\ mem = Fixed!ResultOf(program.impls[i])
       /\ program.kind # "fixed" => pass
  /\ pc = "compare" =>
       /\ program.kind = "fixed" /\ s \in 1 .. Size + 1
       /\ Largest(mem, sum, s - 1)
       /\ pass <=> \A e \in 1 .. s - 1 : Fixed!Distance(mem[e]) =< 1
  /\ pc = "report" /\ program.kind = "fixed" =>
       /\ pass = Fixed!Passes(program.impls[i]) /\ sum = Fixed!MaxError(program.impls[i])
  /\ pc # "done" =>
       /\ LinesSoFar(program, out, i - 1)
       /\ failed <=> \E j \in 1 .. i - 1 :
                       program.kind = "fixed" /\ ~Fixed!Passes(program.impls[j])
  /\ pc = "done" => out = Fixed!Lines(program)

\* What is left of a kernel's result when nothing is left of what was there.
LEMMA ResultIs ==
  ASSUME NEW p \in FixedPrograms, NEW j \in 1 .. Len(p.impls), NEW q,
         q = Fixed!ResultOf(p.impls[j])
  PROVE  /\ q = [e \in 1 .. Len(p.impls[1]) |-> q[e]] /\ Len(q) = Len(p.impls[1])
         /\ \A e \in 1 .. Len(p.impls[1]) :
              /\ q[e] \in { "same", "near", "far", "nan", "zero" }
              /\ q[e] = "nan" <=> p.impls[j][e] = "nan"
              /\ q[e] \in { "same", "near" } <=> p.impls[j][e] \in { "same", "near" }
              /\ q[e] = IF p.impls[j][e] = "nothing" THEN "zero" ELSE p.impls[j][e]
              /\ q[e] # "nan" => Fixed!Distance(q[e]) \in 0 .. 2
              /\ q[e] # "nan" =>
                   (Fixed!Distance(q[e]) =< 1 <=> q[e] \in { "same", "near" })
<1>1. PICK f, m : f = p.impls[j] /\ m = Len(p.impls[1])
  OBVIOUS
<1>2. m \in Nat /\ DOMAIN f = 1 .. m
      /\ \A e \in 1 .. m : f[e] \in { "same", "near", "far", "nan", "nothing" }
  BY <1>1, FixedType
<1>3. q = [e \in 1 .. m |-> IF f[e] = "nothing" THEN "zero" ELSE f[e]]
  BY <1>1, <1>2 DEF Fixed!ResultOf
<1>4. \A e \in 1 .. m : q[e] = IF f[e] = "nothing" THEN "zero" ELSE f[e]
  BY <1>3
<1>5. q = [e \in 1 .. m |-> q[e]] /\ Len(q) = m
  BY <1>2, <1>3
<1>6. \A v \in { "same", "near", "far", "nan", "zero" } :
        v # "nan" => /\ Fixed!Distance(v) \in 0 .. 2
                     /\ Fixed!Distance(v) =< 1 <=> v \in { "same", "near" }
  BY DEF Fixed!Distance
<1>7. \A e \in 1 .. m : /\ q[e] \in { "same", "near", "far", "nan", "zero" }
                        /\ q[e] = "nan" <=> f[e] = "nan"
                        /\ q[e] \in { "same", "near" } <=> f[e] \in { "same", "near" }
  BY <1>2, <1>4
<1>. QED  BY <1>1, <1>4, <1>5, <1>6, <1>7

LEMMA LargestIs ==
  ASSUME NEW p \in FixedPrograms, NEW j \in 1 .. Len(p.impls), NEW m,
         Largest(Fixed!ResultOf(p.impls[j]), m, Len(p.impls[1]))
  PROVE  m = Fixed!MaxError(p.impls[j])
<1>1. PICK f, q : f = p.impls[j] /\ q = Fixed!ResultOf(f)
  OBVIOUS
<1>2. PICK k \in Nat \ {0} : k = Len(p.impls[1])
  BY FixedType
<1>3. /\ DOMAIN f = 1 .. k
      /\ \A e \in 1 .. k : /\ q[e] = "nan" <=> f[e] = "nan"
                           /\ q[e] # "nan" => Fixed!Distance(q[e]) \in 0 .. 2
  BY <1>1, <1>2, FixedType, ResultIs
<1>4. /\ m \in 0 .. 2 /\ \A e \in 1 .. k : q[e] # "nan" /\ Fixed!Distance(q[e]) =< m
      /\ m = 0 \/ \E e \in 1 .. k : Fixed!Distance(q[e]) = m
  BY <1>1, <1>2 DEF Largest
<1>5. \E e \in 1 .. k : Fixed!Distance(q[e]) = m
  <2>1. CASE m = 0
    <3>1. 1 \in 1 .. k
      OBVIOUS
    <3>. QED  BY <1>3, <1>4, <2>1, <3>1
  <2>. QED  BY <1>4, <2>1
<1>. DEFINE Top(d) == /\ \E e \in DOMAIN f : Fixed!Distance(q[e]) = d
                      /\ \A e \in DOMAIN f : Fixed!Distance(q[e]) =< d
<1>6. Top(m)
  BY <1>3, <1>4, <1>5
<1>7. \A d \in 0 .. 2 : Top(d) => d = m
  <2>. SUFFICES ASSUME NEW d \in 0 .. 2, Top(d) PROVE d = m
    OBVIOUS
  <2>1. d =< m /\ m =< d
    BY <1>3, <1>4, <1>5
  <2>. QED  BY <1>4, <2>1
<1>8. (CHOOSE d \in 0 .. 2 : Top(d)) = m
  <2>. HIDE DEF Top
  <2>. QED  BY <1>4, <1>6, <1>7
<1>9. ~ \E e \in DOMAIN f : f[e] = "nan"
  BY <1>3, <1>4
<1>10. Fixed!MaxError(f) = CHOOSE d \in 0 .. 2 : Top(d)
  BY <1>1, <1>9 DEF Fixed!MaxError
<1>. QED  BY <1>1, <1>8, <1>10

LEMMA FixedInitPrinted == program \in FixedPrograms /\ Fixed!FixedInit => FixedPrinted
<1>. SUFFICES ASSUME program \in FixedPrograms, Fixed!FixedInit PROVE FixedPrinted
  OBVIOUS
<1>1. i = 1 /\ pc = "measure" /\ pass = TRUE /\ failed = FALSE /\ out = << >>
  BY DEF Fixed!FixedInit
<1>2. Len(program.impls) \in Nat
  BY FixedType
<1>3. LinesSoFar(program, out, 0)
  BY <1>1 DEF LinesSoFar
<1>4. i - 1 = 0 /\ 1 .. 0 = {}
  BY <1>1
<1>5. LinesSoFar(program, out, i - 1)
      /\ (failed <=> \E j \in 1 .. i - 1 : program.kind = "fixed" /\ ~Fixed!Passes(program.impls[j]))
  BY <1>1, <1>3, <1>4
<1>6. i \in Nat \ {0} /\ i =< Len(program.impls) + 1 /\ pc = "measure"
      /\ pass \in BOOLEAN /\ failed \in BOOLEAN
  <2>1. i \in Nat \ {0} /\ i =< Len(program.impls) + 1
    BY <1>1, <1>2
  <2>. QED  BY <1>1, <2>1
<1>. QED  BY <1>5, <1>6 DEF FixedPrinted

\* One element more.
LEMMA OneElementMore ==
  ASSUME NEW p \in FixedPrograms, NEW j \in 1 .. Len(p.impls), NEW q,
         q = Fixed!ResultOf(p.impls[j]), NEW k \in 1 .. Len(p.impls[1]), q[k] # "nan", NEW m,
         Largest(q, m, k - 1)
  PROVE  Largest(q, IF Fixed!Distance(q[k]) > m THEN Fixed!Distance(q[k]) ELSE m, k)
<1>1. PICK d \in 0 .. 2 : d = Fixed!Distance(q[k])
  BY ResultIs
<1>2. /\ m \in 0 .. 2 /\ \A e \in 1 .. k - 1 : q[e] # "nan" /\ Fixed!Distance(q[e]) =< m
      /\ m = 0 \/ \E e \in 1 .. k - 1 : Fixed!Distance(q[e]) = m
  BY DEF Largest
<1>3. k \in Nat \ {0}
  BY FixedType
<1>4. \A e \in 1 .. k - 1 : Fixed!Distance(q[e]) \in 0 .. 2 /\ e \in 1 .. k
  BY <1>2, <1>3, ResultIs, FixedType
<1>5. PICK g \in 0 .. 2 : g = IF d > m THEN d ELSE m
  BY <1>2
<1>6. \A e \in 1 .. k : q[e] # "nan" /\ Fixed!Distance(q[e]) =< g
  <2>. TAKE e \in 1 .. k
  <2>1. CASE e = k
    BY <1>1, <1>2, <1>5, <2>1
  <2>2. CASE e # k
    <3>1. e \in 1 .. k - 1
      BY <1>3, <2>2
    <3>. QED  BY <1>1, <1>2, <1>4, <1>5, <3>1
  <2>. QED  BY <2>1, <2>2
<1>7. g = 0 \/ \E e \in 1 .. k : Fixed!Distance(q[e]) = g
  <2>1. CASE d > m
    <3>1. k \in 1 .. k
      BY <1>3
    <3>. QED  BY <1>1, <1>5, <2>1, <3>1
  <2>2. CASE ~(d > m)
    BY <1>2, <1>4, <1>5, <2>2
  <2>. QED  BY <2>1, <2>2
<1>8. Largest(q, g, k)
  BY <1>6, <1>7 DEF Largest
<1>. QED  BY <1>1, <1>5, <1>8

LEMMA OneLineMore ==
  ASSUME NEW p \in FixedPrograms, NEW j \in 1 .. Len(p.impls), NEW q, LinesSoFar(p, q, j - 1)
  PROVE  LinesSoFar(p, Append(q, LineOf(p, j)), j)
<1>1. j \in Nat \ {0} /\ j \in DOMAIN p.impls
  BY FixedType
<1>2. PICK e \in Lines(p) : e = LineOf(p, j)
  BY <1>1 DEF Lines
<1>3. q \in Seq(Lines(p)) /\ Len(q) = j - 1 /\ \A h \in 1 .. j - 1 : q[h] = LineOf(p, h)
  BY DEF LinesSoFar
<1>4. PICK t : t = Append(q, e)
  OBVIOUS
<1>5. t \in Seq(Lines(p)) /\ Len(t) = j /\ t[j] = e /\ \A h \in 1 .. j - 1 : t[h] = q[h]
  BY <1>1, <1>3, <1>4
<1>6. \A h \in 1 .. j : t[h] = LineOf(p, h)
  <2>. TAKE h \in 1 .. j
  <2>1. CASE h = j
    BY <1>2, <1>5, <2>1
  <2>2. CASE h # j
    <3>1. h \in 1 .. j - 1
      BY <1>1, <2>2
    <3>. QED  BY <1>3, <1>5, <3>1
  <2>. QED  BY <2>1, <2>2
<1>7. LinesSoFar(p, t, j)
  BY <1>5, <1>6 DEF LinesSoFar
<1>. QED  BY <1>2, <1>4, <1>7

LEMMA FixedStepPrinted ==
  ASSUME FixedPrinted, [Fixed!FixedNext]_(Fixed!fvars)
  PROVE  FixedPrinted'
<1>1. PICK p \in FixedPrograms : p = program
  BY DEF FixedPrinted
<1>2. PICK m \in Nat \ {0}, k \in Nat \ {0} : m = Len(p.impls) /\ k = Len(p.impls[1])
  BY FixedType
<1>3. /\ program' = p /\ i \in Nat \ {0} /\ i =< m + 1
      /\ p.kind \in { "fixed", "i8i32" } /\ p.simulation \in BOOLEAN
  <2>1. program' = program
    BY DEF Fixed!FixedNext, Fixed!fvars, Fixed!Measure, Fixed!CompareElement, Fixed!CompareNan,
           Fixed!Compared, Fixed!Report, Fixed!Return, Fixed!FinishTest
  <2>. QED  BY <1>1, <1>2, <2>1, FixedType DEF FixedPrinted
<1>4. pass \in BOOLEAN /\ failed \in BOOLEAN
  BY DEF FixedPrinted
<1>5. pc \in { "compare", "report" } =>
        /\ i \in 1 .. m /\ mem = Fixed!ResultOf(p.impls[i]) /\ (p.kind # "fixed" => pass)
  BY <1>1, <1>2, <1>3 DEF FixedPrinted
<1>6. pc = "compare" =>
        /\ p.kind = "fixed" /\ s \in 1 .. k + 1 /\ Largest(mem, sum, s - 1)
        /\ pass <=> \A e \in 1 .. s - 1 : Fixed!Distance(mem[e]) =< 1
  BY <1>1, <1>2 DEF FixedPrinted, Size
<1>7. pc # "done" =>
        /\ LinesSoFar(p, out, i - 1)
        /\ failed <=> \E j \in 1 .. i - 1 : p.kind = "fixed" /\ ~Fixed!Passes(p.impls[j])
  BY <1>1 DEF FixedPrinted
<1>8. pc = "report" /\ p.kind = "fixed" =>
        pass = Fixed!Passes(p.impls[i]) /\ sum = Fixed!MaxError(p.impls[i])
  BY <1>1 DEF FixedPrinted
<1>9. CASE Fixed!Measure
  <2>1. /\ pc = "measure" /\ i =< m /\ UNCHANGED << i, failed, out >>
        /\ pc' = IF p.kind = "fixed" THEN "compare" ELSE "report"
        /\ s' = 1 /\ sum' = 0 /\ pass' = TRUE
    BY <1>1, <1>2, <1>9 DEF Fixed!Measure, Fixed!Compares
  <2>2. i \in 1 .. m
    BY <1>3, <2>1
  <2>3. DOMAIN p.impls[1] = DOMAIN p.impls[i]
    BY <1>2, <2>2, FixedType
  <2>4. mem' = Fixed!ResultOf(p.impls[i])
    BY <1>1, <1>9, <2>3 DEF Fixed!Measure, Fixed!Elements, Fixed!Cleared, Fixed!ResultOf
  <2>5. Largest(mem', 0, 0)
    BY DEF Largest
  <2>6. s' - 1 = 0 /\ 1 .. 0 = {} /\ s' \in 1 .. k + 1
    BY <2>1
  <2>7. pc' = "compare" => /\ p.kind = "fixed" /\ Largest(mem', sum', s' - 1)
                           /\ pass' <=> \A e \in 1 .. s' - 1 : Fixed!Distance(mem'[e]) =< 1
    BY <2>1, <2>5, <2>6
  <2>8. /\ pc' # "done" /\ pass' \in BOOLEAN /\ pass'
        /\ pc' = "report" => p.kind # "fixed"
    BY <2>1
  <2>9. LinesSoFar(p, out', i' - 1)
        /\ (failed' <=> \E j \in 1 .. i' - 1 : p.kind = "fixed" /\ ~Fixed!Passes(p.impls[j]))
    BY <1>7, <2>1
  <2>10. pc' \in { "measure", "compare", "report", "done" } /\ failed' \in BOOLEAN
         /\ i' \in Nat \ {0} /\ i' =< m
    BY <1>3, <1>4, <2>1
  <2>. QED  BY <1>1, <1>2, <1>3, <2>1, <2>4, <2>6, <2>7, <2>8, <2>9, <2>10 DEF FixedPrinted, Size
<1>10. CASE Fixed!CompareElement
  <2>1. /\ pc = "compare" /\ s =< Len(mem) /\ mem[s] # "nan" /\ UNCHANGED << pc, i, mem, failed, out >>
        /\ sum' = IF Fixed!Distance(mem[s]) > sum THEN Fixed!Distance(mem[s]) ELSE sum
        /\ pass' = (pass /\ Fixed!Distance(mem[s]) =< 1) /\ s' = s + 1
    BY <1>10 DEF Fixed!CompareElement
  <2>2. Len(mem) = k
    BY <1>2, <1>5, <2>1, ResultIs
  <2>3. s \in 1 .. k
    BY <1>6, <2>1, <2>2
  <2>4. Largest(mem, sum', s)
    BY <1>2, <1>5, <1>6, <2>1, <2>3, OneElementMore
  <2>5. s' - 1 = s /\ s' \in 1 .. k + 1
    BY <2>1, <2>3
  <2>6. pass' <=> \A e \in 1 .. s : Fixed!Distance(mem[e]) =< 1
    <3>1. \A e \in 1 .. s : e = s \/ e \in 1 .. s - 1
      BY <2>3
    <3>2. \A e \in 1 .. s - 1 : e \in 1 .. s
      BY <2>3
    <3>3. s \in 1 .. s
      BY <2>3
    <3>. QED  BY <1>6, <2>1, <3>1, <3>2, <3>3
  <2>7. pass' \in BOOLEAN
    BY <2>1
  <2>. QED  BY <1>1, <1>2, <1>3, <1>4, <1>5, <1>6, <1>7, <2>1, <2>4, <2>5, <2>6, <2>7
            DEF FixedPrinted, Size
<1>11. CASE Fixed!CompareNan
  <2>1. /\ pc = "compare" /\ s =< Len(mem) /\ mem[s] = "nan" /\ UNCHANGED << i, mem, failed, out >>
        /\ sum' = Fixed!NotANumber /\ pass' = FALSE /\ pc' = "report"
    BY <1>11 DEF Fixed!CompareNan
  <2>2. Len(mem) = k
    BY <1>2, <1>5, <2>1, ResultIs
  <2>3. s \in 1 .. k
    BY <1>6, <2>1, <2>2
  <2>4. s \in DOMAIN p.impls[i] /\ p.impls[i][s] = "nan"
    BY <1>2, <1>5, <2>1, <2>3, ResultIs, FixedType
  <2>5. ~Fixed!Passes(p.impls[i]) /\ sum' = Fixed!MaxError(p.impls[i])
    BY <2>1, <2>4 DEF Fixed!Passes, Fixed!MaxError
  <2>6. Fixed!Passes(p.impls[i]) \in BOOLEAN
    BY DEF Fixed!Passes
  <2>. QED  BY <1>1, <1>2, <1>3, <1>4, <1>5, <1>6, <1>7, <2>1, <2>5, <2>6 DEF FixedPrinted
<1>12. CASE Fixed!Compared
  <2>1. /\ pc = "compare" /\ s > Len(mem) /\ UNCHANGED << i, mem, s, sum, pass, failed, out >>
        /\ pc' = "report"
    BY <1>12 DEF Fixed!Compared
  <2>2. Len(mem) = k
    BY <1>2, <1>5, <2>1, ResultIs
  <2>3. s - 1 = k
    BY <1>6, <2>1, <2>2
  <2>4. sum = Fixed!MaxError(p.impls[i])
    BY <1>2, <1>5, <1>6, <2>1, <2>3, LargestIs
  <2>5. pass <=> Fixed!Passes(p.impls[i])
    <3>1. \A e \in 1 .. k : mem[e] # "nan"
      BY <1>6, <2>1, <2>3 DEF Largest
    <3>2. \A e \in 1 .. k : Fixed!Distance(mem[e]) =< 1 <=> p.impls[i][e] \in { "same", "near" }
      BY <1>2, <1>5, <2>1, <3>1, ResultIs
    <3>3. DOMAIN p.impls[i] = 1 .. k
      BY <1>2, <1>5, <2>1, FixedType
    <3>. QED  BY <1>6, <2>1, <2>3, <3>2, <3>3 DEF Fixed!Passes
  <2>6. pass = Fixed!Passes(p.impls[i])
    BY <1>4, <2>5 DEF Fixed!Passes
  <2>. QED  BY <1>1, <1>2, <1>3, <1>4, <1>5, <1>6, <1>7, <2>1, <2>4, <2>6 DEF FixedPrinted
<1>13. CASE Fixed!Report
  <2>1. /\ pc = "report" /\ pc' = "measure" /\ i' = i + 1 /\ failed' = (failed \/ ~pass)
        /\ out' = Append(out, IF p.kind = "fixed" THEN << i, mem, pass, sum >> ELSE << i, mem >>)
        /\ pass' = pass
    BY <1>1, <1>13 DEF Fixed!Report, Fixed!Compares
  <2>2. i \in 1 .. m /\ i' - 1 = i
    BY <1>3, <1>5, <2>1
  <2>3. (IF p.kind = "fixed" THEN << i, mem, pass, sum >> ELSE << i, mem >>) = LineOf(p, i)
    <3>1. CASE p.kind = "fixed"
      BY <1>5, <1>8, <2>1, <3>1, Zenon DEF LineOf
    <3>2. CASE p.kind # "fixed"
      BY <1>5, <2>1, <3>2, Zenon DEF LineOf
    <3>. QED  BY <3>1, <3>2
  <2>4. LinesSoFar(p, out', i)
    BY <1>2, <1>7, <2>1, <2>2, <2>3, OneLineMore
  <2>5. failed' <=> \E j \in 1 .. i : p.kind = "fixed" /\ ~Fixed!Passes(p.impls[j])
    <3>1. \A j \in 1 .. i : j = i \/ j \in 1 .. i - 1
      BY <2>2
    <3>2. \A j \in 1 .. i - 1 : j \in 1 .. i
      BY <2>2
    <3>3. i \in 1 .. i
      BY <2>2
    <3>4. ~pass <=> p.kind = "fixed" /\ ~Fixed!Passes(p.impls[i])
      BY <1>5, <1>8, <2>1
    <3>. QED  BY <1>7, <2>1, <3>1, <3>2, <3>3, <3>4
  <2>6. failed' \in BOOLEAN
    BY <2>1
  <2>. QED  BY <1>1, <1>2, <1>3, <1>4, <2>1, <2>2, <2>4, <2>5, <2>6 DEF FixedPrinted
<1>14. CASE Fixed!Return \/ Fixed!FinishTest
  <2>1. /\ pc = "measure" /\ i > m /\ pc' = "done" /\ UNCHANGED << i, pass, failed >>
        /\ out' = IF p.simulation THEN Append(out, << IF failed THEN "failure" ELSE "success" >>)
                                  ELSE out
    BY <1>1, <1>2, <1>3, <1>14 DEF Fixed!Return, Fixed!FinishTest, Fixed!Exit
  <2>2. i - 1 = m
    BY <1>3, <2>1
  <2>3. out = Rounds(p)
    BY <1>2, <1>7, <2>1, <2>2, LinesSoFarIs
  <2>4. failed <=> ~Good(p)
    <3>1. DOMAIN p.impls = 1 .. m
      BY <1>2, FixedType
    <3>. QED  BY <1>7, <2>1, <2>2, <3>1 DEF Good
  <2>5. (IF failed THEN "failure" ELSE "success") = IF Good(p) THEN "success" ELSE "failure"
    BY <2>4
  <2>6. out' = Fixed!Lines(p)
    BY <2>1, <2>3, <2>5, LinesIs
  <2>. QED  BY <1>1, <1>2, <1>3, <1>4, <2>1, <2>6 DEF FixedPrinted
<1>15. CASE UNCHANGED Fixed!fvars
  BY <1>15 DEF Fixed!fvars, FixedPrinted, Size
<1>. QED
  BY <1>9, <1>10, <1>11, <1>12, <1>13, <1>14, <1>15 DEF Fixed!FixedNext

\* What these programs do to the lines.
LEMMA FixedWrites ==
  ASSUME FixedPrinted, [Fixed!FixedNext]_(Fixed!fvars)
  PROVE  [Abstract!Write]_(Abstract!vars)
<1>1. PICK p \in FixedPrograms : p = program
  BY DEF FixedPrinted
<1>2. program' = p
  <2>1. program' = program
    BY DEF Fixed!FixedNext, Fixed!fvars, Fixed!Measure, Fixed!CompareElement, Fixed!CompareNan,
           Fixed!Compared, Fixed!Report, Fixed!Return, Fixed!FinishTest
  <2>. QED  BY <1>1, <2>1
<1>3. PICK m \in Nat \ {0} : m = Len(p.impls)
  BY FixedType
<1>4. Output(p) = Fixed!Lines(p)
  BY FixedProgramsAssumption DEF Output, Run!Kinds
<1>5. PICK T : T = Fixed!Lines(p)
  OBVIOUS
<1>6. FixedPrinted'
  BY FixedStepPrinted
<1>7. pc' = "done" => out' = T
  BY <1>2, <1>5, <1>6 DEF FixedPrinted
<1>8. i \in Nat \ {0} /\ i =< m + 1
  BY <1>1, <1>3 DEF FixedPrinted
<1>9. CASE Fixed!Report
  <2>1. /\ pc = "report" /\ pc' = "measure" /\ i' = i + 1
        /\ \E e : out' = Append(out, e)
    BY <1>9 DEF Fixed!Report
  <2>2. i \in 1 .. m
    BY <1>1, <1>3, <1>8, <2>1 DEF FixedPrinted
  <2>3. LinesSoFar(p, out, i - 1) /\ LinesSoFar(p, out', i)
    BY <1>1, <1>2, <1>6, <2>1, <2>2 DEF FixedPrinted
  <2>4. Abstract!IsPrefix(out', T)
    BY <1>3, <1>5, <2>2, <2>3, LinesStart
  <2>5. /\ out \in Seq(Lines(p)) /\ out' \in Seq(Lines(p)) /\ Len(out) = i - 1 /\ Len(out') = i
        /\ \A j \in 1 .. i - 1 : out[j] = LineOf(p, j) /\ out'[j] = LineOf(p, j)
    BY <2>2, <2>3 DEF LinesSoFar
  <2>6. Len(out) =< Len(out') /\ \A j \in 1 .. Len(out) : out[j] = out'[j]
    BY <2>2, <2>5
  <2>7. Abstract!IsPrefix(out, out')
    BY <2>5, <2>6, PrefixOf
  <2>. QED  BY <1>1, <1>2, <1>4, <1>5, <2>1, <2>4, <2>7 DEF Abstract!Write
<1>10. CASE Fixed!Return \/ Fixed!FinishTest
  <2>1. pc = "measure" /\ i > m /\ pc' = "done"
    BY <1>1, <1>3, <1>10 DEF Fixed!Return, Fixed!FinishTest
  <2>2. m \in 0 .. Len(p.impls) /\ i - 1 = m
    BY <1>3, <1>8, <2>1
  <2>3. LinesSoFar(p, out, m)
    BY <1>1, <2>1, <2>2 DEF FixedPrinted
  <2>4. Abstract!IsPrefix(out, T)
    BY <1>5, <2>2, <2>3, LinesStart
  <2>5. Abstract!IsPrefix(T, T)
    <3>1. T = IF p.simulation
                THEN Append(Rounds(p), << IF Good(p) THEN "success" ELSE "failure" >>)
                ELSE Rounds(p)
      BY <1>5, LinesIs
    <3>2. PICK u \in Seq(Lines(p)) : u = Rounds(p)
      BY RoundsIs
    <3>3. PICK e \in Lines(p) : e = << IF Good(p) THEN "success" ELSE "failure" >>
      BY DEF Lines
    <3>4. Append(u, e) \in Seq(Lines(p))
      OBVIOUS
    <3>5. T \in Seq(Lines(p))
      BY <3>1, <3>2, <3>3, <3>4
    <3>. QED  BY <3>5, PrefixOf
  <2>6. out' = T
    BY <1>7, <2>1
  <2>. QED  BY <1>1, <1>2, <1>4, <1>5, <2>1, <2>4, <2>5, <2>6 DEF Abstract!Write
<1>11. ASSUME ~(Fixed!Report \/ Fixed!Return \/ Fixed!FinishTest)
       PROVE  out' = out /\ (pc' = "done" <=> pc = "done")
  BY <1>11 DEF Fixed!FixedNext, Fixed!fvars, Fixed!Measure, Fixed!CompareElement,
               Fixed!CompareNan, Fixed!Compared
<1>12. CASE out' = out /\ (pc' = "done" <=> pc = "done")
  BY <1>1, <1>2, <1>12 DEF Abstract!vars
<1>. QED  BY <1>9, <1>10, <1>11, <1>12

-----------------------------------------------------------------------------
(* What prints nothing.                                                    *)

\* Nothing is printed.
Quiet == out = << >> /\ Output(program) = << >>

LEMMA EmptyPrefix == Abstract!IsPrefix(<< >>, << >>)
<1>. SUFFICES ASSUME NEW q, q = << >> PROVE Abstract!IsPrefix(q, q)
  OBVIOUS
<1>1. q \in Seq(Entry) /\ Len(q) =< Len(q) /\ \A j \in 1 .. Len(q) : q[j] = q[j]
  OBVIOUS
<1>. QED  BY <1>1, PrefixOf

LEMMA QuietWrites ==
  ASSUME Quiet, program' = program, out' = out, pc = "done" => pc' = "done"
  PROVE  Quiet' /\ [Abstract!Write]_(Abstract!vars)
<1>1. Output(program)' = Output(program)
  BY DEF Output, Run!TableOf, Run!Detectable, Run!Error, Run!Kinds, Fixed!Lines,
         Fixed!ResultOf, Fixed!Passes, Fixed!MaxError, Fixed!Distance, Cells!Table
<1>2. Quiet'
  BY <1>1 DEF Quiet
<1>3. CASE pc' = "done" /\ pc # "done"
  BY <1>2, <1>3, EmptyPrefix DEF Quiet, Abstract!Write
<1>4. CASE pc' = "done" <=> pc = "done"
  <2>1. out' = out /\ program' = program
    OBVIOUS
  <2>. QED  BY <1>2, <1>4, <2>1 DEF Abstract!vars
<1>. QED  BY <1>2, <1>3, <1>4

-----------------------------------------------------------------------------
(* All but the programs that measure instructions.                         *)

Printed ==
  /\ level \in { "bench_run", "bench_time", "fixed", "instructions", "layout" }
  /\ level = "bench_run" => RunInv /\ RunPrinted
  /\ level = "fixed" => FixedPrinted
  /\ level \in { "bench_time", "layout" } => Quiet

Start == level # "instructions" => Abstract!Init
Step  == level # "instructions" => [Abstract!Write]_(Abstract!vars)

LEMMA InitPrints == Init => Start /\ Printed
<1>. SUFFICES ASSUME Init PROVE Start /\ Printed
  OBVIOUS
<1>1. CASE level = "bench_run"
  <2>1. Run!Init
    BY <1>1 DEF Init
  <2>2. out = << >> /\ pc = "bench"
    BY <2>1 DEF Run!Init
  <2>. QED  BY <1>1, <2>1, <2>2, InitPrinted, InitCompared DEF Printed, Start, Abstract!Init
<1>2. CASE level = "bench_time"
  <2>1. program = << >> /\ out = << >> /\ pc = "sample"
    BY <1>2 DEF Init, Run!TimeInit
  <2>. QED  BY <1>2, <2>1 DEF Printed, Start, Quiet, Output, Abstract!Init
<1>3. CASE level = "fixed"
  <2>1. program \in FixedPrograms /\ Fixed!FixedInit
    BY <1>3 DEF Init
  <2>2. out = << >> /\ pc = "measure"
    BY <2>1 DEF Fixed!FixedInit
  <2>. QED  BY <1>3, <2>1, <2>2, FixedInitPrinted DEF Printed, Start, Abstract!Init
<1>4. CASE level = "layout"
  <2>1. program \in Memories /\ out = << >> /\ pc = "allocate"
    BY <1>4 DEF Init, Cut!LayoutInit
  <2>2. Output(program) = << >>
    BY <2>1, MemoriesAssumption DEF Output, Run!Kinds
  <2>. QED  BY <1>4, <2>1, <2>2 DEF Printed, Start, Quiet, Abstract!Init
<1>5. CASE level = "instructions"
  BY <1>5 DEF Printed, Start
<1>. QED  BY <1>1, <1>2, <1>3, <1>4, <1>5 DEF Init

LEMMA StepPrints ==
  ASSUME ReferencesRight, Printed, [Next]_vars
  PROVE  Printed' /\ Step
<1>0. level' = level
  BY SameLevel
<1>1. CASE level = "bench_run"
  <2>1. [Run!Next]_(Run!vars)
    BY <1>1 DEF Next, vars, runVars, Run!vars
  <2>2. RunInv /\ RunPrinted
    BY <1>1 DEF Printed
  <2>. QED  BY <1>0, <1>1, <2>1, <2>2, StepCompared, StepPrinted, RunWrites DEF Printed, Step
<1>2. CASE level = "fixed"
  <2>1. [Fixed!FixedNext]_(Fixed!fvars)
    BY <1>2 DEF Next, vars, fixedVars, Fixed!fvars
  <2>2. FixedPrinted
    BY <1>2 DEF Printed
  <2>. QED  BY <1>0, <1>2, <2>1, <2>2, FixedStepPrinted, FixedWrites DEF Printed, Step
<1>3. CASE level \in { "bench_time", "layout" }
  <2>1. program' = program /\ out' = out /\ (pc = "done" => pc' = "done")
    <3>1. CASE level = "bench_time"
      BY <3>1 DEF Next, vars, Run!TimeNext, Run!tvars, Run!Sample, Run!AllSampled, Run!Sort,
                  Run!Sum, Run!Return, Run!TimeTerminating
    <3>2. CASE level = "layout"
      BY <3>2 DEF Next, vars, Cut!LayoutNext, Cut!Allocate, Cut!StartBench, Cut!Call,
                  Cut!NextSize, Cut!lvars
    <3>. QED  BY <1>3, <3>1, <3>2
  <2>2. Quiet
    BY <1>3 DEF Printed
  <2>. QED  BY <1>0, <1>3, <2>1, <2>2, QuietWrites DEF Printed, Step
<1>4. CASE level = "instructions"
  BY <1>0, <1>4 DEF Printed, Step
<1>. QED  BY <1>1, <1>2, <1>3, <1>4 DEF Printed

(***************************************************************************)
(* Whatever kernels, sizes and numbers of repetitions there are: bench_run *)
(* prints the measurements in order, one for each kernel at each size, and *)
(* stops at the first kernel that checksum can tell to be wrong; the       *)
(* programs of FixedBench print each kernel's own result with the right    *)
(* verdict; what is printed is never taken back, and they end when all of  *)
(* it is there.  This is ImplementsInOrderOutput without that they do end. *)
(***************************************************************************)
THEOREM PrintsInOrder ==
  ASSUME ReferencesRight
  PROVE  Spec => Start /\ [][Step]_vars
<1>1. Printed /\ [Next]_vars => Printed' /\ Step
  BY StepPrints
<1>. QED  BY <1>1, InitPrints, PTL DEF Spec
=============================================================================
