----------------------------- MODULE Transposes -----------------------------
(***************************************************************************)
(* The 8x8 transposes of bench/trans8x8e8.S and trans8x8e16.S, from the    *)
(* templates of trans8x8.S.inc: n matrices are read, a butterfly is applied*)
(* to each pair of adjacent rows, they are transposed in registers, the    *)
(* butterfly is applied again, and rows y of all matrices are stored one   *)
(* behind the other, in row y of dest.                                     *)
(*                                                                         *)
(*   seq     reads matrices as they lie in src1, a register group of them  *)
(*   zip     reads them from srcvl, where rows y of as many matrices as a  *)
(*           register holds lie one behind the other                       *)
(*   single  reads one matrix at a time                                    *)
(*                                                                         *)
(* An element is the matrix, row and column it is read from.  What the     *)
(* butterfly makes of a and b is << "first", a, b >>, << "second", a, b >>.*)
(* The vzip_fake kernels, which are exempt from comparison, are left out.  *)
(***************************************************************************)
EXTENDS Integers

CONSTANT Calls

(***************************************************************************)
(* A call: the kernel (layout, method), the element's bits (sew), whether  *)
(* it was compiled with __riscv_zbb, m: how many rows of a matrix fit in a *)
(* register - get_trans8x8_count -, and n: the number of matrices.         *)
(***************************************************************************)
VARIABLES
  call,
  pc,
  left,   \* elements of a row that are still to be stored
  done,   \* those that are stored: the distance of the eight dest pointers
  regs,   \* regs[f][e]: element e of register v16 + f
  dest

tvars == << call, pc, left, done, regs, dest >>

InMemory == { "vlseg8", "vsseg8", "vls", "vss" }
IsCall(c) ==
  /\ c.n \in Nat /\ c.m \in Nat \ {0} /\ c.zbb \in BOOLEAN /\ c.sew \in { 8, 16 }
  /\ \/ c.layout \in { "seq", "zip" } /\ c.method = "vslide"
     \/ c.layout \in { "seq", "zip" } /\ c.method = "vrgather" /\ c.sew = 16
     \/ c.layout = "single" /\ c.method \in { "vslide" } \cup InMemory

\* matrices of a round, and elements of a register that are used
PerRound == IF call.layout = "single" THEN 1 ELSE call.m
L        == 8 * PerRound
stride   == 8 * call.n
Empty    == << >>
Untouched == << "untouched" >>

TransInit ==
  /\ call \in Calls
  /\ pc = "enter"
  /\ left = 8 * call.n /\ done = 0
  /\ regs = Empty
  /\ dest = [a \in 0 .. 8 * stride + 7 |-> Untouched]

-----------------------------------------------------------------------------
\* the element at place a of src1, and of srcvl as init fills it
Seq1(a)  == << a \div 64, (a % 64) \div 8, a % 8 >>
SrcVl(a) == LET r == a % (64 * call.m)
            IN  << (a \div (64 * call.m)) * call.m + (r % L) \div 8, r \div L, r % 8 >>

\* ctz is done by a loop that leaves 0 in t0, the count being in t1
Shifted(i) == IF call.zbb THEN i \div call.m ELSE i

\* v10 for 16-bit elements: the half row that half row u of the group is
Index(u) == ((u \div 2) % call.m) * 16 + 2 * Shifted(u \div 2) + (u % 2)

Rows(el(_, _)) == [f \in 0 .. 7 |-> [e \in 0 .. L - 1 |-> el(f, e)]]

\* the elements before this round are those of done \div 8 matrices
Loaded ==
  LET pos == 8 * done
  IN  CASE call.layout = "zip" -> Rows(LAMBDA f, e : SrcVl(pos + f * L + e))
        [] call.layout = "seq" /\ call.sew = 16 ->
             Rows(LAMBDA f, e : Seq1(pos + 4 * Index((f * L + e) \div 4) + (e % 4)))
        [] OTHER ->   \* vlseg8e64.v, and one row after the other
             Rows(LAMBDA f, e : Seq1(pos + (e \div 8) * 64 + f * 8 + (e % 8)))

Half(odd, a, b) == << IF odd = 0 THEN "first" ELSE "second", a, b >>

\* kernel_v16_v16, kernel_v16_v24
Butterfly(R) == Rows(LAMBDA f, e : Half(f % 2, R[2 * (f \div 2)][e], R[2 * (f \div 2) + 1][e]))

\* the mask in v1: blocks of k elements with an odd number
OddBlock(e, k) == (e \div k) % 2 = 1

\* mutant: the slide down comes after the registers it needs are overwritten
SlidOver(R, k) ==
  Rows(LAMBDA f, e :
         IF (f \div k) % 2 = 0
           THEN IF OddBlock(e, k) THEN R[f + k][e - k] ELSE R[f][e]
           ELSE R[f][e])

(***************************************************************************)
(* The masked slides between the registers whose numbers differ by k: the  *)
(* odd blocks of k elements of the first and the even ones of the second   *)
(* are exchanged.                                                          *)
(***************************************************************************)
Slid(R, k) ==
  Rows(LAMBDA f, e :
         IF (f \div k) % 2 = 0
           THEN IF OddBlock(e, k) THEN R[f + k][e - k] ELSE R[f][e]
           ELSE IF OddBlock(e, k) THEN R[f][e] ELSE R[f - k][e + k])

\* rows are stored, columns loaded
ColumnsLoaded(R) == LET mem == [a \in 0 .. 63 |-> R[a \div 8][a % 8]]
                    IN  Rows(LAMBDA f, e : mem[8 * e + f])
\* columns are stored, rows loaded
ColumnsStored(R) == LET mem == [a \in 0 .. 63 |-> R[a % 8][a \div 8]]
                    IN  Rows(LAMBDA f, e : mem[8 * f + e])
\* one gather of the group, with the indices of trans8x8_rvv_vrgather_init
Gathered(R) == Rows(LAMBDA f, e : LET i == (e % 8) * L + 8 * (e \div 8) + f
                                  IN  R[i \div L][i % L])

Transposed(R) ==
  CASE call.method = "vslide"              -> Slid(Slid(Slid(R, 4), 2), 1)
    [] call.method = "vrgather"            -> Gathered(R)
    [] call.method \in { "vlseg8", "vls" } -> ColumnsLoaded(R)
    [] call.method \in { "vsseg8", "vss" } -> ColumnsStored(R)

-----------------------------------------------------------------------------
\* beqz in template_single; the others begin with a round, of nothing
Enter ==
  /\ pc = "enter"
  /\ pc' = IF call.layout = "single" /\ call.n = 0 THEN "done" ELSE "load"
  /\ UNCHANGED << call, left, done, regs, dest >>

Load ==
  /\ pc = "load"
  /\ regs' = Loaded
  /\ pc' = "transpose"
  /\ UNCHANGED << call, left, done, dest >>

Transpose ==
  /\ pc = "transpose"
  /\ regs' = Butterfly(Transposed(Butterfly(regs)))
  /\ pc' = "store"
  /\ UNCHANGED << call, left, done, dest >>

\* minu, vsetvli; a single matrix is stored whole
Stored == IF call.layout = "single" \/ left >= L THEN L ELSE left

Store ==
  /\ pc = "store"
  /\ dest' = [a \in DOMAIN dest |->
                IF \E f \in 0 .. 7 : a - f * stride - done \in 0 .. Stored - 1
                  THEN LET f == CHOOSE r \in 0 .. 7 : a - r * stride - done \in 0 .. Stored - 1
                       IN  regs[f][a - f * stride - done]
                  ELSE dest[a]]
  /\ done' = done + Stored /\ left' = left - Stored
  /\ regs' = Empty
  /\ pc' = IF left' = 0 THEN "done" ELSE "load"
  /\ UNCHANGED call

TransNext == \/ Enter \/ Load \/ Transpose \/ Store
             \/ pc = "done" /\ UNCHANGED tvars

-----------------------------------------------------------------------------
\* trans8x8_seq_scalar: row y and column x of matrix i in dest
Even(y)         == 2 * (y \div 2)
Buf(i, y, x)    == Half(y % 2, << i, Even(y), x >>, << i, Even(y) + 1, x >>)
Scalar(i, y, x) == Half(y % 2, Buf(i, x, Even(y)), Buf(i, x, Even(y) + 1))

\* Every variable holds what the code can put there.
TransTypeOK ==
  /\ call \in Calls
  /\ pc \in { "enter", "load", "transpose", "store", "done" }
  /\ left \in 0 .. stride /\ done = stride - left
  /\ pc \in { "transpose", "store" } =>
       DOMAIN regs = 0 .. 7 /\ \A f \in 0 .. 7 : DOMAIN regs[f] = 0 .. L - 1

(***************************************************************************)
(* A round reads the matrices of the round only, the rest of dest is left  *)
(* alone, and what has been stored is what trans8x8_seq_scalar stores.     *)
(***************************************************************************)
ResultIsTransposed ==
  /\ pc = "transpose" =>
       \A f \in 0 .. 7 : \A e \in 0 .. L - 1 :
         regs[f][e][1] \in done \div 8 .. done \div 8 + PerRound - 1
  /\ \A a \in DOMAIN dest :
       dest[a] = IF a < 8 * stride /\ a % stride < done
                   THEN Scalar((a % stride) \div 8, a \div stride, a % 8)
                   ELSE Untouched
=============================================================================
