---------------------------- MODULE TextKernels ----------------------------
(***************************************************************************)
(* The kernels that write a text of a length the caller cannot know: those *)
(* of bench/mergelines.S and the transcoders of vector-utf/.  What they    *)
(* promise is one promise, stated here: the output is InOrderOutput.       *)
(*                                                                         *)
(* One of them is called, so they share the variables: for mergelines out  *)
(* is the memory it works in, and n the length of what is left.            *)
(***************************************************************************)
EXTENDS Naturals, Sequences

CONSTANTS VLMAX, Vlmax16, Block, Behind, BeforeOutput, Inputs, MaxLen

ASSUME VlmaxAssumption  == VLMAX \in Nat \ {0} /\ Vlmax16 \in Nat \ {0}
ASSUME MaxLenAssumption == MaxLen \in Nat
ASSUME BlockAssumption  == Block \in [{ "utf8", "utf16", "utf32" } -> Nat \ {0}]

\* what fits in a unit: a byte, a 16-bit word, or any number for UTF-32
IsUnit(form, x) == /\ form = "utf8"  => x =< \hFF
                   /\ form = "utf16" => x =< \hFFFF

\* an input is an array of units of its type
ASSUME InputsAssumption ==
  \A form \in { "utf8", "utf16", "utf32" } : \A u \in Inputs[form] :
    u \in Seq(Nat) /\ \A i \in 1 .. Len(u) : IsUnit(form, u[i])

VARIABLES kernel, input, pc, src, end, dest, out, start, n, answer, last

T == INSTANCE Transcoders
M == INSTANCE Mergelines WITH variant <- kernel, text <- input, mem <- out, len <- n

vars  == << kernel, input, pc, src, end, dest, out, start, n, answer, last >>

MergeKernels == M!VslideVariants \cup M!MshiftVariants

Init ==
  \/ M!Init /\ end = 0 /\ start = 0 /\ answer = 0
  \/ T!Init /\ last = M!Nothing

Next ==
  \/ M!Next /\ UNCHANGED << end, start, answer >>
  \/ T!Next /\ UNCHANGED last

\* one hart runs the kernel and nothing in it waits
Spec == Init /\ [][Next]_vars /\ WF_vars(Next)

-----------------------------------------------------------------------------
(* Properties.                                                             *)

\* Every variable holds what its kernel can put there.
TypeOK ==
  IF kernel \in MergeKernels THEN M!TypeOK ELSE T!TypeOK /\ last = M!Nothing

\* What a mergelines kernel reads again from the memory it merges in is what
\* the caller put there (Mergelines).
InputIntact == kernel \in MergeKernels => M!InputIntact

\* Input and output of a transcoder are in step (Transcoders).
DestMatchesSrc == kernel \in T!Kernels => T!DestMatchesSrc

Abstract == INSTANCE InOrderOutput
  WITH Result   <- LAMBDA c : IF c[1] \in MergeKernels THEN M!ScalarMerge(c[2])
                              ELSE T!ToBeWritten(c[1], c[2]),
       input    <- << kernel, input >>,
       out      <- IF kernel \in MergeKernels THEN SubSeq(out, 1, dest) ELSE T!Visible,
       returned <- pc = "done"

(***************************************************************************)
(* Whatever the kernel, however vsetvli cuts the input and wherever a pair *)
(* or a character falls: the output grows as a prefix of what the scalar   *)
(* definition makes of the input, nothing written is changed again, and    *)
(* the call returns with all of it.  For mergelines the definition is      *)
(* mergelines_scalar; for the transcoders it is Unicode's, with an error   *)
(* for what is not well-formed.                                            *)
(***************************************************************************)
ImplementsInOrderOutput == Abstract!Spec
=============================================================================
