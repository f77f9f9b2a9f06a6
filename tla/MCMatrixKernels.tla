-------------------------- MODULE MCMatrixKernels --------------------------
(* SgemmVme with tiles of 3 units, for the shapes it multiplies correctly: *)
(* an even number of A tiles per row, or one, or one column of C tiles;    *)
(* and shapes it must refuse.  The other kernels for up to 7 rows, so that *)
(* each of the remainders occurs, and more columns than two full groups of *)
(* registers hold.  The words are looked at for four registers.            *)
(* The transposes for up to 5 matrices, of which a register holds a row of *)
(* 1, 2 or 4: full rounds, a part of one, and none.                        *)
EXTENDS MatrixKernels

MCT == 3
EvenShapes == { << 6, 3, 9 >>, << 3, 6, 9 >>, << 6, 12, 6 >>, << 3, 9, 3 >>,
                << 3, 0, 3 >>, << 3, 6, 4 >>, << 5, 3, 3 >> }
\* three A tiles and two columns of C tiles, which bench's n = 96, 160 and
\* 224 amount to
OddShapes  == { << 3, 9, 6 >> }
NoShapes   == {}
MCRvvShapes == (0 .. 7) \X (1 .. 2) \X ({ 1, 2, 4 }) \cup { << 7, 2, 7 >>, << 3, 0, 2 >> }
MCVlmaxM4 == 2
MCRegs == { 0, 8, 16, 31 }

MCAllCalls ==
  [layout : { "seq", "zip" }, method : { "vslide" }, sew : { 8, 16 }, zbb : BOOLEAN,
   m : { 1, 2, 4 }, n : { 0, 1, 2, 4, 5 }]
  \cup [layout : { "seq", "zip" }, method : { "vrgather" }, sew : { 16 }, zbb : BOOLEAN,
        m : { 1, 2, 4 }, n : { 0, 1, 2, 4, 5 }]
  \cup [layout : { "single" }, method : { "vslide", "vlseg8", "vsseg8", "vls", "vss" },
        sew : { 8, 16 }, zbb : { TRUE }, m : { 1 }, n : { 0, 1, 2 }]
\* the kernels with the indices of template_seq, without __riscv_zbb, where a
\* register holds more than a row
ShortIndex(c) == c.layout = "seq" /\ c.sew = 16 /\ ~c.zbb /\ c.m > 1
MCCalls      == { c \in MCAllCalls : ~ShortIndex(c) }
MCNoZbbCalls == { c \in MCAllCalls : ShortIndex(c) }
=============================================================================
