--------------------------- MODULE MCTextKernels ---------------------------
(* mergelines on all texts of up to 7 bytes, with register groups of 3:    *)
(* three chunks and more, with pairs inside, across and at the end of      *)
(* them, and a choice for vsetvli when 4 or 5 bytes are left.              *)
(*                                                                         *)
(* The transcoders on texts joined from up to three pieces, well-formed    *)
(* and malformed ones, and on well-formed texts of four characters: a      *)
(* character has more bytes than a group, and every loop has a few rounds. *)
EXTENDS TextKernels, SequencesExt

MCVLMAX   == 3
MCVlmax16 == 3
MCMaxLen  == 7
MCNoLen   == 0
MCBlock   == [utf8 |-> 3, utf16 |-> 2, utf32 |-> 2]
MCBehind  == \hDC00
MCBefore  == { 0 }
\* a word before the output buffer that looks like a high surrogate
MCBeforeSurrogate == { 0, \hD800 }

Texts(pieces, k) == { FlattenSeq(s) : s \in UNION { [1 .. j -> pieces] : j \in 0 .. k } }

Good8  == { << 0 >>, << \h41 >>, << \hC3, \hA9 >>, << \hE2, \h82, \hAC >>,
            << \hF0, \h9F, \h98, \h80 >> }
Bad8   == { << \h80 >>, << \hC3 >>, << \hE2, \h82 >>, << \hF0, \h9F, \h98 >>,
            << \hED, \hA0, \h80 >>, << \hC1, \h80 >>, << \hE0, \h90, \h80 >>,
            << \hF4, \h90, \h80, \h80 >>, << \hF0, \h8F, \h80, \h80 >>, << \hFF >> }
Good16 == { << 0 >>, << \h41 >>, << \hE9 >>, << \h20AC >>, << \hD83D, \hDE00 >> }
Bad16  == { << \hD800 >>, << \hDFFF >> }
Good32 == { << 0 >>, << \h41 >>, << \hE9 >>, << \h20AC >>, << \h1F600 >> }
Bad32  == { << \hD800 >>, << \h110000 >> }

MCInputs ==
  [utf8  |-> Texts(Good8, 4) \cup Texts(Good8 \cup Bad8, 3),
   utf16 |-> Texts(Good16, 4) \cup Texts(Good16 \cup Bad16, 3),
   utf32 |-> Texts(Good32 \cup Bad32, 3)]

MCFewInputs == [utf8 |-> Texts(Good8, 2), utf16 |-> { << >> }, utf32 |-> { << >> }]
=============================================================================
