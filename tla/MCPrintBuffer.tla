--------------------------- MODULE MCPrintBuffer ---------------------------
(* All programs that print up to four items, with a buffer of 6 characters *)
(* and numbers of up to 3 and 4: text that just fits, that fills the       *)
(* buffer and that is longer, and numbers at every place in the buffer.    *)
EXTENDS PrintBuffer

MCSize      == 6
MCUXTOA_MAX == 3
MCFTOA_MAX  == 4
ItemSet == [kind : {"raw"}, len : {0, 1, 5, 6, 7}]
           \cup [kind : {"u"}, len : {1, 3}]
           \cup [kind : {"fn"}, len : {2, 4}]
           \cup [kind : {"h"}, len : {1, 2}]
           \cup [kind : {"b"}, len : {2, 5, 6}]
           \cup [kind : {"flush"}, len : {0}]
MCPrograms == UNION { [1 .. n -> ItemSet] : n \in 1 .. 4 }
=============================================================================
