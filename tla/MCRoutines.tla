----------------------------- MODULE MCRoutines -----------------------------
(* Lengths up to more than four groups of 4 bytes and two more, so that    *)
(* every kernel of Strips has rounds, a rest with a choice for vsetvli and *)
(* a tail; for memset_musl and memcpy_musl up to more than two rounds with *)
(* everything that comes before and after; strings that end in the first,  *)
(* second and third page of two groups; and roots in numbers of 12 bits.   *)
(* For hist registers of 2 elements, 2 bins and the one beyond, distances  *)
(* that have to be clamped, and up to 5 elements: more than a group of two *)
(* registers, so that vsetvli has a choice.  For the kernels of Tables     *)
(* more than two groups of 4 elements; for b64_encode one and two chunks   *)
(* of registers of 4 bytes, in which the table is in one (as 64 bytes are  *)
(* in 64), two or four, and 8-bit indices just suffice or do not.          *)
EXTENDS Routines

MCVLMAX == 4
MCMaxLen == 25
MCCapBytes == 2
MCWord == 4
MCMemsetMaxLen == 104
MCMemcpyMaxLen == 60
MCPageSize == 8
MCMaxString == 18
MCModulus == 4096
MCMaxSquare == 120
MCMaxNumber == 450
MCScale == 4
MCMaxPrec == 2
MCUXTOA_MAX == 4
MCTablesMaxLen == 9
MCMachines == { << 1, 2 >>, << 2, 4 >>, << 4, 8 >>, << 8, 32 >>, << 16, 64 >> }
MCEncodeMaxLen == 31
MCLanes == 2
MCGroupLanes == 2
MCLast == 2
MCHistMaxLen == 5
MCVariants == { "slidedown", "no_conflict", "dup_m1", "dup_m2" }
FourRegisters == { "dup_m4" }
MCCalled == { "memset", "utf8_count", "memrand", "memset_musl", "memcpy_musl",
              "memreverse", "strlen", "usqrt", "uxtoa", "ftoa", "hist",
              "LUT4", "LUT6", "byteswap32", "ascii_to_utf16", "ascii_to_utf32",
              "b64_encode" }
HistOnly == { "hist" }
=============================================================================
