--------------------------- MODULE MCCompilation ---------------------------
(***************************************************************************)
(* Compilation for TLC: three lexemes over three buckets, two of them in   *)
(* one bucket (as the identifiers `iz' and `re' are in the 10240 buckets   *)
(* of the program), and one address more than lexemes, for the symbol that *)
(* insert_symbol allocates before it knows that the lexeme is old.         *)
(***************************************************************************)
EXTENDS Compilation, TLC

CONSTANTS iz, re, x, p1, p2, p3, p4

MCKeys == {iz, re, x}
MCValues == {p1, p2, p3, p4}
MCSize == 3
MCBuckets == 0 .. 2
MCHash == iz :> 1 @@ re :> 1 @@ x :> 2
=============================================================================
