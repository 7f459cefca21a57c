----------------------------- MODULE MCSemantic -----------------------------
(***************************************************************************)
(* Semantic for TLC: three identifiers that can be variables, classes,     *)
(* fields and functions at once.                                           *)
(***************************************************************************)
EXTENDS Semantic, TLC

CONSTANTS a, b, main

MCIds == {a, b, main}
Expr(t, s) == [type |-> t, symbol |-> s]

\* An int variable or literal, and a boolean operation, which has no symbol.
MCExpressions == {Expr(Variable("int"), TRUE), Expr(Variable("bool"), FALSE)}

\* The names of fields: they can also be variables.
MCFieldIds == {a, b}

MCSymmetry == Permutations({a, b})
=============================================================================
