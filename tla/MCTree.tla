------------------------------- MODULE MCTree -------------------------------
(* Instance of Tree for TLC: eight nodes hold the smallest pipe of three     *)
(* functions, and one whose second function has two arguments of its own     *)
(* with a command after it.                                                  *)
EXTENDS Tree

MCNodes == 1..8
=============================================================================
