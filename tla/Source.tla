------------------------------- MODULE Source -------------------------------
(***************************************************************************)
(* What running the compiled program promises: the assignments of the      *)
(* source program, one at a time and in order, and then its end.  Nothing  *)
(* runs of a program the compiler refuses, and nothing is promised of one  *)
(* outside the class Supported.                                            *)
(***************************************************************************)
EXTENDS Meaning

CONSTANT Programs   \* the programs compiled

VARIABLES tree, written, ended
vars == <<tree, written, ended>>

Init == tree \in Programs /\ written = <<>> /\ ended = FALSE

Runs == Verdict(tree) = "accepted" /\ Supported(tree)

\* The next assignment.
Write == /\ ~ended /\ Len(written') = Len(written) + 1
         /\ Runs
         /\ IsPrefix(written, written') /\ IsPrefix(written', Execution(tree).written)
         /\ UNCHANGED <<tree, ended>>

\* The end, once everything is assigned.
Halt == /\ ~ended /\ ended'
        /\ Runs
        /\ Execution(tree).ends /\ written = Execution(tree).written
        /\ UNCHANGED <<tree, written>>

\* A program of which nothing is promised.
Unpromised == /\ written' # written \/ ended' # ended
              /\ Verdict(tree) = "accepted" /\ ~Supported(tree)
              /\ UNCHANGED tree

Next == Write \/ Halt \/ Unpromised

Spec == Init /\ [][Next]_vars

\* A program whose execution ends is run to its end.
Completes == (Runs /\ Execution(tree).ends) => <>ended
=============================================================================
