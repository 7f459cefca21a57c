------------------------------ MODULE MCFrames ------------------------------
(***************************************************************************)
(* Frames for TLC: main, a recursive function and one it calls.            *)
(***************************************************************************)
EXTENDS Frames, TLC

CONSTANTS main, f, g

MCFuncs == {main, f, g}
MCParams == main :> 0 @@ f :> 1 @@ g :> 0
MCCalls == {<<main, f>>, <<f, f>>, <<f, g>>}

\* Frames that grow along the calls, at most fourfold.
MCWords == main :> 1 @@ f :> 1 @@ g :> 2

\* A main without variables.
MCWordsNoLocals == main :> 0 @@ f :> 1 @@ g :> 2

\* A function of two parameters, as that of src/tests/e6/input/e07.amarela:3-6.
MCWordsTwo == main :> 1 @@ f :> 2 @@ g :> 2
MCParamsTwo == main :> 0 @@ f :> 2 @@ g :> 0
=============================================================================
