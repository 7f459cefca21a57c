------------------------------- MODULE MCDict -------------------------------
(***************************************************************************)
(* Dict for TLC: five keys over three buckets, of which one can hold three,*)
(* one two and one none: chains lose a first, a middle and a last item.    *)
(***************************************************************************)
EXTENDS Dict, TLC

CONSTANTS k1, k2, k3, k4, k5, v1, v2

MCKeys == {k1, k2, k3, k4, k5}
MCValues == {v1, v2}
MCBuckets == 0 .. 2
MCHash == k1 :> 0 @@ k2 :> 0 @@ k3 :> 0 @@ k4 :> 1 @@ k5 :> 1
=============================================================================
