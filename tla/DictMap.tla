------------------------------ MODULE DictMap ------------------------------
(***************************************************************************)
(* What src/include/cc_dict.h promises its callers: a map from keys to     *)
(* values.  dict_put on a key that is already there changes nothing and    *)
(* answers the value of the earlier dict_put, dict_remove answers the      *)
(* value it forgets, and dict_free aborts the compiler unless every entry  *)
(* was removed before.  Dict implements this module.                       *)
(***************************************************************************)
CONSTANTS Keys, Values, NULL

VARIABLES map,      \* the value registered under each key, or NULL
          result,   \* what the last call answered
          status    \* "live", "freed" or "aborted"

mapVars == <<map, result, status>>

MapInit ==
    /\ map = [k \in Keys |-> NULL]
    /\ result = NULL
    /\ status = "live"

MapPut(k, v) ==
    /\ status = "live"
    /\ result' = IF map[k] = NULL THEN v ELSE map[k]
    /\ map' = [map EXCEPT ![k] = result']
    /\ UNCHANGED status

MapGet(k) ==
    /\ status = "live"
    /\ result' = map[k]
    /\ UNCHANGED <<map, status>>

MapRemove(k) ==
    /\ status = "live"
    /\ result' = map[k]
    /\ map' = [map EXCEPT ![k] = NULL]
    /\ UNCHANGED status

MapFree ==
    /\ status = "live"
    /\ status' = IF \A k \in Keys : map[k] = NULL THEN "freed" ELSE "aborted"
    /\ UNCHANGED <<map, result>>

MapNext ==
    \/ \E k \in Keys, v \in Values : MapPut(k, v)
    \/ \E k \in Keys : MapGet(k)
    \/ \E k \in Keys : MapRemove(k)
    \/ MapFree

MapSpec == MapInit /\ [][MapNext]_mapVars
=============================================================================
