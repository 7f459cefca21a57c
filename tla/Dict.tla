-------------------------------- MODULE Dict --------------------------------
(***************************************************************************)
(* The dictionary of src/src/cc_dict.c: an array of buckets, each a linked *)
(* chain of items, and the counter `occupation' that dict_free consults.   *)
(* The one-at-a-time hash is the constant Hash: every theorem holds for    *)
(* every hash function, collisions included.  The abstract map it          *)
(* implements is DictMap.                                                  *)
(***************************************************************************)
EXTENDS Integers, Sequences, FiniteSets

CONSTANTS Keys,      \* the strings used as keys
          Values,    \* the pointers registered by the callers, never NULL
          NULL,
          Buckets,   \* 0 .. DICT_SIZE - 1
          Hash       \* generate_hash(key, DICT_SIZE)

ASSUME DictAssumption ==
    /\ NULL \notin Values
    /\ Hash \in [Keys -> Buckets]
    /\ IsFiniteSet(Buckets)

VARIABLES data,         \* dict->data: the chain of each bucket, <<>> for a NULL pointer
          occupation,   \* dict->occupation
          result,       \* what the last call returned
          status        \* "live", "freed" by dict_free, or "aborted" by ERRO

dictVars == <<data, occupation, result, status>>

Items == [key : Keys, value : Values]

----------------------------------------------------------------------------
\* dict_item_get: the position of the first item of the chain that has the
\* key, or 0 when the walk reaches the end.
Find(chain, k) ==
    LET hits == {i \in DOMAIN chain : chain[i].key = k}
    IN  IF hits = {} THEN 0 ELSE CHOOSE i \in hits : \A j \in hits : i <= j

\* prev->next = target->next: the chain without its i-th item.
Unlink(chain, i) ==
    [j \in 1 .. Len(chain) - 1 |-> IF j < i THEN chain[j] ELSE chain[j + 1]]

\* What dict_get answers for a key.
Lookup(d, k) ==
    LET chain == d[Hash[k]]
        i == Find(chain, k)
    IN  IF i = 0 THEN NULL ELSE chain[i].value

DictInit ==
    /\ data = [b \in Buckets |-> <<>>]
    /\ occupation = 0
    /\ result = NULL
    /\ status = "live"

\* A put that walks no chain: the item is appended even when the key exists.
DictPutBlind(k, v) ==
    /\ status = "live"
    /\ data' = [data EXCEPT ![Hash[k]] = Append(@, [key |-> k, value |-> v])]
    /\ occupation' = IF data[Hash[k]] = <<>> THEN occupation + 1 ELSE occupation
    /\ result' = v
    /\ UNCHANGED status

\* dict_put: an empty bucket is counted, a new key is appended to its chain,
\* and an existing key keeps its value, which is returned.
DictPut(k, v) ==
    LET chain == data[Hash[k]]
        i == Find(chain, k)
    IN  /\ status = "live"
        /\ data' = IF i = 0
                   THEN [data EXCEPT ![Hash[k]] = Append(chain, [key |-> k, value |-> v])]
                   ELSE data
        /\ occupation' = IF chain = <<>> THEN occupation + 1 ELSE occupation
        /\ result' = IF i = 0 THEN v ELSE chain[i].value
        /\ UNCHANGED status

\* A get that returns the item of the chain, not the value in it.
DictGetItem(k) ==
    LET chain == data[Hash[k]]
        i == Find(chain, k)
    IN  /\ status = "live"
        /\ result' = IF i = 0 THEN NULL ELSE chain[i]
        /\ UNCHANGED <<data, occupation, status>>

\* dict_get.
DictGet(k) ==
    /\ status = "live"
    /\ result' = Lookup(data, k)
    /\ UNCHANGED <<data, occupation, status>>

\* A remove that uncounts the bucket whenever the first item goes.
DictRemoveHead(k) ==
    LET chain == data[Hash[k]]
        i == Find(chain, k)
    IN  /\ status = "live"
        /\ data' = IF i = 0 THEN data ELSE [data EXCEPT ![Hash[k]] = Unlink(chain, i)]
        /\ occupation' = IF i = 1 THEN occupation - 1 ELSE occupation
        /\ result' = IF i = 0 THEN NULL ELSE chain[i].value
        /\ UNCHANGED status

\* dict_remove: the item is unlinked and its value returned; the bucket is
\* uncounted only when its first item was also its last.
DictRemove(k) ==
    LET chain == data[Hash[k]]
        i == Find(chain, k)
    IN  /\ status = "live"
        /\ data' = IF i = 0 THEN data ELSE [data EXCEPT ![Hash[k]] = Unlink(chain, i)]
        /\ occupation' = IF i = 1 /\ Len(chain) = 1 THEN occupation - 1 ELSE occupation
        /\ result' = IF i = 0 THEN NULL ELSE chain[i].value
        /\ UNCHANGED status

\* dict_free: aborts on a non-zero occupation, and releases the chains.
DictFree ==
    /\ status = "live"
    /\ IF occupation > 0
       THEN status' = "aborted" /\ UNCHANGED data
       ELSE status' = "freed" /\ data' = [b \in Buckets |-> <<>>]
    /\ UNCHANGED <<occupation, result>>

DictNext ==
    \/ \E k \in Keys, v \in Values : DictPut(k, v)
    \/ \E k \in Keys : DictGet(k)
    \/ \E k \in Keys : DictRemove(k)
    \/ DictFree

DictSpec == DictInit /\ [][DictNext]_dictVars

----------------------------------------------------------------------------
\* Types of the dictionary of cc_dict.c.
DictTypeOK ==
    /\ data \in [Buckets -> Seq(Items)]
    /\ occupation \in Int
    /\ result \in Values \cup {NULL}
    /\ status \in {"live", "freed", "aborted"}

\* The chains of cc_dict.c hold each key at most once, in the bucket
\* generate_hash gives it: an item anywhere else would be unreachable for
\* dict_get and dict_remove, and a second one would survive a removal.
KeysAtHomeOnce ==
    \A b \in Buckets : \A i, j \in DOMAIN data[b] :
        /\ Hash[data[b][i].key] = b
        /\ data[b][i].key = data[b][j].key => i = j

\* `occupation', which dict_put and dict_remove keep at five places of the code,
\* is zero just when no key has a value: all that dict_free reads of it.
OccupationTellsEmpty ==
    occupation > 0 <=> \E k \in Keys : Lookup(data, k) # NULL

\* The abstract map: what dict_get would answer for every key.
Abstraction == [k \in Keys |-> Lookup(data, k)]

Map == INSTANCE DictMap WITH map <- Abstraction

\* Every run of cc_dict.c is a run of the map cc_dict.h promises.
ImplementsMap == Map!MapSpec
=============================================================================
