----------------------------- MODULE Dict_proofs -----------------------------
(***************************************************************************)
(* Proofs about Dict for every set of keys and values, every number of     *)
(* buckets and every hash function: the chains stay well formed, the       *)
(* occupation is the number of buckets in use, and the dictionary          *)
(* implements the map of DictMap.                                          *)
(***************************************************************************)
EXTENDS Dict, FiniteSetTheorems, TLAPS

\* A chain of bucket b as KeysAtHomeOnce wants it.
GoodChain(chain, b) ==
    /\ chain \in Seq(Items)
    /\ \A i, j \in DOMAIN chain :
          /\ Hash[chain[i].key] = b
          /\ chain[i].key = chain[j].key => i = j

\* The value a chain holds for a key.
ChainValue(chain, k) ==
    IF Find(chain, k) = 0 THEN NULL ELSE chain[Find(chain, k)].value

\* What the counter counts: the buckets in use.
OccupationCountsBuckets ==
    occupation = Cardinality({b \in Buckets : data[b] # <<>>})

\* The inductive invariant.
IInv == DictTypeOK /\ KeysAtHomeOnce /\ OccupationCountsBuckets

\* dict_item_get finds the one item with the key, when there is one.
LEMMA FindProps ==
    ASSUME NEW b, NEW chain, GoodChain(chain, b), NEW k
    PROVE  /\ Find(chain, k) \in 0 .. Len(chain)
           /\ Find(chain, k) = 0 <=> \A i \in DOMAIN chain : chain[i].key # k
           /\ Find(chain, k) # 0 => chain[Find(chain, k)].key = k
           /\ \A i \in DOMAIN chain : chain[i].key = k => Find(chain, k) = i
<1> DEFINE hits == {i \in DOMAIN chain : chain[i].key = k}
<1>1. DOMAIN chain = 1 .. Len(chain) /\ Len(chain) \in Nat
  BY DEF GoodChain
<1>2. CASE hits = {}
  BY <1>1, <1>2 DEF Find
<1>3. ASSUME NEW i \in hits PROVE Find(chain, k) = i
  <2>1. hits = {i}
    BY DEF GoodChain
  <2>2. i <= i
    BY <1>1
  <2>3. (CHOOSE m \in hits : \A j \in hits : m <= j) = i
    BY <2>1, <2>2
  <2> QED
    BY <2>1, <2>3 DEF Find
<1> QED
  BY <1>1, <1>2, <1>3

\* The item dict_get finds is one of the chain and carries a value.
LEMMA FindType ==
    ASSUME NEW b, NEW chain, GoodChain(chain, b), NEW k
    PROVE  /\ Len(chain) \in Nat
           /\ Find(chain, k) # 0 => /\ Find(chain, k) \in 1 .. Len(chain)
                                    /\ chain # <<>>
                                    /\ chain[Find(chain, k)].value \in Values
<1>1. /\ chain \in Seq(Items) /\ Len(chain) \in Nat
      /\ \A i \in 1 .. Len(chain) : chain[i] \in Items
  BY DEF GoodChain
<1>2. Find(chain, k) # 0 => Find(chain, k) \in 1 .. Len(chain)
  BY <1>1, FindProps
<1> QED
  BY <1>1, <1>2 DEF Items

\* Appending an item with a new key keeps the chain well formed, adds its
\* value and disturbs no other key.
LEMMA AppendProps ==
    ASSUME NEW b, NEW chain, GoodChain(chain, b), NEW k \in Keys, NEW v \in Values,
           Hash[k] = b, Find(chain, k) = 0
    PROVE  LET longer == Append(chain, [key |-> k, value |-> v])
           IN  /\ GoodChain(longer, b)
               /\ longer # <<>>
               /\ ChainValue(longer, k) = v
               /\ \A q : q # k => ChainValue(longer, q) = ChainValue(chain, q)
<1> DEFINE item == [key |-> k, value |-> v]
           longer == Append(chain, item)
<1>1. item \in Items
  BY DEF Items
<1>2. /\ chain \in Seq(Items) /\ Len(chain) \in Nat
      /\ DOMAIN chain = 1 .. Len(chain)
  BY DEF GoodChain
<1>3. /\ longer \in Seq(Items)
      /\ DOMAIN longer = 1 .. Len(chain) + 1
      /\ Len(longer) = Len(chain) + 1
      /\ \A i \in 1 .. Len(chain) : longer[i] = chain[i]
      /\ longer[Len(chain) + 1] = item
  BY <1>1, <1>2
<1>4. \A i \in DOMAIN chain : chain[i].key # k
  BY FindProps
<1>5. GoodChain(longer, b)
  BY <1>2, <1>3, <1>4 DEF GoodChain
<1>6. longer # <<>>
  BY <1>3, <1>2
<1>7. ChainValue(longer, k) = v
  <2>1. Len(chain) + 1 \in DOMAIN longer /\ longer[Len(chain) + 1].key = k
    BY <1>2, <1>3
  <2>2. Find(longer, k) = Len(chain) + 1
    BY <1>5, <2>1, FindProps
  <2> QED
    BY <1>2, <1>3, <2>2 DEF ChainValue
<1>8. ASSUME NEW q, q # k PROVE ChainValue(longer, q) = ChainValue(chain, q)
  <2>1. CASE Find(chain, q) = 0
    <3>1. \A i \in DOMAIN chain : chain[i].key # q
      BY <2>1, FindProps
    <3>2. \A i \in DOMAIN longer : longer[i].key # q
      BY <3>1, <1>2, <1>3, <1>8
    <3>3. Find(longer, q) = 0
      BY <3>2, <1>5, FindProps
    <3> QED
      BY <2>1, <3>3 DEF ChainValue
  <2>2. CASE Find(chain, q) # 0
    <3>1. Find(chain, q) \in 1 .. Len(chain) /\ chain[Find(chain, q)].key = q
      BY <2>2, <1>2, FindProps
    <3>2. Find(longer, q) = Find(chain, q)
      <4>1. /\ Find(chain, q) \in DOMAIN longer
            /\ longer[Find(chain, q)].key = q
        BY <3>1, <1>2, <1>3
      <4> QED
        BY <4>1, <1>5, FindProps
    <3> QED
      BY <2>2, <3>1, <3>2, <1>3 DEF ChainValue
  <2> QED
    BY <2>1, <2>2
<1> QED
  BY <1>5, <1>6, <1>7, <1>8

\* Unlinking the item of a key keeps the chain well formed, forgets that key
\* and disturbs no other; the chain is empty afterwards just when it had one item.
LEMMA UnlinkProps ==
    ASSUME NEW b, NEW chain, GoodChain(chain, b), NEW k, Find(chain, k) # 0
    PROVE  LET shorter == Unlink(chain, Find(chain, k))
           IN  /\ GoodChain(shorter, b)
               /\ shorter = <<>> <=> Len(chain) = 1
               /\ ChainValue(shorter, k) = NULL
               /\ \A q : q # k => ChainValue(shorter, q) = ChainValue(chain, q)
<1> DEFINE at == Find(chain, k)
           shorter == Unlink(chain, at)
<1>1. /\ chain \in Seq(Items) /\ Len(chain) \in Nat
      /\ DOMAIN chain = 1 .. Len(chain)
      /\ \A i \in 1 .. Len(chain) : chain[i] \in Items
  BY DEF GoodChain
<1>2. at \in 1 .. Len(chain) /\ chain[at].key = k
  BY <1>1, FindProps
<1>3. /\ DOMAIN shorter = 1 .. Len(chain) - 1
      /\ \A i \in 1 .. Len(chain) - 1 :
            shorter[i] = IF i < at THEN chain[i] ELSE chain[i + 1]
  BY DEF Unlink
<1>4. shorter \in [1 .. Len(chain) - 1 -> Items]
  BY <1>1, <1>2 DEF Unlink
<1>5. shorter \in Seq(Items) /\ Len(shorter) = Len(chain) - 1
  <2>1. Len(chain) - 1 \in Nat
    BY <1>1, <1>2
  <2> HIDE DEF shorter
  <2> QED
    BY <2>1, <1>4
<1>6. ASSUME NEW i \in DOMAIN chain, chain[i].key # k
      PROVE  \E j \in DOMAIN shorter : shorter[j] = chain[i]
  <2>1. CASE i < at
    BY <2>1, <1>1, <1>2, <1>3
  <2>2. CASE i > at
    <3>1. i - 1 \in DOMAIN shorter /\ shorter[i - 1] = chain[i]
      BY <2>2, <1>1, <1>2, <1>3
    <3> QED
      BY <3>1
  <2> QED
    BY <2>1, <2>2, <1>6, <1>1, <1>2
<1>7. ASSUME NEW j \in DOMAIN shorter
      PROVE  \E i \in DOMAIN chain : /\ i = (IF j < at THEN j ELSE j + 1)
                                     /\ i # at /\ shorter[j] = chain[i]
  BY <1>1, <1>2, <1>3
<1>8. \A j \in DOMAIN shorter : shorter[j].key # k
  BY <1>2, <1>7, <1>1 DEF GoodChain
<1>9. GoodChain(shorter, b)
  <2>1. ASSUME NEW i \in DOMAIN shorter, NEW j \in DOMAIN shorter
        PROVE  /\ Hash[shorter[i].key] = b
               /\ shorter[i].key = shorter[j].key => i = j
    <3>1. PICK p \in DOMAIN chain : /\ p = (IF i < at THEN i ELSE i + 1)
                                    /\ p # at /\ shorter[i] = chain[p]
      BY <1>7
    <3>2. PICK r \in DOMAIN chain : /\ r = (IF j < at THEN j ELSE j + 1)
                                    /\ r # at /\ shorter[j] = chain[r]
      BY <1>7
    <3>3. Hash[chain[p].key] = b /\ (chain[p].key = chain[r].key => p = r)
      BY DEF GoodChain
    <3>4. p = r => i = j
      BY <3>1, <3>2, <1>1, <1>2, <1>3
    <3> QED
      BY <3>1, <3>2, <3>3, <3>4
  <2> QED
    BY <2>1, <1>5 DEF GoodChain
<1>10. shorter = <<>> <=> Len(chain) = 1
  BY <1>1, <1>2, <1>5
<1>11. ChainValue(shorter, k) = NULL
  BY <1>8, <1>9, FindProps DEF ChainValue
<1>12. ASSUME NEW q, q # k PROVE ChainValue(shorter, q) = ChainValue(chain, q)
  <2>1. CASE Find(chain, q) = 0
    <3>1. \A i \in DOMAIN chain : chain[i].key # q
      BY <2>1, FindProps
    <3>2. \A j \in DOMAIN shorter : shorter[j].key # q
      BY <3>1, <1>7
    <3>3. Find(shorter, q) = 0
      BY <3>2, <1>9, FindProps
    <3> QED
      BY <2>1, <3>3 DEF ChainValue
  <2>2. CASE Find(chain, q) # 0
    <3>1. Find(chain, q) \in DOMAIN chain /\ chain[Find(chain, q)].key = q
      BY <2>2, <1>1, FindProps
    <3>2. PICK j \in DOMAIN shorter : shorter[j] = chain[Find(chain, q)]
      BY <3>1, <1>6, <1>12
    <3>3. Find(shorter, q) = j
      BY <3>1, <3>2, <1>9, FindProps
    <3>4. j # 0
      BY <1>1, <1>3
    <3> QED
      BY <2>2, <3>2, <3>3, <3>4 DEF ChainValue
  <2> QED
    BY <2>1, <2>2
<1> QED
  BY <1>9, <1>10, <1>11, <1>12

----------------------------------------------------------------------------
\* A bucket of the invariant holds a well formed chain.
LEMMA BucketIsGood ==
    ASSUME IInv, NEW b \in Buckets
    PROVE  GoodChain(data[b], b)
BY DEF IInv, DictTypeOK, KeysAtHomeOnce, GoodChain

\* One bucket replaced by another well formed chain, the occupation adjusted
\* by one when the bucket starts or stops being empty.
LEMMA ReplaceChain ==
    ASSUME IInv, NEW b \in Buckets, NEW chain, GoodChain(chain, b),
           data' = [data EXCEPT ![b] = chain],
           occupation' = CASE data[b] = <<>> /\ chain # <<>> -> occupation + 1
                           [] data[b] # <<>> /\ chain = <<>> -> occupation - 1
                           [] OTHER -> occupation
    PROVE  /\ data' \in [Buckets -> Seq(Items)]
           /\ occupation' \in Int
           /\ KeysAtHomeOnce'
           /\ OccupationCountsBuckets'
<1> DEFINE used == {c \in Buckets : data[c] # <<>>}
           used1 == {c \in Buckets : data'[c] # <<>>}
<1>1. /\ data \in [Buckets -> Seq(Items)] /\ chain \in Seq(Items)
      /\ occupation = Cardinality(used) /\ occupation \in Int
  BY DEF IInv, DictTypeOK, OccupationCountsBuckets, GoodChain
<1>2. data' \in [Buckets -> Seq(Items)]
  BY <1>1
<1>3. /\ data'[b] = chain
      /\ \A c \in Buckets : c # b => data'[c] = data[c]
  BY <1>1
<1>4. KeysAtHomeOnce'
  BY <1>3, BucketIsGood DEF KeysAtHomeOnce, GoodChain
<1>5. IsFiniteSet(used)
  BY DictAssumption, FS_Subset DEF DictAssumption
<1>6. occupation' = Cardinality(used1) /\ occupation' \in Int
  <2>1. CASE data[b] = <<>> /\ chain # <<>>
    <3>1. used1 = used \cup {b} /\ b \notin used
      BY <2>1, <1>3
    <3>2. Cardinality(used \cup {b}) = Cardinality(used) + 1
      BY <1>5, <3>1, FS_AddElement
    <3>3. occupation' = occupation + 1
      BY <2>1
    <3> HIDE DEF used, used1
    <3> QED
      BY <3>1, <3>2, <3>3, <1>1
  <2>2. CASE data[b] # <<>> /\ chain = <<>>
    <3>1. used1 = used \ {b} /\ b \in used
      BY <2>2, <1>3
    <3>2. Cardinality(used \ {b}) = Cardinality(used) - 1
      BY <1>5, <3>1, FS_RemoveElement
    <3>3. occupation' = occupation - 1
      BY <2>2
    <3> HIDE DEF used, used1
    <3> QED
      BY <3>1, <3>2, <3>3, <1>1
  <2>3. CASE data[b] = <<>> <=> chain = <<>>
    <3>1. used1 = used
      BY <2>3, <1>3
    <3>2. occupation' = occupation
      BY <2>3
    <3> HIDE DEF used, used1
    <3> QED
      BY <3>1, <3>2, <1>1
  <2> QED
    BY <2>1, <2>2, <2>3
<1> QED
  BY <1>2, <1>4, <1>6 DEF OccupationCountsBuckets

\* What dict_put does to the bucket of its key when the key is new.
LEMMA PutNewKey ==
    ASSUME IInv, NEW k \in Keys, NEW v \in Values, DictPut(k, v),
           Find(data[Hash[k]], k) = 0
    PROVE  LET longer == Append(data[Hash[k]], [key |-> k, value |-> v])
           IN  /\ GoodChain(longer, Hash[k])
               /\ data' = [data EXCEPT ![Hash[k]] = longer]
               /\ occupation' = CASE data[Hash[k]] = <<>> /\ longer # <<>> -> occupation + 1
                                  [] data[Hash[k]] # <<>> /\ longer = <<>> -> occupation - 1
                                  [] OTHER -> occupation
<1>1. Hash[k] \in Buckets
  BY DictAssumption DEF DictAssumption
<1>2. GoodChain(data[Hash[k]], Hash[k])
  BY <1>1, BucketIsGood
<1>3. LET longer == Append(data[Hash[k]], [key |-> k, value |-> v])
      IN  GoodChain(longer, Hash[k]) /\ longer # <<>>
  BY <1>2, AppendProps
<1> QED
  BY <1>3 DEF DictPut

\* What dict_remove does to the bucket of its key when the key is there.
LEMMA RemoveKey ==
    ASSUME IInv, NEW k \in Keys, DictRemove(k), Find(data[Hash[k]], k) # 0
    PROVE  LET shorter == Unlink(data[Hash[k]], Find(data[Hash[k]], k))
           IN  /\ GoodChain(shorter, Hash[k])
               /\ data' = [data EXCEPT ![Hash[k]] = shorter]
               /\ occupation' = CASE data[Hash[k]] = <<>> /\ shorter # <<>> -> occupation + 1
                                  [] data[Hash[k]] # <<>> /\ shorter = <<>> -> occupation - 1
                                  [] OTHER -> occupation
<1> DEFINE chain == data[Hash[k]]
           at == Find(chain, k)
           shorter == Unlink(chain, at)
<1>1. Hash[k] \in Buckets
  BY DictAssumption DEF DictAssumption
<1>2. GoodChain(chain, Hash[k])
  BY <1>1, BucketIsGood
<1>3. GoodChain(shorter, Hash[k]) /\ (shorter = <<>> <=> Len(chain) = 1)
  BY <1>2, UnlinkProps
<1>4. at \in 1 .. Len(chain) /\ Len(chain) \in Nat /\ chain # <<>>
  BY <1>2, FindType
<1>6. /\ data' = [data EXCEPT ![Hash[k]] = shorter]
      /\ occupation' = IF at = 1 /\ Len(chain) = 1 THEN occupation - 1 ELSE occupation
  BY DEF DictRemove
<1>7. at = 1 /\ Len(chain) = 1 <=> shorter = <<>>
  <2>1. \A n \in Nat : \A i \in 1 .. n : n = 1 => i = 1
    OBVIOUS
  <2>2. Len(chain) = 1 => at = 1
    BY <1>4, <2>1, Zenon
  <2> QED
    BY <1>3, <2>2, Zenon
<1> QED
  BY <1>3, <1>4, <1>6, <1>7

\* An answer of the table is a registered value, or NULL.
LEMMA LookupType ==
    ASSUME IInv, NEW k \in Keys
    PROVE  /\ Lookup(data, k) \in Values \cup {NULL}
           /\ Lookup(data, k) = NULL <=> Find(data[Hash[k]], k) = 0
           /\ Find(data[Hash[k]], k) # 0 =>
                 Lookup(data, k) = data[Hash[k]][Find(data[Hash[k]], k)].value
<1>1. Hash[k] \in Buckets
  BY DictAssumption DEF DictAssumption
<1>2. GoodChain(data[Hash[k]], Hash[k])
  BY <1>1, BucketIsGood
<1>3. Find(data[Hash[k]], k) # 0 => data[Hash[k]][Find(data[Hash[k]], k)].value \in Values
  BY <1>2, FindType
<1> QED
  BY <1>3, DictAssumption DEF Lookup, DictAssumption

----------------------------------------------------------------------------
LEMMA InitIInv == DictInit => IInv
<1> SUFFICES ASSUME DictInit PROVE IInv
  OBVIOUS
<1>1. DictTypeOK /\ KeysAtHomeOnce
  BY DEF DictInit, DictTypeOK, KeysAtHomeOnce
<1>2. {b \in Buckets : data[b] # <<>>} = {}
  BY DEF DictInit
<1>3. OccupationCountsBuckets
  BY <1>2, FS_EmptySet DEF DictInit, OccupationCountsBuckets
<1> QED
  BY <1>1, <1>3 DEF IInv

LEMMA NextIInv == IInv /\ [DictNext]_dictVars => IInv'
<1> SUFFICES ASSUME IInv, [DictNext]_dictVars PROVE IInv'
  OBVIOUS
<1>1. ASSUME NEW k \in Keys, NEW v \in Values, DictPut(k, v) PROVE IInv'
  <2>1. result' \in Values \cup {NULL} /\ status' \in {"live", "freed", "aborted"}
    BY <1>1, LookupType DEF DictPut, IInv, DictTypeOK
  <2>2. Hash[k] \in Buckets
    BY DictAssumption DEF DictAssumption
  <2>3. CASE Find(data[Hash[k]], k) = 0
    BY <1>1, <2>1, <2>2, <2>3, PutNewKey, ReplaceChain DEF IInv, DictTypeOK
  <2>4. CASE Find(data[Hash[k]], k) # 0
    <3>1. data[Hash[k]] # <<>>
      BY <2>2, <2>4, BucketIsGood, FindProps
    <3>2. data' = data /\ occupation' = occupation
      BY <1>1, <2>4, <3>1 DEF DictPut
    <3> QED
      BY <2>1, <3>2 DEF IInv, DictTypeOK, KeysAtHomeOnce, OccupationCountsBuckets
  <2> QED
    BY <2>3, <2>4
<1>2. ASSUME NEW k \in Keys, DictGet(k) PROVE IInv'
  <2>1. result' \in Values \cup {NULL}
    BY <1>2, LookupType DEF DictGet
  <2> QED
    BY <1>2, <2>1 DEF DictGet, IInv, DictTypeOK, KeysAtHomeOnce, OccupationCountsBuckets
<1>3. ASSUME NEW k \in Keys, DictRemove(k) PROVE IInv'
  <2>1. result' \in Values \cup {NULL} /\ status' \in {"live", "freed", "aborted"}
    BY <1>3, LookupType DEF DictRemove, IInv, DictTypeOK
  <2>2. Hash[k] \in Buckets
    BY DictAssumption DEF DictAssumption
  <2>3. CASE Find(data[Hash[k]], k) # 0
    BY <1>3, <2>1, <2>2, <2>3, RemoveKey, ReplaceChain DEF IInv, DictTypeOK
  <2>4. CASE Find(data[Hash[k]], k) = 0
    <3>1. data' = data /\ occupation' = occupation
      BY <1>3, <2>4 DEF DictRemove
    <3> QED
      BY <2>1, <3>1 DEF IInv, DictTypeOK, KeysAtHomeOnce, OccupationCountsBuckets
  <2> QED
    BY <2>3, <2>4
<1>4. CASE DictFree
  <2>1. CASE occupation > 0
    BY <1>4, <2>1 DEF DictFree, IInv, DictTypeOK, KeysAtHomeOnce, OccupationCountsBuckets
  <2>2. CASE ~(occupation > 0)
    <3>1. IsFiniteSet({b \in Buckets : data[b] # <<>>})
      BY DictAssumption, FS_Subset DEF DictAssumption
    <3>2. occupation \in Nat
      BY <3>1, FS_CardinalityType DEF IInv, OccupationCountsBuckets
    <3>3. occupation = 0
      BY <2>2, <3>2
    <3>4. /\ data' = [b \in Buckets |-> <<>>]
          /\ occupation' = 0 /\ result' = result /\ status' = "freed"
      BY <1>4, <2>2, <3>3 DEF DictFree
    <3>5. {b \in Buckets : data'[b] # <<>>} = {}
      BY <3>4
    <3>6. OccupationCountsBuckets'
      BY <3>4, <3>5, FS_EmptySet DEF OccupationCountsBuckets
    <3>7. DictTypeOK' /\ KeysAtHomeOnce'
      BY <3>4 DEF IInv, DictTypeOK, KeysAtHomeOnce
    <3> QED
      BY <3>6, <3>7 DEF IInv
  <2> QED
    BY <2>1, <2>2
<1>5. CASE UNCHANGED dictVars
  BY <1>5 DEF dictVars, IInv, DictTypeOK, KeysAtHomeOnce, OccupationCountsBuckets
<1> QED
  BY <1>1, <1>2, <1>3, <1>4, <1>5 DEF DictNext

\* For every hash function and table size, the types hold, every chain of
\* cc_dict.c holds its keys once and at home, and `occupation' is the number
\* of buckets in use.
THEOREM DictInvariant == DictSpec => [](DictTypeOK /\ KeysAtHomeOnce /\ OccupationCountsBuckets)
<1>1. DictInit => IInv
  BY InitIInv
<1>2. IInv /\ [DictNext]_dictVars => IInv'
  BY NextIInv
<1>3. IInv => DictTypeOK /\ KeysAtHomeOnce /\ OccupationCountsBuckets
  BY DEF IInv
<1> QED
  BY <1>1, <1>2, <1>3, PTL DEF DictSpec

\* The part that every other proof about the table starts from: the types.
THEOREM DictTypes == DictSpec => []DictTypeOK
  BY DictInvariant, PTL

----------------------------------------------------------------------------
\* The abstract map after a call that rewrites the bucket of k: only the
\* answer for k can change.
LEMMA AbstractionAfter ==
    ASSUME IInv, NEW k \in Keys, NEW chain,
           data' = [data EXCEPT ![Hash[k]] = chain],
           \A q : q # k => ChainValue(chain, q) = ChainValue(data[Hash[k]], q)
    PROVE  Abstraction' = [Abstraction EXCEPT ![k] = ChainValue(chain, k)]
<1>1. \A q \in Keys : Hash[q] \in Buckets
  BY DictAssumption DEF DictAssumption
<1>2. \A q \in Keys : data'[Hash[q]] = IF Hash[q] = Hash[k] THEN chain ELSE data[Hash[q]]
  BY <1>1 DEF IInv, DictTypeOK
<1>3. \A q \in Keys : Lookup(data', q) = IF q = k THEN ChainValue(chain, k) ELSE Lookup(data, q)
  BY <1>2 DEF Lookup, ChainValue
<1> QED
  BY <1>3 DEF Abstraction

\* occupation = 0 says that dict_get would answer NULL for every key: the
\* abort of dict_free is the one cc_dict.h announces.
LEMMA FreeWhenEmpty ==
    ASSUME IInv
    PROVE  occupation > 0 <=> ~ \A k \in Keys : Abstraction[k] = NULL
<1> DEFINE used == {b \in Buckets : data[b] # <<>>}
<1>1. IsFiniteSet(used)
  BY DictAssumption, FS_Subset DEF DictAssumption
<1>2. occupation = Cardinality(used) /\ occupation \in Nat
  BY <1>1, FS_CardinalityType DEF IInv, OccupationCountsBuckets
<1>3. occupation = 0 <=> used = {}
  BY <1>1, <1>2, FS_EmptySet
<1>4. \A k \in Keys : Abstraction[k] = NULL <=> Find(data[Hash[k]], k) = 0
  BY LookupType DEF Abstraction
<1>5. ASSUME used = {}, NEW k \in Keys PROVE Find(data[Hash[k]], k) = 0
  <2>1. Hash[k] \in Buckets /\ data[Hash[k]] = <<>>
    BY <1>5, DictAssumption DEF DictAssumption
  <2> QED
    BY <2>1, BucketIsGood, FindType
<1>6. ASSUME NEW b \in used PROVE \E k \in Keys : Find(data[Hash[k]], k) # 0
  <2>1. GoodChain(data[b], b)
    BY BucketIsGood
  <2>2. data[b] \in Seq(Items) /\ data[b] # <<>>
    BY <2>1 DEF GoodChain
  <2>3. 1 \in DOMAIN data[b] /\ data[b][1] \in Items
    BY <2>2
  <2>4. data[b][1].key \in Keys /\ Hash[data[b][1].key] = b
    BY <2>1, <2>3 DEF GoodChain, Items
  <2>5. Find(data[b], data[b][1].key) # 0
    BY <2>1, <2>3, FindProps
  <2> QED
    BY <2>4, <2>5
<1> QED
  BY <1>2, <1>3, <1>4, <1>5, <1>6

\* The counter that dict_free trusts is zero just when every key was removed,
\* although what it counts is buckets.
THEOREM OccupationIsTrue == DictSpec => []OccupationTellsEmpty
<1>1. DictInit => IInv
  BY InitIInv
<1>2. IInv /\ [DictNext]_dictVars => IInv'
  BY NextIInv
<1>3. IInv => OccupationTellsEmpty
  BY FreeWhenEmpty DEF OccupationTellsEmpty, Abstraction
<1> QED
  BY <1>1, <1>2, <1>3, PTL DEF DictSpec

\* dict_put, dict_remove and dict_free are those of the abstract map.
LEMMA PutImplementsMap ==
    ASSUME IInv, NEW k \in Keys, NEW v \in Values, DictPut(k, v)
    PROVE  Map!MapPut(k, v)
<1>0. Abstraction[k] = Lookup(data, k)
  BY DEF Abstraction
<1>1. GoodChain(data[Hash[k]], Hash[k])
  BY BucketIsGood, DictAssumption DEF DictAssumption
<1>2. CASE Find(data[Hash[k]], k) = 0
  <2> DEFINE longer == Append(data[Hash[k]], [key |-> k, value |-> v])
  <2>1. data' = [data EXCEPT ![Hash[k]] = longer]
    BY <1>2, PutNewKey
  <2>2. /\ ChainValue(longer, k) = v
        /\ \A q : q # k => ChainValue(longer, q) = ChainValue(data[Hash[k]], q)
    BY <1>1, <1>2, AppendProps
  <2>3. Abstraction' = [Abstraction EXCEPT ![k] = v]
    BY <2>1, <2>2, AbstractionAfter
  <2>4. Abstraction[k] = NULL /\ result' = v
    BY <1>0, <1>2, LookupType DEF DictPut
  <2> QED
    BY <2>3, <2>4 DEF DictPut, Map!MapPut
<1>3. CASE Find(data[Hash[k]], k) # 0
  <2>1. Abstraction[k] # NULL /\ result' = Abstraction[k]
    BY <1>0, <1>3, LookupType DEF DictPut
  <2>2. data' = data
    BY <1>3 DEF DictPut
  <2>3. Abstraction' = Abstraction
    BY <2>2 DEF Abstraction
  <2>4. [Abstraction EXCEPT ![k] = Abstraction[k]] = Abstraction
    BY DEF Abstraction
  <2> QED
    BY <2>1, <2>3, <2>4 DEF DictPut, Map!MapPut
<1> QED
  BY <1>2, <1>3

LEMMA RemoveImplementsMap ==
    ASSUME IInv, NEW k \in Keys, DictRemove(k)
    PROVE  Map!MapRemove(k)
<1>0. Abstraction[k] = Lookup(data, k)
  BY DEF Abstraction
<1>1. GoodChain(data[Hash[k]], Hash[k])
  BY BucketIsGood, DictAssumption DEF DictAssumption
<1>2. result' = Abstraction[k]
  BY <1>0, LookupType DEF DictRemove
<1>3. CASE Find(data[Hash[k]], k) # 0
  <2> DEFINE shorter == Unlink(data[Hash[k]], Find(data[Hash[k]], k))
  <2>1. data' = [data EXCEPT ![Hash[k]] = shorter]
    BY <1>3, RemoveKey
  <2>2. /\ ChainValue(shorter, k) = NULL
        /\ \A q : q # k => ChainValue(shorter, q) = ChainValue(data[Hash[k]], q)
    BY <1>1, <1>3, UnlinkProps
  <2>3. Abstraction' = [Abstraction EXCEPT ![k] = NULL]
    BY <2>1, <2>2, AbstractionAfter
  <2> QED
    BY <1>2, <2>3 DEF DictRemove, Map!MapRemove
<1>4. CASE Find(data[Hash[k]], k) = 0
  <2>1. Abstraction[k] = NULL
    BY <1>0, <1>4, LookupType
  <2>2. data' = data
    BY <1>4 DEF DictRemove
  <2>3. Abstraction' = [Abstraction EXCEPT ![k] = NULL]
    BY <2>1, <2>2 DEF Abstraction
  <2> QED
    BY <1>2, <2>3 DEF DictRemove, Map!MapRemove
<1> QED
  BY <1>3, <1>4

LEMMA FreeImplementsMap ==
    ASSUME IInv, DictFree
    PROVE  Map!MapFree
<1>1. Abstraction' = Abstraction
  <2>1. CASE occupation > 0
    BY <2>1 DEF DictFree, Abstraction
  <2>2. CASE ~(occupation > 0)
    <3>1. \A k \in Keys : Abstraction[k] = NULL
      BY <2>2, FreeWhenEmpty
    <3>2. data' = [b \in Buckets |-> <<>>]
      BY <2>2 DEF DictFree
    <3>3. \A k \in Keys : Find(<<>>, k) = 0
      BY DEF Find
    <3>4. \A k \in Keys : Lookup(data', k) = NULL
      BY <3>2, <3>3, DictAssumption DEF Lookup, DictAssumption
    <3> QED
      BY <3>1, <3>4 DEF Abstraction
  <2> QED
    BY <2>1, <2>2
<1> QED
  BY <1>1, FreeWhenEmpty DEF DictFree, Map!MapFree

LEMMA NextImplementsMap ==
    ASSUME IInv, [DictNext]_dictVars
    PROVE  [Map!MapNext]_<<Abstraction, result, status>>
<1>1. ASSUME NEW k \in Keys, DictGet(k) PROVE Map!MapGet(k)
  BY <1>1 DEF DictGet, Map!MapGet, Abstraction
<1>2. ASSUME UNCHANGED dictVars PROVE UNCHANGED <<Abstraction, result, status>>
  BY <1>2 DEF dictVars, Abstraction
<1>3. ASSUME DictNext PROVE Map!MapNext
  BY <1>1, <1>3, PutImplementsMap, RemoveImplementsMap, FreeImplementsMap, Zenon
  DEF DictNext, Map!MapNext
<1> QED
  BY <1>2, <1>3

\* For every hash function, cc_dict.c implements the map of cc_dict.h: a put
\* never replaces a value, a removal forgets exactly its key, and dict_free
\* aborts just when an entry is left.
THEOREM DictImplementsMap == DictSpec => ImplementsMap
<1>1. DictInit => Map!MapInit
  <2>1. \A k \in Keys : Find(<<>>, k) = 0
    BY DEF Find
  <2> QED
    BY <2>1, DictAssumption
    DEF DictInit, Map!MapInit, Abstraction, Lookup, DictAssumption
<1>2. DictInit => IInv
  BY InitIInv
<1>3. IInv /\ [DictNext]_dictVars => IInv'
  BY NextIInv
<1>4. IInv /\ [DictNext]_dictVars => [Map!MapNext]_Map!mapVars
  BY NextImplementsMap DEF Map!mapVars
<1> QED
  BY <1>1, <1>2, <1>3, <1>4, PTL DEF DictSpec, ImplementsMap, Map!MapSpec
=============================================================================
