-------------------------- MODULE Compilation_proofs --------------------------
(***************************************************************************)
(* Proofs about Compilation for every set of lexemes and addresses, every  *)
(* size of the table and every hash function.  The calls of the table are  *)
(* seen through the map Dict implements: Abstraction[k] is the symbol that *)
(* the table has for the lexeme k, or NULL.                                *)
(***************************************************************************)
EXTENDS Compilation, Dict_proofs

\* Two lexemes of the source share a bucket.
Collision == \E g, h \in held : g.key # h.key /\ Hash[g.key] = Hash[h.key]

\* The symbols that are allocated are those the table has, each for the key it
\* was made for.
SymbolsInTable ==
    /\ \A k \in Keys : Abstraction[k] # NULL =>
          symbols[Abstraction[k]] # NULL /\ symbols[Abstraction[k]].key = k
    /\ \A p \in Values : symbols[p] # NULL => Abstraction[symbols[p].key] = p

\* Until the table is drained, a token points to the symbol of its lexeme.
TokensInTable ==
    phase \in {"start", "parsing"} => \A h \in held : Abstraction[h.key] = h.symbol

KeysAreTokens ==
    \A k \in Keys : Abstraction[k] # NULL => \E h \in held : h.key = k

\* The loop of main_finalize leaves an entry behind only where two met.
BucketsDrained ==
    /\ phase \in {"start", "parsing", "translating"} => bucket = 0
    /\ \A b \in Buckets : b < bucket => data[b] = <<>> \/ Collision

TableFreed ==
    phase \in {"freeing tree", "closing"} =>
        status = "freed" /\ \A p \in Values : symbols[p] = NULL

CInv ==
    /\ IInv /\ TypeOK
    /\ SymbolsInTable /\ TokensInTable /\ KeysAreTokens
    /\ BucketsDrained /\ TableFreed
    /\ SuccessIsComplete /\ AbortNeedsCollision

----------------------------------------------------------------------------
(* The table. *)

\* A symbol of the table is an address, never NULL, and the other way round.
LEMMA AbstractionType ==
    ASSUME IInv
    PROVE  Abstraction \in [Keys -> Values \cup {NULL}]
  BY LookupType DEF Abstraction

\* An item of a bucket is one the table finds.
LEMMA ItemFound ==
    ASSUME IInv, NEW b \in Buckets, NEW i \in DOMAIN data[b]
    PROVE  /\ data[b][i].key \in Keys /\ Hash[data[b][i].key] = b
           /\ Find(data[b], data[b][i].key) = i
           /\ Abstraction[data[b][i].key] \in Values
<1>1. GoodChain(data[b], b) /\ data[b] \in Seq(Items)
  BY BucketIsGood DEF GoodChain
<1>2. data[b][i] \in Items /\ i # 0
  BY <1>1
<1>3. data[b][i].key \in Keys /\ data[b][i].value \in Values /\ Hash[data[b][i].key] = b
  BY <1>1, <1>2 DEF Items, GoodChain
<1>4. Find(data[b], data[b][i].key) = i
  BY <1>1, FindProps
<1> QED
  BY <1>2, <1>3, <1>4, LookupType DEF Abstraction

\* A bucket that is not empty after the removal of its first item held two
\* lexemes of the source.
LEMMA SecondItem ==
    ASSUME IInv, KeysAreTokens, NEW b \in Buckets, data[b] # <<>>,
           Unlink(data[b], 1) # <<>>
    PROVE  Collision
<1>1. data[b] \in Seq(Items) /\ GoodChain(data[b], b)
  BY BucketIsGood DEF GoodChain
<1>2. 1 \in DOMAIN data[b] /\ Len(data[b]) \in Nat /\ DOMAIN data[b] = 1 .. Len(data[b])
  BY <1>1
<1>3. Len(data[b]) # 1
  <2>1. Find(data[b], data[b][1].key) = 1
    BY <1>2, ItemFound
  <2> QED
    BY <1>1, <2>1, UnlinkProps
<1>4. 2 \in DOMAIN data[b]
  <2>1. \A n \in Nat : 1 \in 1 .. n /\ n # 1 => 2 \in 1 .. n
    OBVIOUS
  <2> QED
    BY <1>2, <1>3, <2>1
<1> DEFINE k == data[b][1].key
           q == data[b][2].key
<1>5. /\ k \in Keys /\ Hash[k] = b /\ Abstraction[k] \in Values
      /\ q \in Keys /\ Hash[q] = b /\ Abstraction[q] \in Values
  BY <1>2, <1>4, ItemFound
<1>6. k # q
  BY <1>1, <1>2, <1>4 DEF GoodChain
<1>7. Abstraction[k] # NULL /\ Abstraction[q] # NULL
  BY <1>5, DictAssumption
<1>8. PICK g \in held : g.key = k
  BY <1>5, <1>7 DEF KeysAreTokens
<1>9. PICK h \in held : h.key = q
  BY <1>5, <1>7 DEF KeysAreTokens
<1> QED
  BY <1>5, <1>6, <1>8, <1>9 DEF Collision

\* A counter that is not zero counts a bucket in use.
LEMMA UsedBucket ==
    ASSUME IInv, occupation > 0
    PROVE  \E b \in Buckets : data[b] # <<>>
<1>1. occupation = Cardinality({b \in Buckets : data[b] # <<>>})
  BY DEF IInv, OccupationCountsBuckets
<1>2. {b \in Buckets : data[b] # <<>>} # {}
  BY <1>1, FS_EmptySet
<1> QED
  BY <1>2

----------------------------------------------------------------------------
(* The steps that leave the table alone. *)

LEMMA SameTable ==
    ASSUME CInv, UNCHANGED dictVars, held' = held, symbols' = symbols
    PROVE  /\ IInv' /\ DictTypeOK' /\ SymbolsInTable' /\ KeysAreTokens'
           /\ Abstraction' = Abstraction /\ status' = status /\ data' = data
           /\ Collision' = Collision /\ AbortNeedsCollision'
<1>1. data' = data /\ occupation' = occupation /\ result' = result /\ status' = status
  BY DEF dictVars
<1>2. Abstraction' = Abstraction
  BY <1>1 DEF Abstraction
<1>3. IInv'
  BY NextIInv DEF CInv
<1> QED
  BY <1>1, <1>2, <1>3 DEF CInv, IInv, SymbolsInTable, KeysAreTokens, Collision, AbortNeedsCollision

LEMMA MainInitKeeps ==
    ASSUME CInv, MainInit
    PROVE  CInv'
<1>1. /\ phase = "start" /\ phase' \in {"parsing", "aborted", "crashed"} /\ UNCHANGED dictVars
      /\ held' = held /\ symbols' = symbols /\ line_number' = line_number /\ ast' = ast
      /\ bucket' = bucket /\ ret' = ret
      /\ {graph', code'} \subseteq {"closed", "open", "pending", "written", "lost"}
  BY DEF MainInit, GvInitFails, CodeInitFails, tableVars
<1>2. TypeOK'
  BY <1>1, SameTable DEF CInv, TypeOK, Ended
<1>3. TokensInTable'
  BY <1>1, SameTable DEF CInv, TokensInTable
<1>4. BucketsDrained'
  BY <1>1, SameTable DEF CInv, BucketsDrained, Collision
<1>5. TableFreed' /\ SuccessIsComplete'
  BY <1>1 DEF TableFreed, SuccessIsComplete
<1> QED
  BY <1>1, <1>2, <1>3, <1>4, <1>5, SameTable DEF CInv

LEMMA NewLineKeeps ==
    ASSUME CInv, NewLine
    PROVE  CInv'
<1>1. /\ phase = "parsing" /\ phase' = phase /\ UNCHANGED dictVars
      /\ held' = held /\ symbols' = symbols /\ line_number' = line_number + 1
      /\ line_number < MaxLine /\ ast' = ast
      /\ bucket' = bucket /\ ret' = ret /\ graph' = graph /\ code' = code
  BY DEF NewLine, outVars
<1>2. line_number' \in 1 .. MaxLine
  BY <1>1, CompilationAssumption DEF CInv, TypeOK
<1>3. TypeOK'
  BY <1>1, <1>2, SameTable DEF CInv, TypeOK
<1>4. TokensInTable' /\ BucketsDrained' /\ TableFreed' /\ SuccessIsComplete'
  BY <1>1, SameTable DEF CInv, TokensInTable, BucketsDrained, TableFreed, SuccessIsComplete
<1> QED
  BY <1>1, <1>3, <1>4, SameTable DEF CInv

\* The steps that read the tree, write the files or end the process.
LEMMA DriverKeeps ==
    ASSUME CInv, UNCHANGED dictVars, held' = held, symbols' = symbols, line_number' = line_number,
           bucket' = bucket, ast' \in BOOLEAN, ret' \in 0 .. 2,
           {graph', code'} \subseteq {"closed", "open", "pending", "written", "lost"},
           phase' \in {"translating", "finalizing", "closing"} \cup Ended,
           phase' = "translating" => phase = "parsing",
           phase' = "closing" => phase = "freeing tree",
           SuccessIsComplete'
    PROVE  CInv'
<1>1. TypeOK'
  BY SameTable DEF CInv, TypeOK, Ended
<1>2. TokensInTable'
  BY DEF TokensInTable, Ended
<1>3. BucketsDrained'
  <2>1. phase' \in {"start", "parsing", "translating"} => bucket' = 0
    BY DEF CInv, BucketsDrained, Ended
  <2>2. \A b \in Buckets : b < bucket' => data'[b] = <<>> \/ Collision'
    BY SameTable DEF CInv, BucketsDrained, Collision
  <2> QED
    BY <2>1, <2>2 DEF BucketsDrained
<1>4. TableFreed'
  BY SameTable DEF CInv, TableFreed, Ended
<1> QED
  BY <1>1, <1>2, <1>3, <1>4, SameTable DEF CInv

LEMMA AcceptKeeps ==
    ASSUME CInv, Accept
    PROVE  CInv'
<1>1. /\ phase = "parsing" /\ phase' \in {"finalizing", "translating"} /\ UNCHANGED dictVars
      /\ held' = held /\ symbols' = symbols /\ line_number' = line_number /\ ast' = TRUE
      /\ bucket' = bucket /\ ret' = ret /\ graph' = graph /\ code' = code
  BY DEF Accept, tableVars, outVars
<1>2. ret' \in 0 .. 2 /\ {graph', code'} \subseteq {"closed", "open", "pending", "written", "lost"}
  BY <1>1 DEF CInv, TypeOK
<1>3. SuccessIsComplete'
  BY <1>1 DEF SuccessIsComplete
<1> QED
  BY <1>1, <1>2, <1>3, DriverKeeps

LEMMA TranslateKeeps ==
    ASSUME CInv, Translate
    PROVE  CInv'
<1>1. /\ phase' \in {"finalizing", "aborted", "crashed"} /\ UNCHANGED dictVars
      /\ held' = held /\ symbols' = symbols /\ line_number' = line_number /\ ast' = ast
      /\ bucket' = bucket /\ ret' = ret
      /\ graph' \in {graph, "lost"} /\ code' \in {"pending", "lost"}
  BY DEF Translate, tableVars
<1>2. /\ ret' \in 0 .. 2 /\ ast' \in BOOLEAN
      /\ {graph', code'} \subseteq {"closed", "open", "pending", "written", "lost"}
  BY <1>1 DEF CInv, TypeOK
<1>3. SuccessIsComplete'
  BY <1>1 DEF SuccessIsComplete
<1> QED
  BY <1>1, <1>2, <1>3, DriverKeeps DEF Ended

LEMMA SyntaxErrorKeeps ==
    ASSUME CInv, SyntaxError
    PROVE  CInv'
<1>1. /\ phase' = "finalizing" /\ UNCHANGED dictVars
      /\ held' = held /\ symbols' = symbols /\ line_number' = line_number /\ ast' = ast
      /\ bucket' = bucket /\ ret' = 1 /\ graph' = graph /\ code' = code
  BY DEF SyntaxError, tableVars, outVars
<1>2. /\ ret' \in 0 .. 2 /\ ast' \in BOOLEAN
      /\ {graph', code'} \subseteq {"closed", "open", "pending", "written", "lost"}
  <2>1. ast \in BOOLEAN /\ {graph, code} \subseteq {"closed", "open", "pending", "written", "lost"}
    BY DEF CInv, TypeOK
  <2> QED
    BY <1>1, <2>1
<1>3. SuccessIsComplete'
  BY <1>1 DEF SuccessIsComplete
<1> QED
  BY <1>1, <1>2, <1>3, DriverKeeps

LEMMA SemanticErrorKeeps ==
    ASSUME CInv, SemanticError
    PROVE  CInv'
<1>1. /\ UNCHANGED dictVars
      /\ held' = held /\ symbols' = symbols /\ line_number' = line_number /\ ast' = ast
      /\ bucket' = bucket
      /\ \/ phase' = "exited" /\ ret' \in {1, 2}
         \/ phase' \in {"crashed", "aborted"} /\ ret' = ret
      /\ graph' \in {graph, "written", "lost"} /\ code' \in {code, "written", "lost"}
  BY DEF SemanticError, Die, tableVars, AfterExit, AfterKill
<1>2. /\ ret' \in 0 .. 2 /\ ast' \in BOOLEAN
      /\ {graph', code'} \subseteq {"closed", "open", "pending", "written", "lost"}
  <2>1. ret \in 0 .. 2 /\ ast \in BOOLEAN /\ {graph, code} \subseteq {"closed", "open", "pending", "written", "lost"}
    BY DEF CInv, TypeOK
  <2> QED
    BY <1>1, <2>1
<1>3. SuccessIsComplete'
  BY <1>1 DEF SuccessIsComplete
<1> QED
  BY <1>1, <1>2, <1>3, DriverKeeps DEF Ended

\* A tree that is not there ends the process before the files are closed.
LEMMA FreeTreeKeeps ==
    ASSUME CInv, FreeTree
    PROVE  CInv'
<1>1. /\ phase = "freeing tree" /\ phase' \in {"closing", "crashed"} /\ UNCHANGED dictVars
      /\ held' = held /\ symbols' = symbols /\ line_number' = line_number /\ ast' = ast
      /\ bucket' = bucket /\ ret' = ret
      /\ graph' \in {graph, "lost"} /\ code' \in {code, "lost"}
  BY DEF FreeTree, Die, tableVars, outVars, AfterKill
<1>2. /\ ret' \in 0 .. 2 /\ ast' \in BOOLEAN
      /\ {graph', code'} \subseteq {"closed", "open", "pending", "written", "lost"}
  BY <1>1 DEF CInv, TypeOK
<1>3. SuccessIsComplete'
  BY <1>1 DEF SuccessIsComplete
<1> QED
  BY <1>1, <1>2, <1>3, DriverKeeps DEF Ended

\* What was freed and emptied before the files are closed makes the success.
LEMMA CloseKeeps ==
    ASSUME CInv, Close
    PROVE  CInv'
<1>1. /\ phase = "closing" /\ phase' = "exited" /\ UNCHANGED dictVars
      /\ held' = held /\ symbols' = symbols /\ line_number' = line_number /\ ast' = ast
      /\ bucket' = bucket /\ ret' = ret /\ graph' = "written" /\ code' = "written"
  BY DEF Close, GvClose, tableVars
<1>2. ret' \in 0 .. 2 /\ ast' \in BOOLEAN
  BY <1>1 DEF CInv, TypeOK
<1>3. SuccessIsComplete'
  BY <1>1, SameTable DEF CInv, TableFreed, SuccessIsComplete
<1> QED
  BY <1>1, <1>2, <1>3, DriverKeeps DEF Ended

----------------------------------------------------------------------------
(* The steps that change it. *)

\* The key of an allocated symbol is a lexeme the table has.
LEMMA SymbolKey ==
    ASSUME CInv, NEW p \in Values, symbols[p] # NULL
    PROVE  /\ symbols[p].key \in Keys /\ Abstraction[symbols[p].key] = p
           /\ Abstraction[symbols[p].key] # NULL
<1>1. symbols[p] \in [key : Keys, line : 1 .. MaxLine]
  BY DEF CInv, TypeOK
<1>2. symbols[p].key \in Keys
  BY <1>1
<1>3. Abstraction[symbols[p].key] = p /\ p # NULL
  BY DictAssumption DEF CInv, SymbolsInTable
<1> QED
  BY <1>2, <1>3

\* insert_symbol: an old lexeme keeps its symbol, a new one gets the fresh one.
LEMMA InsertSymbolKeeps ==
    ASSUME CInv, NEW k \in Keys, InsertSymbol(k)
    PROVE  CInv'
<1> DEFINE symbol == [key |-> k, line |-> line_number]
           token == [key |-> k, symbol |-> result']
<1>1. PICK p \in Values : /\ symbols[p] = NULL /\ DictPut(k, p)
                          /\ symbols' = [symbols EXCEPT ![result'] = symbol]
  BY DEF InsertSymbol
<1>2. /\ phase = "parsing" /\ held' = held \cup {token}
      /\ line_number' = line_number /\ ast' = ast /\ phase' = phase /\ bucket' = bucket
      /\ graph' = graph /\ code' = code /\ ret' = ret
  BY DEF InsertSymbol, outVars
<1>3. IInv /\ TypeOK /\ Abstraction \in [Keys -> Values \cup {NULL}] /\ NULL \notin Values
  BY AbstractionType, DictAssumption DEF CInv
<1>4. /\ status = "live" /\ status' = status
      /\ result' = IF Abstraction[k] = NULL THEN p ELSE Abstraction[k]
      /\ Abstraction' = [Abstraction EXCEPT ![k] = result']
  BY <1>1, <1>3, PutImplementsMap DEF Map!MapPut
<1>5. result' \in Values /\ Abstraction'[k] = result'
      /\ \A q \in Keys : q # k => Abstraction'[q] = Abstraction[q]
  BY <1>3, <1>4
<1>6. IInv'
  BY <1>1, <1>3, NextIInv DEF DictNext
<1>7. symbol \in [key : Keys, line : 1 .. MaxLine] /\ symbol # NULL /\ symbol.key = k
  <2>1. line_number \in 1 .. MaxLine /\ line_number \in Nat
    <3>1. line_number \in 1 .. MaxLine
      BY <1>3 DEF TypeOK
    <3>2. MaxLine \in Nat
      BY CompilationAssumption
    <3> QED
      BY <3>1, <3>2
  <2>2. symbol \in [key : Keys, line : Nat]
    BY <2>1
  <2> QED
    BY <2>1, <2>2, CompilationAssumption
<1> HIDE DEF symbol
<1>8. /\ symbols' \in [Values -> [key : Keys, line : 1 .. MaxLine] \cup {NULL}]
      /\ symbols'[result'] = symbol
      /\ \A q \in Values : q # result' => symbols'[q] = symbols[q]
  BY <1>1, <1>3, <1>5, <1>7 DEF TypeOK
<1>9. TypeOK'
  <2>1. DictTypeOK'
    BY <1>6 DEF IInv
  <2>2. held' \subseteq [key : Keys, symbol : Values]
    BY <1>2, <1>3, <1>5 DEF TypeOK
  <2> QED
    BY <1>2, <1>3, <1>8, <2>1, <2>2 DEF TypeOK
<1>10. SymbolsInTable'
  <2>1. ASSUME NEW q \in Keys, Abstraction'[q] # NULL
        PROVE  symbols'[Abstraction'[q]] # NULL /\ symbols'[Abstraction'[q]].key = q
    <3>1. CASE q = k
      BY <1>5, <1>7, <1>8, <3>1
    <3>2. CASE q # k
      <4>1. Abstraction'[q] = Abstraction[q] /\ Abstraction[q] \in Values
        BY <1>3, <1>5, <2>1, <3>2
      <4>2. symbols[Abstraction[q]] # NULL /\ symbols[Abstraction[q]].key = q
        BY <2>1, <4>1 DEF CInv, SymbolsInTable
      <4>3. Abstraction[k] # NULL => symbols[Abstraction[k]].key = k
        BY DEF CInv, SymbolsInTable
      <4>4. Abstraction[q] # result'
        BY <1>1, <1>4, <3>2, <4>2, <4>3
      <4> QED
        BY <1>8, <4>1, <4>2, <4>4
    <3> QED
      BY <3>1, <3>2
  <2>2. ASSUME NEW q \in Values, symbols'[q] # NULL
        PROVE  Abstraction'[symbols'[q].key] = q
    <3>1. CASE q = result'
      BY <1>5, <1>7, <1>8, <3>1
    <3>2. CASE q # result'
      <4>1. symbols'[q] = symbols[q]
        BY <1>8, <3>2
      <4>2. symbols[q].key \in Keys /\ Abstraction[symbols[q].key] = q /\ q # NULL
        BY <1>3, <2>2, <4>1, SymbolKey
      <4>3. symbols[q].key # k
        BY <1>4, <3>2, <4>2
      <4> QED
        BY <1>5, <4>1, <4>2, <4>3
    <3> QED
      BY <3>1, <3>2
  <2> QED
    BY <2>1, <2>2 DEF SymbolsInTable
<1>11. TokensInTable'
  <2>1. ASSUME NEW h \in held PROVE Abstraction'[h.key] = h.symbol
    <3>1. h.key \in Keys /\ h.symbol \in Values /\ Abstraction[h.key] = h.symbol
      BY <1>2, <1>3 DEF TypeOK, CInv, TokensInTable
    <3> QED
      BY <1>3, <1>4, <1>5, <3>1
  <2>2. Abstraction'[token.key] = token.symbol
    BY <1>5
  <2> QED
    BY <1>2, <2>1, <2>2 DEF TokensInTable
<1>12. KeysAreTokens'
  <2> SUFFICES ASSUME NEW q \in Keys, Abstraction'[q] # NULL PROVE \E h \in held' : h.key = q
    BY DEF KeysAreTokens
  <2>1. CASE q = k
    <3>1. token \in held' /\ token.key = k
      BY <1>2
    <3> QED
      BY <2>1, <3>1
  <2>2. CASE q # k
    <3>1. \E h \in held : h.key = q
      BY <1>5, <2>2 DEF CInv, KeysAreTokens
    <3> QED
      BY <1>2, <3>1
  <2> QED
    BY <2>1, <2>2
<1>13. BucketsDrained'
  <2>1. bucket' = 0 /\ \A b \in Buckets : ~(b < 0)
    BY <1>2, CompilationAssumption DEF CInv, BucketsDrained
  <2> QED
    BY <2>1 DEF BucketsDrained
<1>14. TableFreed' /\ SuccessIsComplete' /\ AbortNeedsCollision'
  BY <1>2, <1>4 DEF TableFreed, SuccessIsComplete, AbortNeedsCollision
<1> QED
  BY <1>6, <1>9, <1>10, <1>11, <1>12, <1>13, <1>14 DEF CInv

\* The loop of main_finalize frees the symbol of the item it removes.
LEMMA DrainBucketKeeps ==
    ASSUME CInv, DrainBucket
    PROVE  CInv'
<1>1. /\ phase = "finalizing" /\ phase' = phase /\ bucket < Size /\ bucket' = bucket + 1
      /\ held' = held /\ line_number' = line_number /\ ast' = ast
      /\ graph' = graph /\ code' = code /\ ret' = ret
  BY DEF DrainBucket, outVars
<1>2. IInv /\ TypeOK /\ Abstraction \in [Keys -> Values \cup {NULL}] /\ NULL \notin Values
  BY AbstractionType, DictAssumption DEF CInv
<1>3. /\ bucket \in Buckets /\ bucket' \in 0 .. Size
      /\ \A b \in Buckets : b < bucket' => b = bucket \/ b < bucket
  <2>1. bucket \in 0 .. Size /\ Size \in Nat /\ Buckets = 0 .. Size - 1
    BY <1>2, CompilationAssumption DEF TypeOK
  <2> QED
    BY <1>1, <2>1
<1>4. TokensInTable' /\ TableFreed' /\ SuccessIsComplete'
  BY <1>1 DEF TokensInTable, TableFreed, SuccessIsComplete
<1>5. CASE data[bucket] = <<>>
  <2>1. UNCHANGED dictVars /\ symbols' = symbols
    BY <1>5 DEF DrainBucket
  <2>2. TypeOK'
    BY <1>1, <1>2, <1>3, <2>1, SameTable DEF TypeOK
  <2>3. \A b \in Buckets : b < bucket' => data'[b] = <<>> \/ Collision'
    <3>1. data' = data
      BY <2>1 DEF dictVars
    <3> QED
      BY <1>1, <1>3, <1>5, <3>1 DEF CInv, BucketsDrained, Collision
  <2>4. BucketsDrained'
    BY <1>1, <2>3 DEF BucketsDrained
  <2> QED
    BY <1>1, <1>4, <2>1, <2>2, <2>4, SameTable DEF CInv
<1>6. CASE data[bucket] # <<>>
  <2> DEFINE k == data[bucket][1].key
             p == Abstraction[k]
  <2>1. 1 \in DOMAIN data[bucket]
    <3>1. data[bucket] \in Seq(Items)
      BY <1>2, <1>3 DEF IInv, DictTypeOK
    <3> QED
      BY <1>6, <3>1
  <2>2. k \in Keys /\ Hash[k] = bucket /\ Find(data[bucket], k) = 1 /\ p \in Values
    BY <1>2, <1>3, <2>1, ItemFound
  <2>3. DictRemove(k) /\ symbols' = [symbols EXCEPT ![result'] = NULL]
    BY <1>6 DEF DrainBucket
  <2> HIDE DEF k
  <2>4. data' = [data EXCEPT ![bucket] = Unlink(data[bucket], 1)]
    <3>1. data' = IF Find(data[Hash[k]], k) = 0 THEN data
                  ELSE [data EXCEPT ![Hash[k]] = Unlink(data[Hash[k]], Find(data[Hash[k]], k))]
      BY <2>3 DEF DictRemove
    <3>2. data' = IF Find(data[bucket], k) = 0 THEN data
                  ELSE [data EXCEPT ![bucket] = Unlink(data[bucket], Find(data[bucket], k))]
      BY <2>2, <3>1
    <3> QED
      BY <2>2, <3>2
  <2>5. /\ status = "live" /\ status' = status /\ result' = p
        /\ Abstraction' = [Abstraction EXCEPT ![k] = NULL]
    BY <1>2, <2>2, <2>3, RemoveImplementsMap DEF Map!MapRemove
  <2>6. IInv'
    BY <1>2, <2>2, <2>3, NextIInv DEF DictNext
  <2>7. Abstraction'[k] = NULL /\ \A q \in Keys : q # k => Abstraction'[q] = Abstraction[q]
    BY <1>2, <2>2, <2>5
  <2>8. /\ symbols' \in [Values -> [key : Keys, line : 1 .. MaxLine] \cup {NULL}]
        /\ symbols'[p] = NULL /\ \A q \in Values : q # p => symbols'[q] = symbols[q]
    BY <1>2, <2>2, <2>3, <2>5 DEF TypeOK
  <2>9. symbols[p].key = k
    BY <1>2, <2>2 DEF CInv, SymbolsInTable
  <2>10. TypeOK'
    <3>1. DictTypeOK'
      BY <2>6 DEF IInv
    <3> QED
      BY <1>1, <1>2, <1>3, <2>8, <3>1 DEF TypeOK
  <2>11. SymbolsInTable'
    <3>1. ASSUME NEW q \in Keys, Abstraction'[q] # NULL
          PROVE  symbols'[Abstraction'[q]] # NULL /\ symbols'[Abstraction'[q]].key = q
      <4>1. q # k /\ Abstraction'[q] = Abstraction[q] /\ Abstraction[q] \in Values
        BY <1>2, <2>7, <3>1
      <4>2. symbols[Abstraction[q]] # NULL /\ symbols[Abstraction[q]].key = q
        BY <3>1, <4>1 DEF CInv, SymbolsInTable
      <4>3. Abstraction[q] # p
        BY <2>9, <4>1, <4>2
      <4> QED
        BY <2>8, <4>1, <4>2, <4>3
    <3>2. ASSUME NEW q \in Values, symbols'[q] # NULL
          PROVE  Abstraction'[symbols'[q].key] = q
      <4>1. q # p /\ symbols'[q] = symbols[q]
        BY <2>8, <3>2
      <4>2. symbols[q].key \in Keys /\ Abstraction[symbols[q].key] = q
        BY <3>2, <4>1, SymbolKey
      <4> QED
        BY <2>7, <4>1, <4>2
    <3> QED
      BY <3>1, <3>2 DEF SymbolsInTable
  <2>12. KeysAreTokens'
    BY <1>1, <2>7 DEF CInv, KeysAreTokens
  <2>13. \A b \in Buckets : b < bucket' => data'[b] = <<>> \/ Collision'
    <3>1. /\ data'[bucket] = Unlink(data[bucket], 1)
          /\ \A b \in Buckets : b # bucket => data'[b] = data[b]
      BY <1>2, <1>3, <2>4 DEF IInv, DictTypeOK
    <3>2. Unlink(data[bucket], 1) = <<>> \/ Collision
      BY <1>2, <1>3, <1>6, SecondItem DEF CInv
    <3>3. Collision' <=> Collision
      BY <1>1 DEF Collision
    <3>4. \A b \in Buckets : b < bucket => data[b] = <<>> \/ Collision
      BY DEF CInv, BucketsDrained
    <3> QED
      BY <1>3, <3>1, <3>2, <3>3, <3>4
  <2>14. BucketsDrained'
    BY <1>1, <2>13 DEF BucketsDrained
  <2>15. AbortNeedsCollision'
    BY <2>5 DEF AbortNeedsCollision
  <2> QED
    BY <1>4, <2>6, <2>10, <2>11, <2>12, <2>14, <2>15 DEF CInv
<1> QED
  BY <1>5, <1>6

\* dict_free finds an empty table, or one in which two lexemes met.
LEMMA FreeTableKeeps ==
    ASSUME CInv, FreeTable
    PROVE  CInv'
<1>1. /\ phase = "finalizing" /\ bucket = Size /\ DictFree
      /\ held' = held /\ symbols' = symbols /\ line_number' = line_number /\ ast' = ast
      /\ bucket' = bucket /\ ret' = ret
      /\ phase' = IF status' = "aborted" THEN "aborted" ELSE "freeing tree"
      /\ graph' \in {graph, "lost"} /\ code' \in {code, "lost"}
  BY DEF FreeTable, Die, AfterKill, tableVars, outVars
<1>2. IInv /\ TypeOK
  BY DEF CInv
<1>3. /\ Abstraction' = Abstraction
      /\ status' = IF \A k \in Keys : Abstraction[k] = NULL THEN "freed" ELSE "aborted"
  BY <1>1, <1>2, FreeImplementsMap DEF Map!MapFree
<1>4. IInv'
  BY <1>1, <1>2, NextIInv DEF DictNext
<1>5. TypeOK'
  <2>1. DictTypeOK'
    BY <1>4 DEF IInv
  <2>2. {graph', code'} \subseteq {"closed", "open", "pending", "written", "lost"}
    <3>1. {graph, code} \subseteq {"closed", "open", "pending", "written", "lost"}
      BY <1>2 DEF TypeOK
    <3> QED
      BY <1>1, <3>1
  <2>3. phase' \in {"freeing tree"} \cup Ended
    BY <1>1 DEF Ended
  <2>4. /\ symbols' \in [Values -> [key : Keys, line : 1 .. MaxLine] \cup {NULL}]
        /\ held' \subseteq [key : Keys, symbol : Values] /\ line_number' \in 1 .. MaxLine
        /\ ast' \in BOOLEAN /\ bucket' \in 0 .. Size /\ ret' \in 0 .. 2
    BY <1>1, <1>2 DEF TypeOK
  <2> QED
    BY <2>1, <2>2, <2>3, <2>4 DEF TypeOK
<1>6. SymbolsInTable' /\ KeysAreTokens'
  BY <1>1, <1>3 DEF CInv, SymbolsInTable, KeysAreTokens
<1>7. TokensInTable' /\ SuccessIsComplete'
  BY <1>1 DEF TokensInTable, SuccessIsComplete
<1>8. Collision' <=> Collision
  BY <1>1 DEF Collision
<1>9. BucketsDrained'
  <2>1. \A b \in Buckets : data'[b] = data[b] \/ data'[b] = <<>>
    BY <1>1 DEF DictFree
  <2>2. \A b \in Buckets : b < bucket => data[b] = <<>> \/ Collision
    BY DEF CInv, BucketsDrained
  <2>3. \A b \in Buckets : b < bucket' => data'[b] = <<>> \/ Collision'
    BY <1>1, <1>8, <2>1, <2>2
  <2> QED
    BY <1>1, <2>3 DEF BucketsDrained
<1>10. TableFreed'
  <2>1. ASSUME status' = "freed", NEW p \in Values PROVE symbols'[p] = NULL
    <3>1. \A k \in Keys : Abstraction[k] = NULL
      BY <1>3, <2>1
    <3> QED
      BY <1>1, <3>1, SymbolKey
  <2> QED
    BY <1>1, <1>3, <2>1 DEF TableFreed
<1>11. AbortNeedsCollision'
  <2> SUFFICES ASSUME status' = "aborted" PROVE Collision
    BY <1>8 DEF AbortNeedsCollision, Collision
  <2>1. occupation > 0
    BY <1>1 DEF DictFree
  <2>2. PICK b \in Buckets : data[b] # <<>>
    BY <1>2, <2>1, UsedBucket
  <2>3. b < bucket
    BY <1>1, CompilationAssumption
  <2> QED
    BY <2>2, <2>3 DEF CInv, BucketsDrained
<1> QED
  BY <1>4, <1>5, <1>6, <1>7, <1>9, <1>10, <1>11 DEF CInv

----------------------------------------------------------------------------
(* The invariant, and what it gives. *)

LEMMA InitCInv ==
    ASSUME Init
    PROVE  CInv
<1>1. /\ DictInit /\ symbols = [p \in Values |-> NULL] /\ held = {} /\ line_number = 1 /\ ast = FALSE
      /\ phase = "start" /\ bucket = 0 /\ graph = "closed" /\ code = "closed" /\ ret = 0
  BY DEF Init
<1>2. IInv /\ status = "live"
  BY <1>1, InitIInv DEF DictInit
<1>3. \A k \in Keys : Abstraction[k] = NULL
  <2>1. occupation = 0
    BY <1>1 DEF DictInit
  <2> QED
    BY <1>2, <2>1, FreeWhenEmpty
<1>4. TypeOK
  <2>1. 1 \in 1 .. MaxLine /\ 0 \in 0 .. Size
    BY CompilationAssumption
  <2>2. DictTypeOK
    BY <1>2 DEF IInv
  <2>3. /\ symbols \in [Values -> [key : Keys, line : 1 .. MaxLine] \cup {NULL}]
        /\ held \subseteq [key : Keys, symbol : Values]
    BY <1>1
  <2>4. {graph, code} \subseteq {"closed", "open", "pending", "written", "lost"}
    BY <1>1
  <2>5. line_number \in 1 .. MaxLine /\ bucket \in 0 .. Size /\ ret \in 0 .. 2
    BY <1>1, <2>1
  <2>6. ast \in BOOLEAN /\ phase \in {"start"}
    BY <1>1
  <2> QED
    BY <2>2, <2>3, <2>4, <2>5, <2>6 DEF TypeOK
<1>5. SymbolsInTable /\ TokensInTable /\ KeysAreTokens
  BY <1>1, <1>3 DEF SymbolsInTable, TokensInTable, KeysAreTokens
<1>6. BucketsDrained
  <2>1. \A b \in Buckets : ~(b < 0)
    BY CompilationAssumption
  <2> QED
    BY <1>1, <2>1 DEF BucketsDrained
<1>7. TableFreed /\ SuccessIsComplete /\ AbortNeedsCollision
  BY <1>1, <1>2 DEF TableFreed, SuccessIsComplete, AbortNeedsCollision
<1> QED
  BY <1>2, <1>4, <1>5, <1>6, <1>7 DEF CInv

LEMMA NextCInv ==
    ASSUME CInv, [Next]_vars
    PROVE  CInv'
<1>1. CASE UNCHANGED vars
  BY <1>1, SameTable DEF vars, tableVars, outVars, CInv, TypeOK, TokensInTable, BucketsDrained, TableFreed,
     SuccessIsComplete, Collision
<1>2. CASE Next
  BY <1>1, <1>2, MainInitKeeps, NewLineKeeps, InsertSymbolKeeps, AcceptKeeps, TranslateKeeps,
     SyntaxErrorKeeps, SemanticErrorKeeps, DrainBucketKeeps, FreeTableKeeps, FreeTreeKeeps, CloseKeeps
  DEF Next, Finished
<1> QED
  BY <1>1, <1>2

LEMMA Invariant == Spec => []CInv
  BY InitCInv, NextCInv, PTL DEF Spec

\* The driver's types, for every text and table.
THEOREM CompilationTypes == Spec => []TypeOK
<1>1. CInv => TypeOK
  BY DEF CInv
<1> QED
  BY <1>1, Invariant, PTL

\* While the parser runs, two tokens have one symbol_t just when they are one
\* lexeme of one kind, and no token has a symbol that was freed: the pointer
\* comparisons of check_usage_attribute compare lexemes.
THEOREM TokensShareSymbols == Spec => []SymbolIdentity
<1>1. CInv => SymbolIdentity
  <2> SUFFICES ASSUME CInv, phase = "parsing", NEW g \in held, NEW h \in held
               PROVE  /\ symbols[g.symbol] # NULL /\ symbols[g.symbol].key = g.key
                      /\ g.key = h.key <=> g.symbol = h.symbol
    BY DEF SymbolIdentity
  <2>1. \A t \in held : t.key \in Keys /\ t.symbol \in Values /\ Abstraction[t.key] = t.symbol
    BY DEF CInv, TypeOK, TokensInTable
  <2>2. \A t \in held : symbols[t.symbol] # NULL /\ symbols[t.symbol].key = t.key
    BY <2>1, DictAssumption DEF CInv, SymbolsInTable
  <2> QED
    BY <2>1, <2>2
<1> QED
  BY <1>1, Invariant, PTL

\* A status of 0 means that every symbol was freed, the table was emptied and
\* both files were closed, whatever the program and the hash.
THEOREM SuccessMeansComplete == Spec => []SuccessIsComplete
<1>1. CInv => SuccessIsComplete
  BY DEF CInv
<1> QED
  BY <1>1, Invariant, PTL

\* The loop of main_finalize, which takes one entry from each bucket, empties
\* the table of every program whose lexemes have buckets of their own: the
\* abort of dict_free needs two that share one.
THEOREM AbortMeansCollision == Spec => []AbortNeedsCollision
<1>1. CInv => AbortNeedsCollision
  BY DEF CInv
<1> QED
  BY <1>1, Invariant, PTL
=============================================================================
