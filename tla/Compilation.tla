----------------------------- MODULE Compilation -----------------------------
(***************************************************************************)
(* One run of the compiler around its symbol table: main, main_init,       *)
(* yyparse with the scanner's insert_symbol calls, and main_finalize, over *)
(* the dictionary of Dict.  A key is the text of a lexeme with the digit   *)
(* of its kind; a value is the address of a heap-allocated symbol_t.       *)
(* What the parser does with the symbols is in Semantic.                   *)
(***************************************************************************)
EXTENDS Dict

CONSTANTS Size,       \* dict->size
          MaxLine     \* bound on line_number

ASSUME CompilationAssumption ==
    /\ Size \in Nat \ {0}
    /\ Buckets = 0 .. Size - 1
    /\ MaxLine \in Nat \ {0}
    /\ NULL \notin [key : Keys, line : Nat]   \* no symbol_t is at the null address

VARIABLES symbols,      \* the symbol_t at each address, or NULL when it is not allocated
          held,         \* the pointers insert_symbol returned: the lexical values of tokens
          line_number,
          ast,          \* the global ast is no longer NULL
          phase,        \* where main is
          bucket,       \* i of the loop of main_finalize
          graph, code,  \* the output files: "closed", "open", "pending", "written" or "lost"
          ret           \* r of main, then the status of the process

tableVars == <<symbols, held, line_number>>
outVars == <<graph, code>>
vars == <<dictVars, tableVars, ast, phase, bucket, outVars, ret>>

Ended == {"exited", "aborted", "crashed"}

Init ==
    /\ DictInit
    /\ symbols = [p \in Values |-> NULL]
    /\ held = {}
    /\ line_number = 1
    /\ ast = FALSE
    /\ phase = "start"
    /\ bucket = 0
    /\ graph = "closed" /\ code = "closed"
    /\ ret = 0

\* The status a process leaves: exit() and a return from main flush the open
\* streams, abort() and a signal lose what they still buffer.
AfterExit(file) == IF file = "pending" THEN "written" ELSE file
AfterKill(file) == IF file = "pending" THEN "lost" ELSE file

Die(how) ==
    /\ phase' = how
    /\ graph' = AfterKill(graph)
    /\ code' = AfterKill(code)

\* gv_init opens the two files of the graph, which `graph' stands for, and starts
\* them.  It aborts when it cannot create the first one; the second is written
\* to without a test.
GvInitFails ==
    /\ \/ phase' = "aborted" /\ graph' = "closed"
       \/ phase' = "crashed" /\ graph' = "lost"
    /\ code' = "closed"

\* code_init opens the file of the code, and aborts when it cannot create it.
CodeInitFails == phase' = "aborted" /\ graph' = "lost" /\ code' = "closed"

\* main_init.
MainInit ==
    /\ phase = "start"
    /\ \/ phase' = "parsing" /\ graph' = "pending" /\ code' = "open"
       \/ GvInitFails
       \/ CodeInitFails
    /\ UNCHANGED <<dictVars, tableVars, ast, bucket, ret>>

NewLine ==
    /\ phase = "parsing" /\ line_number < MaxLine
    /\ line_number' = line_number + 1
    /\ UNCHANGED <<dictVars, symbols, held, ast, phase, bucket, outVars, ret>>

\* A scanner that frees the symbol the table already had, not the new one.
InsertSymbolFreesOld(k) ==
    /\ phase = "parsing"
    /\ \E p \in {q \in Values : symbols[q] = NULL} :
          /\ DictPut(k, p)
          /\ symbols' = [symbols EXCEPT ![p] = [key |-> k, line |-> line_number],
                                        ![result'] = IF result' = p THEN [key |-> k, line |-> line_number]
                                                     ELSE NULL]
    /\ held' = held \cup {[key |-> k, symbol |-> result']}
    /\ UNCHANGED <<line_number, ast, phase, bucket, outVars, ret>>

\* A scanner that counts lines from zero in the symbols.
InsertSymbolZeroLine(k) ==
    /\ phase = "parsing"
    /\ \E p \in {q \in Values : symbols[q] = NULL} :
          /\ DictPut(k, p)
          /\ symbols' = [symbols EXCEPT ![result'] = [key |-> k, line |-> line_number - 1]]
    /\ held' = held \cup {[key |-> k, symbol |-> result']}
    /\ UNCHANGED <<line_number, ast, phase, bucket, outVars, ret>>

\* insert_symbol: a fresh symbol is offered to the table; when the table
\* knows the key its symbol is moved to this line and the fresh one freed.
InsertSymbol(k) ==
    /\ phase = "parsing"
    /\ \E p \in {q \in Values : symbols[q] = NULL} :
          /\ DictPut(k, p)
          /\ symbols' = [symbols EXCEPT ![result'] = [key |-> k, line |-> line_number]]
    /\ held' = held \cup {[key |-> k, symbol |-> result']}
    /\ UNCHANGED <<line_number, ast, phase, bucket, outVars, ret>>

\* programa: the tree is kept.  Only the empty program has no lexeme; it has
\* neither drawing nor code.
Accept ==
    /\ phase = "parsing"
    /\ ast' = TRUE
    /\ phase' = IF held = {} THEN "finalizing" ELSE "translating"
    /\ UNCHANGED <<dictVars, tableVars, bucket, outVars, ret>>

\* build_gv and build_iloc_code: the instructions are printed, and then the
\* two dictionaries of function names are drained as main_finalize drains the
\* symbols, so that two colliding names abort here already, and so do two labels
\* in the dictionary iloc_dup makes for a foreach.  A body without code is a null
\* pointer of the generator.
Translate ==
    /\ phase = "translating"
    /\ \/ phase' = "finalizing" /\ code' = "pending" /\ UNCHANGED graph
       \/ phase' = "aborted" /\ (\E g, h \in held : g.key # h.key) /\ graph' = "lost" /\ code' = "lost"
       \/ phase' = "crashed" /\ graph' = "lost" /\ code' = "lost"
    /\ UNCHANGED <<dictVars, tableVars, ast, bucket, ret>>

\* yyerror, and yyparse returns 1 without reducing programa.
SyntaxError ==
    /\ phase = "parsing"
    /\ ret' = 1
    /\ phase' = "finalizing"
    /\ UNCHANGED <<dictVars, tableVars, ast, bucket, outVars>>

\* An IKS_ERROR of cc_semantic.c: exit() from inside a semantic action.  Some
\* checks read a null pointer or abort instead.
SemanticError ==
    /\ phase = "parsing" /\ held # {}
    /\ \/ /\ ret' \in {1, 2}
          /\ phase' = "exited"
          /\ graph' = AfterExit(graph) /\ code' = AfterExit(code)
       \/ Die("crashed") /\ UNCHANGED ret
       \/ Die("aborted") /\ UNCHANGED ret
    /\ UNCHANGED <<dictVars, tableVars, ast, bucket>>

\* A finalization that walks the buckets but removes nothing from the table.
DrainBucketGet ==
    /\ phase = "finalizing" /\ bucket < Size
    /\ IF data[bucket] # <<>>
       THEN /\ DictGet(data[bucket][1].key)
            /\ symbols' = [symbols EXCEPT ![result'] = NULL]
       ELSE UNCHANGED <<dictVars, symbols>>
    /\ bucket' = bucket + 1
    /\ UNCHANGED <<held, line_number, ast, phase, outVars, ret>>

\* A finalization whose loop keeps its index when the bucket is empty.
DrainBucketStuck ==
    /\ phase = "finalizing" /\ bucket < Size
    /\ data[bucket] # <<>>
    /\ DictRemove(data[bucket][1].key)
    /\ symbols' = [symbols EXCEPT ![result'] = NULL]
    /\ bucket' = bucket + 1
    /\ UNCHANGED <<held, line_number, ast, phase, outVars, ret>>

\* The body of the loop of main_finalize: the first entry of the bucket is
\* removed and its symbol freed.
DrainBucket ==
    /\ phase = "finalizing" /\ bucket < Size
    /\ IF data[bucket] # <<>>
       THEN /\ DictRemove(data[bucket][1].key)
            /\ symbols' = [symbols EXCEPT ![result'] = NULL]
       ELSE UNCHANGED <<dictVars, symbols>>
    /\ bucket' = bucket + 1
    /\ UNCHANGED <<held, line_number, ast, phase, outVars, ret>>

FreeTable ==
    /\ phase = "finalizing" /\ bucket = Size
    /\ DictFree
    /\ IF status' = "aborted"
       THEN Die("aborted")
       ELSE phase' = "freeing tree" /\ UNCHANGED outVars
    /\ UNCHANGED <<tableVars, ast, bucket, ret>>

\* tree_free reads ast->first: the null pointer of a rejected program.
FreeTree ==
    /\ phase = "freeing tree"
    /\ IF ast THEN phase' = "closing" /\ UNCHANGED outVars
              ELSE Die("crashed")
    /\ UNCHANGED <<dictVars, tableVars, ast, bucket, ret>>

\* A driver that returns without closing its files.
CloseOnlyGraph ==
    /\ phase = "closing"
    /\ phase' = "exited"
    /\ graph' = "written" /\ UNCHANGED code
    /\ UNCHANGED <<dictVars, tableVars, ast, bucket, ret>>

\* gv_close ends the files of the graph and closes them.
GvClose == graph' = "written"

\* gv_close and code_close, and main returns r.
Close ==
    /\ phase = "closing"
    /\ phase' = "exited"
    /\ GvClose /\ code' = "written"
    /\ UNCHANGED <<dictVars, tableVars, ast, bucket, ret>>

Finished == phase \in Ended /\ UNCHANGED vars

Next ==
    \/ MainInit
    \/ NewLine
    \/ \E k \in Keys : InsertSymbol(k)
    \/ Accept
    \/ Translate
    \/ SyntaxError
    \/ SemanticError
    \/ DrainBucket
    \/ FreeTable
    \/ FreeTree
    \/ Close
    \/ Finished

\* The source text is finite, and nothing but the process itself acts.
Fairness ==
    /\ WF_vars(MainInit) /\ WF_vars(Accept \/ SyntaxError \/ SemanticError)
    /\ WF_vars(Translate) /\ WF_vars(DrainBucket) /\ WF_vars(FreeTable) /\ WF_vars(FreeTree) /\ WF_vars(Close)

Spec == Init /\ [][Next]_vars /\ Fairness

----------------------------------------------------------------------------
\* Types of the driver's state.
TypeOK ==
    /\ DictTypeOK
    /\ symbols \in [Values -> [key : Keys, line : 1 .. MaxLine] \cup {NULL}]
    /\ held \subseteq [key : Keys, symbol : Values]
    /\ line_number \in 1 .. MaxLine
    /\ ast \in BOOLEAN
    /\ phase \in {"start", "parsing", "translating", "finalizing",
                 "freeing tree", "closing"} \cup Ended
    /\ bucket \in 0 .. Size
    /\ {graph, code} \subseteq {"closed", "open", "pending", "written", "lost"}
    /\ ret \in 0 .. 2

\* While the parser runs, the lexical values it holds are live symbols and
\* equal pointers mean equal lexemes of one kind: check_usage_attribute
\* compares symbols by address, and every declaration is stored in the symbol.
SymbolIdentity ==
    phase = "parsing" =>
        \A g, h \in held :
            /\ symbols[g.symbol] # NULL /\ symbols[g.symbol].key = g.key
            /\ g.key = h.key <=> g.symbol = h.symbol

\* Status 0 means that the whole protocol of main_finalize was followed: the
\* table was emptied and freed, no symbol leaked, and both files were closed
\* with all that was written to them.
SuccessIsComplete ==
    (phase = "exited" /\ ret = 0) =>
        /\ status = "freed" /\ \A p \in Values : symbols[p] = NULL
        /\ graph = "written" /\ code = "written"

\* dict_free aborts a run of main_finalize only when generate_hash put two
\* lexemes of the source in one bucket.
AbortNeedsCollision ==
    status = "aborted" =>
        \E g, h \in held : g.key # h.key /\ Hash[g.key] = Hash[h.key]

\* Every run of the compiler ends.
EveryRunEnds == <>(phase \in Ended)

\* cc_dict.h asks the caller of dict_free to remove every entry first:
\* main_finalize does, so that a run never aborts while it cleans up.
FinalizeRemovesEverything == status # "aborted"

\* The status of a rejected program is what yyparse returned.
RejectionIsReported ==
    (phase \in Ended /\ ret = 1 /\ ~ast) => phase = "exited"
=============================================================================
