-------------------------------- MODULE Tree --------------------------------
(***************************************************************************)
(* The syntax tree of src/src/cc_tree.c as the semantic actions of         *)
(* src/parser.y build it: nodes on the heap whose children are a doubly    *)
(* linked list with a head, a tail and a count.  The state is the heap and *)
(* the semantic values on bison's stack.  The automaton is left out: a     *)
(* reduction may happen whenever the values it needs are on top, in every  *)
(* order bison can produce.  Of a production only the shape of its tree is *)
(* kept, and of its checks only the one that reads a freed node.           *)
(***************************************************************************)
EXTENDS Naturals, FiniteSets, SequencesExt

CONSTANTS Nodes,       \* the addresses malloc may return for a comp_tree_t
          MaxStack,    \* bound on the values on the stack, the end of a block apart
          MaxPending,  \* bound on the expressions side by side on top of it
          MaxAbsent,   \* bound on the values without a tree, else branches apart
          MaxInner     \* bound on the nodes with children, calls and pipes apart, before one more

ASSUME TreeAssumption == Nodes \subseteq Nat \ {0} /\ IsFiniteSet(Nodes) /\ MaxStack \in Nat /\ MaxPending \in Nat /\ MaxAbsent \in Nat /\ MaxInner \in Nat

VARIABLES heap,        \* the comp_tree_t at each address
          stack,       \* the semantic values, the newest last
          status       \* how the parser fares

vars == <<heap, stack, status>>

NULL == 0

\* AST_CHAMADA_DE_FUNCAO, the two AST_ENCADEAMENTO_PIPE*, every other type; the
\* identifier that names a piped function is kept apart for the properties.
Types == {"call", "pipe", "node", "piped"}
Comp(type) == [type |-> type, childnodes |-> 0,
               first |-> NULL, last |-> NULL, next |-> NULL, prev |-> NULL]

Free(h) == {n \in Nodes : h[n].type = "free"}
malloc(h) == CHOOSE n \in Free(h) : \A m \in Free(h) : n <= m
Allocated == Nodes \ Free(heap)

----------------------------------------------------------------------------
(* The functions of cc_tree.c, from a heap to a heap. *)

createASTNode(h, n, type) == [h EXCEPT ![n] = Comp(type)]

\* Yes if there is NO child: the callers rely on it, whatever its name says.
tree_has_child_nodes(h, tree) == h[tree].childnodes = 0

\* the tail of the list is not moved
InsertKeepsLast(h, tree, node) ==
  IF tree_has_child_nodes(h, tree)
  THEN [h EXCEPT ![tree].first = node, ![tree].last = node, ![tree].childnodes = @ + 1]
  ELSE [h EXCEPT ![node].prev = h[tree].last, ![h[tree].last].next = node,
                 ![tree].childnodes = @ + 1]

tree_insert_node(h, tree, node) ==
  IF tree_has_child_nodes(h, tree)
  THEN [h EXCEPT ![tree].first = node, ![tree].last = node, ![tree].childnodes = @ + 1]
  ELSE [h EXCEPT ![node].prev = h[tree].last, ![h[tree].last].next = node,
                 ![tree].last = node, ![tree].childnodes = @ + 1]

createASTUnaryNode(h, n, type, a) == tree_insert_node(createASTNode(h, n, type), n, a)
createASTBinaryNode(h, n, type, a, b) == tree_insert_node(createASTUnaryNode(h, n, type, a), n, b)
createASTTernaryNode(h, n, type, a, b, c) ==
  tree_insert_node(createASTBinaryNode(h, n, type, a, b), n, c)
createASTQuaternaryNode(h, n, type, a, b, c, d) ==
  tree_insert_node(createASTTernaryNode(h, n, type, a, b, c), n, d)

\* the node that was second does not learn its new predecessor
SecondKeepsPrev(h, tree, node) ==
  LET first == h[tree].first
  IN  IF h[tree].childnodes = 1
      THEN [h EXCEPT ![node].prev = h[tree].last, ![first].next = node,
                     ![tree].last = node, ![tree].childnodes = @ + 1]
      ELSE [h EXCEPT ![node].prev = first, ![node].next = h[first].next,
                     ![first].next = node, ![tree].childnodes = @ + 1]

\* A piped function has its name as a first child: the branch for a tree
\* without children is never taken.
tree_insert_node_as_second_child(h, tree, node) ==
  LET first == h[tree].first
  IN  IF h[tree].childnodes = 1
      THEN [h EXCEPT ![node].prev = h[tree].last, ![first].next = node,
                     ![tree].last = node, ![tree].childnodes = @ + 1]
      ELSE [h EXCEPT ![node].prev = first, ![node].next = h[first].next,
                     ![h[first].next].prev = node, ![first].next = node,
                     ![tree].childnodes = @ + 1]

tree_make_next(h, tree, next) == [h EXCEPT ![tree].next = next, ![next].prev = tree]

\* The nodes from n on, each found by step from the one before it, cut when
\* they are more than there are.
Path(step, n) ==
  LET from[k \in 0..Cardinality(Nodes)] ==
        [m \in Nodes \cup {NULL} |->
           IF m = NULL THEN << >> ELSE IF k = 0 THEN <<m>> ELSE <<m>> \o from[k - 1][step[m]]]
  IN  from[Cardinality(Nodes)][n]

\* The list that starts at n.
Siblings(h, n) == Path([m \in Nodes |-> h[m].next], n)
Children(h, n) == Siblings(h, h[n].first)

\* the children are not counted again
UpdateNothing(h, tree) == h

update_childs(h, tree) ==
  LET ks == Children(h, tree)
  IN  [h EXCEPT ![tree].childnodes = Len(ks), ![tree].last = Last(ks)]

\* the siblings of the root are freed with it, as are those of every child
tree_free(h, tree) ==
  LET reached[k \in 0..Cardinality(Nodes)] ==
        IF k = 0 THEN {tree}
        ELSE LET S == reached[k - 1]
             IN  (S \cup {h[n].first : n \in S} \cup {h[n].next : n \in S}) \ {NULL}
      freed == reached[Cardinality(Nodes)]
  IN  [n \in Nodes |-> IF n \in freed THEN Comp("free") ELSE h[n]]

\* The first function of a chain of piped ones, below the pipes that follow it.
SecondFunction(h, pipes) ==
  Last(Path([n \in Nodes |-> IF h[n].type = "call" THEN NULL ELSE h[h[h[n].first].first].next],
            pipes))

\* The new pipe and a call change places, so that what points to the call finds
\* the pipe; then the first function goes below the call.
FinishAt(h, func, tree, new) ==
  LET made == createASTUnaryNode(h, new, "pipe", tree)
      swapped ==
        [made EXCEPT
           ![tree] = [made[new] EXCEPT !.prev = made[tree].prev, !.next = made[tree].next,
                                       !.first = new, !.last = new],
           ![new] = [made[tree] EXCEPT !.prev = NULL, !.next = NULL]]
  IN  tree_insert_node_as_second_child(swapped, new, func)

\* the pipe goes on top of the chain, whatever its length
FinishOnTop(h, func, pipes, new) == FinishAt(h, func, pipes, new)

tree_finish_pipe(h, func, pipes, new) == FinishAt(h, func, SecondFunction(h, pipes), new)

----------------------------------------------------------------------------
(* The semantic values.  nt is the nonterminal; names are the identifiers   *)
(* of the functions of a pipe in the order of the text (history).           *)

Value(nt, node, names) == [nt |-> nt, node |-> node, names |-> names]
Expression == {"exp", "call", "pipe"}
Command == {"stmt", "call", "pipe"}
Commands == Command \cup {"list"}
Linked == {"linked", "chain"}
Nonterminals == Expression \cup Command \cup Linked \cup {"name", "piped", "args", "body", "list"}

Init == /\ heap = [n \in Nodes |-> Comp("free")]
        /\ stack = << >>
        /\ status = "parsing"

\* The newest values have the given nonterminals; S(k, i) is the i-th of the
\* last k.
On(nts) ==
  /\ status = "parsing"
  /\ Len(stack) >= Len(nts)
  /\ \A i \in DOMAIN nts : stack[Len(stack) - Len(nts) + i].nt \in nts[i]
S(k, i) == stack[Len(stack) - k + i].node
NamesOf(k, i) == stack[Len(stack) - k + i].names

Replace(k, v) == stack' = Append(SubSeq(stack, 1, Len(stack) - k), v)
Reduce(k, nt, node, h) == heap' = h /\ Replace(k, Value(nt, node, << >>)) /\ UNCHANGED status

\* A production with a tree allocates its node, if one is left.
New == malloc(heap)
CanGrow(n) == Cardinality(Free(heap)) >= n
Inner == {n \in Allocated : heap[n].type = "node" /\ heap[n].childnodes > 0}
CanBranch(n) == CanGrow(n) /\ Cardinality(Inner) < MaxInner

\* The process is over, and its memory with it.
Ends(how) ==
  /\ status' = how
  /\ heap' = [n \in Nodes |-> Comp("free")]
  /\ stack' = << >>

\* As many expressions as are considered wait for their operator or their call.
Pending ==
  /\ Len(stack) >= MaxPending
  /\ \A i \in (Len(stack) - MaxPending + 1)..Len(stack) : stack[i].nt \in Expression

\* One more value without a tree is considered; else branches are not counted.
MayBeAbsent ==
  LET InElse(i) == i > 1 /\ stack[i - 1].nt = "body"
  IN  \/ InElse(Len(stack) + 1)
      \/ Cardinality({i \in DOMAIN stack : stack[i].node = NULL /\ ~InElse(i)}) < MaxAbsent

\* No command starts inside a call, nor after a block or a list, unless it is
\* the else branch or the body of a for, and a condition comes before it.
CommandMayStart ==
  LET n == Len(stack)
  IN  /\ \A i \in 1..n : stack[i].nt \notin {"name", "piped"}
      /\ n > 0 /\ stack[n].nt \in {"body", "list"} => n > 1 /\ stack[n - 1].nt \in Expression

\* Where a terminal may come: after arguments only their call is reduced, and a
\* chain is followed by the name of a function or reduced.
MayFollow(nt) ==
  /\ On(<< >>) /\ (Len(stack) < MaxStack \/ (nt = "body" /\ Len(stack) = MaxStack /\ On(<<Command>>)))
  /\ stack # << >> =>
       LET top == Last(stack).nt
       IN  /\ top # "args"
           /\ top \in Linked => nt = "piped"
           /\ nt = "piped" => top \in Linked \cup {"call"}
  /\ stack = << >> => nt # "piped"
  /\ nt \in {"stmt", "body"} => CommandMayStart
  /\ nt = "exp" => ~Pending

----------------------------------------------------------------------------
(* Terminals and expressions *)

\* an identifier or a literal, the name of a function, a break or continue
Leaf(nt) ==
  /\ MayFollow(nt) /\ CanGrow(1)
  /\ Reduce(0, nt, New, createASTNode(heap, New, IF nt = "piped" THEN "piped" ELSE "node"))

\* a declaration without a value
Declaration == MayFollow("stmt") /\ MayBeAbsent /\ Reduce(0, "stmt", NULL, heap)

\* a unary operator; return, input, output
Unary(nt) ==
  /\ On(<<Expression>>) /\ CanBranch(1)
  /\ Reduce(1, nt, New, createASTUnaryNode(heap, New, "node", S(1, 1)))

\* a binary operator, a vector, an attribute, a list of expressions; an
\* assignment or a shift
Binary(nt) ==
  /\ On(<<Expression, Expression>>) /\ CanBranch(1)
  /\ Reduce(2, nt, New, createASTBinaryNode(heap, New, "node", S(2, 1), S(2, 2)))

\* Only the arguments of a call are open between its name and the top.
LastArgument ==
  /\ On(<<Expression>>)
  /\ \E i \in 1..(Len(stack) - 1) :
        /\ stack[i].nt \in {"name", "piped"}
        /\ \A j \in (i + 1)..Len(stack) : stack[j].nt \in Expression
  /\ Reduce(1, "args", S(1, 1), heap)

MoreArguments ==
  /\ On(<<Expression, {"args"}>>)
  /\ Reduce(2, "args", S(2, 1), tree_make_next(heap, S(2, 1), S(2, 2)))

\* A function of a chain or a call is reduced to a value that names it.
Named(k, nt, h, names) ==
  /\ heap' = h /\ Replace(k, Value(nt, New, names)) /\ UNCHANGED status

CallWithoutArguments ==
  /\ On(<<{"name"}>>) /\ CanGrow(1)
  /\ Named(1, "call", createASTUnaryNode(heap, New, "call", S(1, 1)), <<S(1, 1)>>)

Call ==
  /\ On(<<{"name"}, {"args"}>>) /\ CanGrow(1)
  /\ Named(2, "call",
           update_childs(createASTBinaryNode(heap, New, "call", S(2, 1), S(2, 2)), New),
           <<S(2, 1)>>)

----------------------------------------------------------------------------
(* Pipes *)

PipedFunction ==
  /\ On(<<{"piped"}>>) /\ CanGrow(1)
  /\ Named(1, "linked", createASTUnaryNode(heap, New, "call", S(1, 1)), <<S(1, 1)>>)

\* The children are not counted after the arguments were chained.
PipedFunctionWithArguments ==
  /\ On(<<{"piped"}, {"args"}>>) /\ CanGrow(1)
  /\ Named(2, "linked", createASTBinaryNode(heap, New, "call", S(2, 1), S(2, 2)), <<S(2, 1)>>)

\* one more function after a chain
Chain ==
  /\ On(<<Linked, {"linked"}>>) /\ CanGrow(1)
  /\ LET extended == tree_insert_node_as_second_child(heap, S(2, 2), S(2, 1))
     IN  Named(2, "chain", createASTUnaryNode(extended, New, "pipe", S(2, 2)),
               NamesOf(2, 1) \o NamesOf(2, 2))

\* the call that starts the pipe
Pipe ==
  /\ On(<<{"call"}, Linked>>) /\ CanGrow(1)
  /\ heap' = tree_finish_pipe(heap, S(2, 1), S(2, 2), New)
  /\ Replace(2, Value("pipe", S(2, 2), NamesOf(2, 1) \o NamesOf(2, 2)))
  /\ UNCHANGED status

----------------------------------------------------------------------------
(* Commands *)

EmptyBlock == MayFollow("body") /\ MayBeAbsent /\ Reduce(0, "body", NULL, heap)

\* a command and the rest of its block: the rest is the command's last child
Sequence ==
  /\ On(<<Command, {"body"}>>)
  /\ LET command == S(2, 1)
         rest == S(2, 2)
     IN  CASE command = NULL -> Reduce(2, "body", rest, heap)
           [] rest = NULL    -> Reduce(2, "body", command, heap)
           [] OTHER          -> Reduce(2, "body", command, tree_insert_node(heap, command, rest))

\* a block as a command
Block ==
  /\ On(<<{"body"}>>)
  /\ \/ S(1, 1) # NULL /\ CanBranch(1)
        /\ Reduce(1, "stmt", New, createASTUnaryNode(heap, New, "node", S(1, 1)))
     \/ S(1, 1) = NULL /\ Reduce(1, "stmt", NULL, heap)

\* if and switch.  Without a body the condition is freed and then its type is
\* read: it may pass for a wrong type, for the right one, or not be readable.
If ==
  /\ On(<<Expression, {"body"}>>)
  /\ \/ S(2, 2) # NULL /\ CanBranch(1)
        /\ Reduce(2, "stmt", New, createASTBinaryNode(heap, New, "node", S(2, 1), S(2, 2)))
     \/ S(2, 2) = NULL
        /\ \/ Reduce(2, "stmt", NULL, tree_free(heap, S(2, 1)))
           \/ Ends("semantic error") \/ Ends("crash")

\* Without any branch the condition is neither used nor freed.
IfElse ==
  /\ On(<<Expression, {"body"}, {"body"}>>)
  /\ LET cond == S(3, 1)
         then == S(3, 2)
         else == S(3, 3)
     IN  \/ then # NULL /\ else # NULL /\ CanBranch(1)
            /\ Reduce(3, "stmt", New, createASTTernaryNode(heap, New, "node", cond, then, else))
         \/ then # NULL /\ else = NULL /\ CanBranch(1)
            /\ Reduce(3, "stmt", New, createASTBinaryNode(heap, New, "node", cond, then))
         \/ then = NULL /\ else # NULL /\ CanBranch(2)
            /\ LET negated == createASTUnaryNode(heap, New, "node", cond)
                   if == malloc(negated)
               IN  Reduce(3, "stmt", if, createASTBinaryNode(negated, if, "node", New, else))
         \/ then = NULL /\ else = NULL /\ Reduce(3, "stmt", NULL, heap)

\* without a body the condition is freed and remains the value
WhileKeepsFreed ==
  /\ On(<<Expression, {"body"}>>)
  /\ \/ S(2, 2) # NULL /\ CanBranch(1)
        /\ Reduce(2, "stmt", New, createASTBinaryNode(heap, New, "node", S(2, 2), S(2, 1)))
     \/ S(2, 2) = NULL /\ Reduce(2, "stmt", S(2, 1), tree_free(heap, S(2, 1)))

\* The body is the first child of a while, as it is of a do-while.
While ==
  /\ On(<<Expression, {"body"}>>)
  /\ \/ S(2, 2) # NULL /\ CanBranch(1)
        /\ Reduce(2, "stmt", New, createASTBinaryNode(heap, New, "node", S(2, 2), S(2, 1)))
     \/ S(2, 2) = NULL /\ Reduce(2, "stmt", NULL, tree_free(heap, S(2, 1)))

DoWhile ==
  /\ On(<<{"body"}, Expression>>)
  /\ \/ S(2, 1) # NULL /\ CanBranch(1)
        /\ Reduce(2, "stmt", New, createASTBinaryNode(heap, New, "node", S(2, 1), S(2, 2)))
     \/ S(2, 1) = NULL /\ Reduce(2, "stmt", NULL, tree_free(heap, S(2, 2)))

Foreach ==
  /\ On(<<Expression, Expression, {"body"}>>)
  /\ \/ S(3, 3) # NULL /\ CanBranch(1)
        /\ Reduce(3, "stmt", New, createASTTernaryNode(heap, New, "node", S(3, 1), S(3, 2), S(3, 3)))
     \/ S(3, 3) = NULL /\ Reduce(3, "stmt", NULL, tree_free(tree_free(heap, S(3, 1)), S(3, 2)))

MoreOfList ==
  /\ On(<<Command, Commands>>)
  /\ IF NULL \in {S(2, 1), S(2, 2)}
     THEN Ends("abort")
     ELSE Reduce(2, "list", S(2, 1), tree_insert_node(heap, S(2, 1), S(2, 2)))

\* What is tested is the second list, not the body: an absent one is handed to
\* tree_free, which reads it, and an absent body or first list to
\* tree_insert_node, which aborts.
For ==
  /\ On(<<Commands, Expression, Commands, {"body"}>>)
  /\ \/ S(4, 3) = NULL /\ Ends("crash")
     \/ S(4, 3) # NULL /\ NULL \in {S(4, 1), S(4, 4)} /\ Ends("abort")
     \/ NULL \notin {S(4, i) : i \in 1..4} /\ CanBranch(1)
        /\ Reduce(4, "stmt", New,
                  createASTQuaternaryNode(heap, New, "node", S(4, 1), S(4, 2), S(4, 3), S(4, 4)))

Next ==
  \/ \E nt \in {"exp", "name", "piped", "stmt"} : Leaf(nt)
  \/ \E nt \in {"exp", "stmt"} : Unary(nt) \/ Binary(nt)
  \/ Declaration \/ LastArgument \/ MoreArguments \/ CallWithoutArguments \/ Call
  \/ PipedFunction \/ PipedFunctionWithArguments \/ Chain \/ Pipe
  \/ EmptyBlock \/ Sequence \/ Block \/ If \/ IfElse \/ While \/ DoWhile \/ Foreach
  \/ MoreOfList \/ For

Spec == Init /\ [][Next]_vars

----------------------------------------------------------------------------
(* Properties *)

\* The type of node a value of some nonterminals is.
TypeOfTree ==
  [name |-> "node", piped |-> "piped", call |-> "call", linked |-> "call", chain |-> "pipe",
   pipe |-> "pipe"]

\* Every address holds a node or none, first and next lead to nodes in use, and so
\* does last, the calls of a chain apart; every value is a tree of its kind or
\* none, and the parser is running or over.
TypeOK ==
  /\ heap \in [Nodes -> [type : Types \cup {"free"}, childnodes : 0..Cardinality(Nodes),
                         first : Nodes \cup {NULL}, last : Nodes \cup {NULL},
                         next : Nodes \cup {NULL}, prev : Nodes \cup {NULL}]]
  /\ \A n \in Nodes : /\ {heap[n].first, heap[n].next} \subseteq Allocated \cup {NULL}
                      /\ (heap[n].first # NULL /\ heap[heap[n].first].type # "piped") =>
                           heap[n].last \in Allocated
  /\ stack \in Seq([nt : Nonterminals, node : Allocated \cup {NULL}, names : Seq(Nodes)])
  /\ \A i \in DOMAIN stack :
        stack[i].nt \in DOMAIN TypeOfTree =>
          stack[i].node # NULL /\ heap[stack[i].node].type = TypeOfTree[stack[i].nt]
  /\ Len(stack) <= MaxStack + 1
  /\ status \in {"parsing", "semantic error", "crash", "abort"}

\* The children of every node in use, and the trees of every value on a stack.
Kids(h) == [n \in Nodes \ Free(h) |-> Children(h, n)]
Trees(h, s) == [i \in DOMAIN s |-> Siblings(h, s[i].node)]

\* Whatever order the trees are built in, reading the lists from first along
\* next gives the ordered forest the grammar means: no insertion, chaining or
\* swap loses, repeats or moves a subtree, and freeing takes exactly the trees
\* a production drops.
F == INSTANCE Forest WITH kids <- Kids(heap), values <- Trees(heap, stack)
ImplementsForest == F!ForestSpec

\* The lists can be read backwards, as check_usage_function does with the
\* arguments of a call: prev undoes next, and stops at the first child.
ListsReadBackwards ==
  \A list \in {Children(heap, n) : n \in Allocated}
              \cup {Siblings(heap, stack[i].node) : i \in DOMAIN stack} :
     \A i \in DOMAIN list : heap[list[i]].prev = IF i = 1 THEN NULL ELSE list[i - 1]

Counted(n) ==
  LET ks == Children(heap, n)
  IN  /\ heap[n].childnodes = Len(ks)
      /\ heap[n].last = IF ks = << >> THEN NULL ELSE Last(ks)

\* childnodes is the number of children and last the last of them, for every
\* node but the calls of a pipe: code generation and the insertion of the next
\* command rely on both.
PlainNodesCounted ==
  \A n \in Allocated :
     \/ Counted(n)
     \/ heap[n].type = "call" /\ heap[heap[n].first].type = "piped"

\* The calls check_pipe visits from the outermost function of a pipe.
CheckedCalls(n) ==
  Path([m \in Nodes |-> LET below == heap[heap[heap[m].first].next].first
                        IN  IF heap[below].type = "call" THEN below ELSE NULL],
       n)

\* check_pipe checks every function of a pipe but the first, from the last one
\* in the text to the second, and each takes what precedes it as its first
\* argument; the first function is the argument of the second.
PipesInTextOrder ==
  \A i \in DOMAIN stack :
     stack[i].nt = "pipe" =>
       LET calls == CheckedCalls(heap[stack[i].node].first)
           Name(c) == heap[c].first
           Argument(c) == heap[Name(c)].next
       IN  /\ [j \in DOMAIN calls |-> Name(calls[j])] = Reverse(Tail(stack[i].names))
           /\ Name(Argument(Last(calls))) = stack[i].names[1]
=============================================================================
