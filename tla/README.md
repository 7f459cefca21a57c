# TLA+ models of the Epsilon compiler

The repository is a compiler written in C with flex and bison: it reads a small
C-like language (functions, classes, vectors, pipes) and writes ILOC, the
instruction set of the simulator `tests/scripts/ilocsim`. These modules model
what the compiler does to its symbol table, what its semantic analysis decides,
what tree it builds, what code it generates from the tree, and how that code
behaves when it runs, at calls and between them. Paths below are relative to the
root of the repository.

## The system and its components

| component | source | state it keeps | operations |
|---|---|---|---|
| symbol table | `src/cc_dict.c`, `include/cc_dict.h` | buckets of overflow chains, `occupation` | `dict_new`, `dict_put`, `dict_get`, `dict_remove`, `dict_free` |
| driver | `src/main.c`, `src/cc_misc.c` | the table of symbols, `line_number`, `ast`, the status `r` | `main`, `main_init`, `insert_symbol`, `main_finalize` |
| scanner | `scanner.l` | `line_number`, `yylval` | one action per token, `insert_symbol` for identifiers and literals |
| parser | `parser.y` | the LALR stack | semantic actions that declare, check and build the tree |
| semantic analysis | `src/cc_semantic.c` | scope stack, per identifier `type[]`, `address[]`, `decl_info[]`, the counters of addresses, `function_info`, `class_info` | `declare*`, `check_*`, `start_scope`, `end_scope`, `end_function` |
| tree | `src/cc_tree.c` | nodes with sibling lists | `tree_insert_node`, `tree_make_next`, `update_childs`, `tree_finish_pipe`, `tree_free` |
| code generation | `src/cc_code.c` | instruction lists, registers, labels, patches | `code_generator`, `call_sequence`, `return_sequence`, `build_iloc_code` |
| the generated program | run by `tests/scripts/ilocsim` | instructions, labels, registers, memory | loading, one step per instruction |
| graph output | `src/cc_gv.c` | two files | `gv_init`, `gv_declare`, `gv_connect`, `gv_close` |

Everything runs in one process and one thread. The scanner is called by the
parser for each token and registers the lexeme in the symbol table; the parser's
actions call the semantic analysis, which writes scopes and addresses into the
nodes of the tree; only when the whole program was reduced does the code
generator walk the tree and read those annotations. An error of the semantic
analysis calls `exit` from inside an action; a syntax error makes `yyparse`
return 1, and `main_finalize` cleans up after it as after a success.

What is hard here is therefore not concurrency but order: state written by one
phase and read by a later one, counters that must be restarted at the right
moment, clean-up that must undo what was registered, and a stack layout three
functions of the code generator must agree on. The list `hazards` of
`PROJECT.json` gives each with its line.

What makes each component correct:

- *symbol table*: it is a map; `occupation` is zero exactly when it is empty.
- *driver*: one live symbol per lexeme while parsing; every run ends; a run that
  reports success freed everything and flushed its output.
- *semantic analysis*: slots of one scope are disjoint and inside the frame;
  attributes are inside their instance; declarations do not change; annotations
  agree with the declarations when the generator reads them.
- *tree*: the sibling lists hold the subtrees in the order of the grammar, each
  once; `first`, `last`, `prev` and `childnodes` agree with them.
- *code generation*: the instructions compute what the tree says; every patch is
  resolved once; what the checks accept compiles and loads.
- *generated program*: locals, live registers, links and arguments survive calls.

## Modules

| module | models | abstract or detailed |
|---|---|---|
| `DictMap` | the promises of `cc_dict.h` | abstract |
| `Dict` | `cc_dict.c` | implements `DictMap` |
| `Compilation` | a run of the compiler around the table | extends `Dict` and calls its actions |
| `Semantic` | `cc_semantic.c` with the parser's actions | detailed |
| `Frames` | the calling convention of the generated code | detailed |
| `Forest` | the ordered forest the grammar means | abstract |
| `Tree` | `cc_tree.c` under the actions of `parser.y` | implements `Forest` |
| `Types` | nodes, types and what the checks of operators and assignments allow | functions |
| `Checks` | the types of expressions and the first error of a program | functions, recursive |
| `Meaning` | the execution of a source program, whatever it is compiled to | reference definition |
| `Source` | what running the compiled program promises | abstract |
| `Iloc` | the simulator `tests/scripts/ilocsim` | detailed, a machine without a program |
| `CodeGen` | `code_generator` and its helpers, then the load and the run of the text | composes `Types` and `Iloc` |
| `Translation` | what that run has to do with the source program | composes `CodeGen`, `Checks` and `Meaning`, implements `Source` |
| `Dict_proofs`, `Compilation_proofs`, `Semantic_proofs`, `Frames_proofs`, `Tree_proofs`, `Forest_proofs`, `CodeGen_proofs` | theorems | |
| `Heap_proofs` | lemmas on the functions of `cc_tree.c`, for any heap | |
| `MCDict`, `MCCompilation`, `MCSemantic`, `MCFrames`, `MCTree`, `MCCodeGen` | instances for TLC | |

Every module also holds a few operators whose comment says what they do wrong
(`DictPutBlind`, `EndFunctionNoReset`, ...): a plausible bug in the definition
that follows them, used to see that a property notices it. No specification
uses them.

### Dict

`data[b]` is the chain of bucket `b`, a sequence of items. `DictPut`, `DictGet`,
`DictRemove` and `DictFree` are the four operations with their early returns;
`Find` is `dict_item_get`, `Unlink` is `dict_item_remove`. The hash function is
the constant `Hash`, so that collisions can be arranged: nothing the table does
depends on which function it is. `result` is what the last call answered.
`Abstraction` maps the chains to the function from keys to values of `DictMap`.

`MCDict` has five keys in three buckets of three, two and no keys, so that a
first, a middle and a last item of a chain are removed and a bucket can be empty.

### Compilation

`phase` is where `main` is. A key is a lexeme with the digit of its kind, as
`create_id` and its siblings make it; a value is the address of a `symbol_t`, so
that freed and reused symbols can be told apart. `InsertSymbol` takes a free
address, offers it to the table and frees it when the key is known. `bucket` is
the loop counter of `main_finalize`. `graph` and `code` are the two output
files: what is written stays `"pending"` in a stdio buffer until the file is
closed or the process exits, and is lost by `abort` and by a signal. `graph`
stands for both files of `gv_init` (`GvInitFails`): the first is tested, and a
second one that cannot be created is written to all the same, which kills the
process.

The outcome of the parse is a nondeterministic choice between acceptance, a
syntax error and a semantic error, since `Semantic` models which it is; a check
may also crash or abort (`SemanticError`), and the generator may crash, or abort
when names of functions or labels collide in one of its dictionaries (`Translate`).

Fairness: weak fairness on each step of the driver, and on the end of the parse,
because the source text is finite and nothing but the process acts. There is
none on single tokens.

### Semantic

One scope for the globals and one for each function; blocks open none. The
arrays `type[]`, `address[]` and `decl_info[]` of an identifier are functions on
scope numbers, `Resolve` is the walk from the top of the scope stack that every
check makes. `Declare`, `GlobalVector`, `DeclareInstance` and
`GlobalInstanceVector` are the four `declare` functions with their differences:
strings get address -1 and no bytes, a vector of instances does not check its
class. `mode` is the production the parser is in, so that fields come only
inside a class, parameters only in a signature and uses only in a body. A failed
check sets `status` to the name of its error; `"crash"` stands for the null
pointers and the `abort` that some checks run into. `nodes` and `calls` collect
the uses that passed their checks with the annotations the generator will read;
`extent` and the `scope` of a function are history for the properties. An
initialization with a literal is the step `LocalVariable`: it has no check of its
own.

### Frames

Addresses count words. A word and a register hold a `Datum`, the name of what
was stored last, so that a value that was overwritten is told from an intact
one. A frame of `frames` is a call in progress; `pending` are the calls its
function is building, one inside an argument of the other. `BeginCall` saves the
registers and the links, `StoreParam` stores one argument, `Jump` is
`call_epilogue`, `Return` is `return_sequence`, `Restore` reloads the registers
and the result. The registers a call saves are those its function has in
`reg_list` when `call_sequence` runs, those of the arguments included, although
the store comes before the code of the arguments: that is the `n` of `BeginCall`.
An argument is one register or a call; further registers of a longer argument,
and those of the name of the function, which the generator creates and drops,
are dead when the call runs and only move the numbers.

`held` are the registers whose value a later instruction of the same expression
reads; `assigned` the locals the function wrote.

### Tree

`heap` holds a `comp_tree_t` for each address, `stack` the semantic values on
bison's stack, each a nonterminal and a node or NULL. The functions of
`cc_tree.c` are operators from a heap to a heap with the names of the source
(`tree_has_child_nodes` answers yes when there are *no* children, as in the
code), and each production of `parser.y` that builds, links or frees nodes is an
action. The automaton is left out: a reduction applies when its values are on
top, and `MayFollow` says where a terminal may come, so that the stacks are
those of some program or of a part of one. Of the types of nodes only calls and
pipes are told apart, since only they decide how a tree is linked.

`Forest` is the same forest as sequences of children. `Tree` implements it by
reading its lists from `first` along `next`. This is what an insertion at a stale
`last`, a swap that leaves a pointer behind or a subtree freed too early breaks:
without `update_childs` after the arguments of a call, the command that follows
the call is inserted after the *first* argument and cuts the others off.

Errors of the parser end the model: an `if` with an empty body reads the freed
condition, a `for` hands a missing list to `tree_free` or a missing body to
`tree_insert_node`, a list of a `for` may start with a plain declaration, which
has no tree. An `if` with two empty branches leaks its condition. None of these
contradicts a document, so they are outcomes of the actions and hazards, and no
property speaks of them.

### Types and Checks

A program is a tree of nodes with a kind, a name, the value of a literal and its
children; the next command is the last child of a command, as the parser links
it; `Own` is the number of the others. `ValueType` is the `value_type` the actions
of `parser.y` put into a node. `OperandsAllowed`, `ConditionAllowed` and
`AssignmentAllowed` are `set_binary_node_value_type`, `check_condition` and
`check_var_assignment`;
`Verdict` is the first error in the order in which bison reduces, where the
check of a command may come between two of its children (`Reductions`). A wrong
assignment to a plain variable is the crash `SemanticAssign` finds; one to an
element or an attribute, and one in the initialization of a declaration (named
`"initial"`), is accepted since `wrong_type_assignment` has lost its body. What
follows a tree of any depth is recursive, and in `Checks`, so that the prover can
read `Types`.

### Meaning and Source

`Execution` runs a source program on a store: the assignments it makes in order,
the tests its conditions need when they are evaluated lazily, and whether it
ends. It is written from what the commands mean and not from the generator, and
`Source` says what that has to do with a run: assignment by assignment, then the
end. A compiled program is expected to follow its meaning when it is `Supported`:

- an expression is either *computed* into a register or *branches*; a condition
  and a boolean assignment branch, everything else is computed, and the operands
  of `&&`, `||` and `!` may be either;
- no command puts a label on an instruction that has one already;
- the values of a `foreach` are like its variable;
- the return is the last command, and there is no `break`, `continue`, `switch`,
  `input` or `output`, for which the generator makes no code of their own.

Outside the class the model still follows the code, and `OutcomeForeseen` says
exactly which accepted programs kill the generator or are refused by the
simulator. What the class leaves out is a list of the generator's gaps:
`while (b)` without an operator has no branch; `b = c` stores 1 whatever `c` is,
and `b = !true` stores a register that is missing; a `do-while` at the start of
the body of another loop, or after one, takes over its label; `if (e) break;`
reads the first instruction of an empty body; a comparison as an index leaves a
`cbr` without targets.

### Iloc

`code` is the loaded program, `ip`, `regs` and `mem` the machine. `Loads` asks
for every operand a pattern has and for the definition of every label; a label
becomes the index of the last instruction that has it, as the dictionary of
`program_load` makes it. A step that stores or jumps sets `rpc` and the
counters as well. `Ignored` is strict mode, the option `-x` of the tests, which
ignores updates of `rbss` and the first of `rarp` and `rsp`. `writes` and
`tests` are history: the stores made and the number of `cbr`, which is what
`ilocsim -m` and `-i` show to the tests.

### CodeGen

`iloc_list` is the variable `iloc`; a code is a sequence of indices into it, first
to last, where the C code has the last instruction and `prev` links. A register is
the index of the instruction it was created for; the generator never reuses one.
`calls` are the calls of `code_generator` in progress, each with its node and `cc`,
what it left in the children done so far: their codes, the lists of slots
(`rem_true`, `rem_false`) still to be patched, and of a list of expressions the
codes of each. `Descend` is the call for the next child in `get_children_iloc_list`;
when all children are done, each `case` of `code_generator` is an action: what it
appends, which slots it patches with a fresh label (`Branch`, `Aim`) and what it
leaves to its caller (`Answer`, `Leave`). `cc[i]` is `cc(i + 1)`. `MissingIloc` is
where the generator would read an instruction that is not there. `Foreach`
duplicates its variable and its body with fresh labels (`Dup`, which is `iloc_dup`)
for every expression but the last (`Rounds`); `Main` writes the halt over the return.
`Build`, `Load`, `Run` and `Stop` are the end of `build_iloc_code`, `program_load`
and the loop of the simulator.

`Trees` are the nodes of the programs, and `Checked` is what the checks of the
parser answer for each. `Translation` asks that this is `Verdict`, and says what the
text does when it runs; `CodeGen` says of the generator itself that codes stay
apart (`CodesApart`) and patched targets stay (`TargetsFinal`).

What is abstracted: the name children of an attribute, of which only the
address is used, and that of a vector, of which the code is dropped; the offsets
are given by `Home`, since `Semantic` checks them; calls, which `Frames` runs; the
dictionary of labels in `iloc_dup`, which aborts the compiler when two labels of
one body share a bucket: `Translate` in `Compilation` has that outcome, and in
`Dup` labels never collide.

## Runs

| run | bounds | shows |
|---|---|---|
| `Dict` | 5 keys, 2 values, 3 buckets | chains, occupation, implementation of the map |
| `Compilation` | 3 lexemes, 2 of them colliding, 4 addresses, 2 lines | symbols, status and output of every kind of run; every run ends |
| `CompilationFinalize` | the same | clean-up leaves an entry behind (violated) |
| `CompilationReject` | the same | a rejected program is not reported by its status (violated) |
| `Semantic` | 3 identifiers, 2 functions, 2 parameters, 2 fields, 4 declarations, 1 use | layout, annotations, signatures |
| `SemanticAssign` | int and float | a numeric assignment can crash (violated) |
| `Frames` | 3 functions, recursion, 3 calls, depth 3, 4 registers | locals, registers, links, arguments |
| `FramesRegisters` | main without variables | saved registers are overwritten (violated) |
| `FramesNested` | a call in an argument | an argument is overwritten (violated) |
| `Tree` | 8 nodes, 4 values on the stack, 2 expressions side by side, 1 value without a tree, 1 inner node beside calls and pipes | the lists implement the ordered forest; reading backwards; counts; pipes |
| `CodeGen` | 737 programs: 33 conditions and more, each control command in each other one; 16 stores, 20 tests | codes stay apart; accepted programs compile, load and do what they mean; the others are named |
| `CodeGenFor` | one program, `for` with a variable as its condition | the body never runs (violated) |

Why the bounds are enough:

- `Dict`: a chain of three is the shortest with a first, a middle and a last
  item; two values tell the first `dict_put` of a key from the second. What the
  bounds leave open is proved.
- `Compilation`: one collision and one lexeme beside it; one spare address, for
  the symbol allocated before the lexeme is known to be old.
- `Semantic`: a collision of names takes two identifiers, shadowing takes a
  global and a local, a reused counter takes two functions; four declarations
  hold a class, an instance and two neighbours. `MaxNodes = 1` because a use
  changes nothing a later use reads.
- `Frames`: a frame can only be damaged by the calls its function makes and by
  theirs: depth three has both, and a second call from the same frame comes
  after the first has returned.
- `Tree`: eight nodes are the fewest for a pipe of three functions, the shortest
  whose innermost function is searched below another, and hold a piped function
  with two arguments of its own and a command after it. Four values are the
  header of a `for`, to which `MaxStack` adds the end of a block. The other
  bounds keep apart values that do not touch each other's nodes.
- `CodeGen`: what an operator does with the slots of an operand depends only on
  whether the operand is a comparison, a variable or a literal, and on which of
  its lists were merged below: two operators over the three kinds, a third above
  them, and every value of what is tested show each case. What a command does
  with the code of its body depends on how it starts and ends: each of the nine
  bodies is in each of the seven loops and alternatives, with and without a next
  command, which may itself start with a label or not. 16 stores and 20 tests
  are more than any program of the instance that ends makes; the bounds stop
  only those outside `Supported` that loop.

`CHECK_DEADLOCK FALSE` is set where the system may stop: the table was freed or
its abort ended the process (`Dict`), the program ended (`Semantic`), the
bound on the calls is used up (`Frames`), the nodes are (`Tree`), or the program
was rejected, refused or run to its halt (`CodeGen`). `Compilation` ends in a
step of its own, so there deadlock is checked.

Fairness in `CodeGen`: the compiler and the simulator are one sequential process
each that nobody else can stop, so a next step that is possible is taken. The
formula `Fairness` is weak fairness of `Next` with `~ENABLED <<Next>>_vars`
written out as `Over`, because TLC evaluates ENABLED of so large an action very
slowly; `Over` names the ends of a run and the two bounds.

### What the violated runs mean

Each states what a document, comment or test of the repository says and finds
the code doing otherwise; `findings` in `PROJECT.json` quotes the line.
`CodeGenFor` is the smallest case of conditions without a branch; `if (b)` and
`while (b)` behave alike. `FramesNested` deserves a word: `tests/e6/input/e07.amarela` calls
`f(a,f(b,b))`, where the inner call overwrites `a` with `b`. The test passes
because both are 4 when it runs.

`Frames` passes for functions whose locals grow along the calls, at most
fourfold. The two conditions come from the layout: the registers are saved after
*four times* the words of the caller's locals (`var_scope_size` multiplies bytes
by `INT_SIZE` again), so a callee with more than four times as many words writes
over them; and a callee that itself calls must start its own frame after them.
`FramesRegisters` breaks the first with a `main` that has no variables.

What `cc_dict.h:41-42` says of `occupation`, "indicando quantos elementos ela
contém", is not what the code does, and has no run: after two `dict_put` of
colliding keys the table has two elements and `occupation` is 1, since it
counts a bucket when its first item comes. Nothing goes wrong by it: `dict_free`
only asks whether the table is empty, and that the counter tells this is checked
and proved (`OccupationTellsEmpty`).

Two faults of the code are kept out of the instances and have no run. `size_of`
of a string is -1, so that a class with a string field is smaller than its other
fields need. And `funcao_encadeada` does not count the arguments it chains, so
that a piped function with two arguments of its own is checked as if it had one.

## Proofs

TLAPS proves the following for every value of the constants that the named
ASSUMEs of the modules admit; TLC evaluates these in the runs. A further
hypothesis is part of the theorem that needs it.

| module | theorems | hypothesis |
|---|---|---|
| `Dict_proofs` | `DictInvariant`, `DictTypes`, `OccupationIsTrue`, `DictImplementsMap` | |
| `Compilation_proofs` | `CompilationTypes`, `TokensShareSymbols`, `SuccessMeansComplete`, `AbortMeansCollision` | |
| `Semantic_proofs` | `AnalysisTyped`, `DeclarationsAreFinal`, `AnnotationsAreCurrent` | |
| | `ParametersAreInOrder` | |
| | `SlotsAreDisjoint`, `FramesAreLargeEnough`, `AttributesAreInside` | `NoStringFields` |
| `Frames_proofs` | `MachineTyped`, `ReturnsFindTheirCaller`, `LocalsSurviveCalls` | |
| | `RegistersSurviveCalls` | `FramesFit` |
| | `ArgumentsReachParameters` | `~Nested` |
| `Tree_proofs` | `HeapStaysWhole`, `TreeTypes`, `ListsStayLinkedBothWays`, `NodesStayCounted`, `PipesStayInTextOrder` | |
| `Forest_proofs` | `TreeImplementsForest` | |
| `CodeGen_proofs` | `CodeTypes`, `CodesStayApart`, `TargetsStayFinal` | |

### Dict

`DictInvariant` says that the chains stay typed, duplicate free and in their
bucket, and that `occupation` counts the buckets in use, which is more than
`OccupationTellsEmpty` (`OccupationIsTrue`). The conjunction is
inductive as it stands; the work is in the lemmas on `Find`, `Append` and
`Unlink` and in counting the buckets in use. `DictImplementsMap`: a step of
`Dict` is a step of `DictMap` on the abstracted state, one lemma per operation.
The abort of `dict_free` needs the invariant: occupation is zero only when every
chain is empty.

### Compilation

`Compilation` calls the actions of `Dict`, so its invariant `CInv` holds the one
of `Dict`, and the steps are followed on the abstract map: what `dict_put` and
`dict_get` answer is read from `DictMap` by the refinement, never from the
chains. `CInv` adds that each token registered has the symbol the map keeps for
its key, that no symbol on the heap is shared between keys, and where the
program stands while the table is emptied: what is still in the table lies in
the buckets not visited yet, or behind a collision. The last part gives
`AbortMeansCollision`. The module assumes that no symbol has the null address.

### Semantic

`Names` is the invariant that holds for any program: types; the scope stack
holds the globals and at most one other scope, the newest (`ScopeDiscipline`);
what is called a class or a function has its information (`NamesAreComplete`);
every closed scope belongs to exactly one function (`ScopesHaveOwners`), which
is what makes `FrameSize` well defined. `AnalysisTyped` and the two action
properties follow from it: the types alone are `Typed`, and that the stack holds
only scopes that were opened, the newest of them current, is `ScopeDiscipline`.

The layout needs `NoStringFields`: with a string field a class can have a
negative size, so that its instances overlap what is declared after them. Under
it `IInv` adds that sizes of classes are natural numbers (`SizesAreNatural`) and
that what was allocated lies below the counter of its scope or below the
`local_var_size` its function kept (`ExtentsAreAllocated`). Disjointness follows
for a new variable because it starts at the counter. The shape of each action is
first reduced to one of a few forms (nothing declared, one variable placed, a
name registered, a function opened or closed), and each form preserves the
invariant once.

The offsets build on these forms. A function being read has the first of
its parameters in its scope, in order and from offset 0 (`ParamsPlaced`); it
ends with all of them. Each field of a class starts where the one before it ends
and the last ends at its size (`ClassesLaidOut`), so that the annotation of an
attribute, the sum of two offsets, stays inside the variable.

### Frames

The properties are about frames that are not on top, so the invariants follow a
frame while the calls above it come and go. Three layers share the lemmas on
stores:

- The control records. `Ordered`: the frames of the active calls lie one above
  the other, in the order of the calls. `Waiting`: what a suspended call is to do
  next. `Linked` and `LocalsKept`: the return address and the caller's `rsp` and `rarp`
  lie in the first words of the callee's frame, where nobody else writes, and a frame's locals are written
  only by their own function, because every other store is above its words. These
  hold for every call graph and every size.
- The saved registers (`RInv`). They are stored after four times the caller's
  words (the sizes in bytes are multiplied again), without moving `sp`, so only
  the sizes of the callee keep them. `FramesFit` is what the layout
  needs: along every call, the callee has at least as many words as the caller
  and at most four times as many. The instance of `Frames` satisfies it; that of
  `FramesRegisters` does not, and its run shows the registers overwritten.
- The arguments (`AInv`). They are stored where the callee will find its
  parameters, one after the other, so a call among the arguments writes over
  those before it. Without nested calls they arrive; the run `FramesNested`
  shows that the hypothesis cannot be dropped.

### Tree

A list on a heap is what a recursive function reads from it, cut after as many
nodes as there are. `Heap_proofs` shows first that nothing is ever cut (`PathFacts`,
`BackwardsIsShort`): in a heap where `prev` undoes `next` (`Wired`), a list never meets
itself or another, since walking back from the meeting point would lead to two
heads; so it has at most as many nodes as there are, and ends. From there on
lists are equal when they start and continue alike (`ListsAreEqual`), and each
function of `cc_tree.c` has a lemma that says of any heap and any trees on it
what it does to all the lists: `Created`, `Inserted`, `InsertedSecond`,
`MadeNext`, `ChildsUpdated`, `Freed`, `Finished`. What a production does not touch is
`Steady` and keeps its children; what it links was `Apart`.

`TreeInv` is the inductive invariant. `Sound` says that the heap is `Whole` for the
trees on the stack, which are distinct:

- `Wired`: `prev` undoes `next`, the first child has none, no two nodes share a first
  child, nothing in use points to a free node, and a tree on the stack has
  neither parent nor predecessor;
- `Kept`: `childnodes` and `last` are right, except in a piped call, where the count
  still tells one child from several, which is all that the insertion of a second
  child reads;
- `Shaped`: a call has its name as first child, and below a pipe is a call with
  an argument, a call or a pipe again. Without it `tree_finish_pipe` would not
  find the first function.

`Fits` adds what a nonterminal says of its tree: a command on the stack can be
inserted into, since it is counted. `TreeStep` has one lemma for each production
or shape of production. `ListsReadBackwards` and `PlainNodesCounted` follow from
`Wired` and `Kept`, and `TreeTypes` reads where links lead from the two, and the
kinds of the values from `Fits`.

`PipesInTextOrder` is not inductive: only a finished pipe is checked, and the order
is made long before. The invariant beside `TreeInv` is `Threads`: below a call, a
piped call, a chain and a pipe alike runs a `Thread`, the calls `c[i]` of the
functions in the order of the text and the trees `q[i]` that the first `i` of them
make, each tree the argument that comes first in the call after it. To keep it a
production must do two things.

- It must leave the other threads alone. Each function of `cc_tree.c` has a lemma
  that says which nodes it leaves `Undisturbed`; the nodes that a production
  takes are trees and free nodes, which are no part of another value's thread,
  and two threads that `Meet` anywhere are one from there up, so those of
  different values are apart (`ThreadsApart`).
- It must make its own. A call starts one (`NewThread`), a chain adds a function
  at its end (`ExtendThread`), and the pipe that is finished puts its first
  function under the innermost one (`PipeThread`): `FirstFunction` shows that the
  walk of `tree_finish_pipe` down the chain ends there, whatever its length.

`CheckedCallsFollow` then reads off the thread what `check_pipe` visits.

`Forest_proofs` shows the refinement: each production is, on the children that
`Kids` reads and the trees on the stack, an action of `Forest` (`ForestStep`). The
lemmas of `Heap_proofs` say what happens to the lists; `KidsGrown`, `TwoJoin`,
`TwoAdopt`, `ChainedKids` and `FinishedKids` say the same of sequences of children. A
new node over up to four values grows the forest (`GrownOne` to `GrownFour`), a
`while` turns its two values round (`SwappedGrow`), an `if` with nothing but an else
grows two nodes (`NegatedGrow`), and `tree_free` takes the nodes below the freed
tree and no others (`LostKids`, `Dropped`).

### CodeGen

The theorems speak of programs of any size and any shape a node may have
(`TreesAssumption`), whatever the checks answer. An action sees only the results of
the children of one call, while the results of all the other calls wait on the
same list of instructions; so `CodeInvariant` says of every result that is held:

- `Listing`: labels and targets are missing or were made by `create_label`;
- `Results`: each result is `Sound`. Its code has no instruction twice, the codes of
  its expressions share none, and the slots that wait (`Waits`) are operands of
  branches in the code that have no target yet; none is on both lists;
- `Separate`: no two results share an instruction;
- `Stacked`: the calls are for nodes of `Trees` and below them.

`CodesApart` and `TypeOK` are parts of it. That the slots waiting have no target is
what `TargetsFinal` needs, and by itself it is not inductive: a patch through one
result would fill the slots of another if the two shared a branch. Each step of
the generator makes the list `Grown`: instructions are only added, those outside
the codes of the call that ends keep their targets, and those inside keep the
ones they have (`Firm`). Under a grown list the results of the other calls stay
sound, once for all actions (`ResultStays`). What is left for each action is that the
code it leaves is made of its children's codes and new instructions, each once
(`JoinedCodes`), and that the slots on the lists it leaves were patched by none of
its `Aim`s. The copies of a `foreach` come after everything in the list, and the
rounds are followed by induction on their number. `Main` overwrites an instruction,
but of its own code.

### Only model-checked

- What relates the text to the program, in `Translation`: `OutcomeForeseen`,
  `NumbersComputed`, `ReadsDefined`, `BoolsAreBits`, `ShortCircuits` and
  `ImplementsSource`. `Checks`, `Meaning` and `Source` follow trees of any depth with
  RECURSIVE operators, for which the prover has no backend, and what they compute
  for every program would be an induction over data.
- `EveryRunEnds` and `Completes`: liveness under fairness is out of the
  prover's reach.

## Plan

1. Done: `Dict`, `Compilation`, `Semantic`, `Frames`, `Tree`, `Types`, `Checks`, `Iloc`,
   `CodeGen` and `Translation`, and the proofs above.
2. Possible extensions: calls in `CodeGen`, which would replace the abstract
   functions of `Frames` by generated ones; the type of pipes.
3. Proofs: done for every safety property the runs check, except those of
   `Translation`.

## Not modelled

The text of lexemes, error messages and comments; the regular expressions and
the LALR automaton, which are generated; drawing the graph; the fixed capacities
of the temporary lists and arrays, which the code does not check; in `CodeGen`,
calls and the types of pipes; the instructions of the simulator no program of
the compiler has; the vendored test harness; `cc_dict_main_example.c`,
which is not linked, and the empty `cc_list.c`.
