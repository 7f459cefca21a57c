----------------------------- MODULE Translation -----------------------------
(***************************************************************************)
(* What the text that CodeGen generates does when it is loaded and run,    *)
(* against what the source program means.                                  *)
(***************************************************************************)
EXTENDS CodeGen, Meaning

ASSUME TranslationAssumption ==
    MaxStores = MaxWrites /\ \A p \in Programs : Checked(p) = Verdict(p)

Accepted == Verdict(ast) = "accepted"
EndsInReturn == Ending(ast.kids[1]).kind = "AST_RETURN"

\* A logical expression where a register is expected, a literal negated into
\* a boolean, and a command without code where its first instruction is read.
Taken(s, i) ==
    \/ s.kind \in Logical \ Comparisons
    \/ s.kind \in DOMAIN Condition /\ i = Condition[s.kind]
    \/ s.kind = "AST_ATRIBUICAO" /\ i = 2 /\ Of(ValueType(s.kids[1]), {"bool"})
Dangles(s) == \E i \in DOMAIN s.kids : s.kids[i].kind \in Logical /\ ~Taken(s, i)
StoresNothing(s) ==
    s.kind = "AST_ATRIBUICAO" /\ Of(ValueType(s.kids[1]), {"bool"}) /\ Negates(s.kids[2])

RECURSIVE Codeless(_)
Codeless(t) ==
    /\ t.kind \in {"AST_BLOCO", "AST_BREAK", "AST_CONTINUE"}
    /\ \A i \in DOMAIN t.kids : Codeless(t.kids[i])
EmptyPart(s) ==
    \/ s.kind = "AST_IF" /\ Codeless(s.kids[2])
    \/ s.kind \in {"AST_WHILE_DO", "AST_DO_WHILE"} /\ Codeless(s.kids[1])
    \/ s.kind = "AST_FOR" /\ Codeless(s.kids[4])
    \/ /\ s.kind = "AST_FOREACH" /\ s.kids[2].kind = "AST_EXP_LIST"
       /\ \E n \in Nodes(s.kids[3]) : Dangles(n)

\* Of the programs the checks accept, the generator dies on exactly the ones
\* with an empty part and the simulator refuses the text of exactly the ones
\* that compute with a branch, store a negated literal or give an instruction
\* two labels; the text of every other one loads, each label defined and each
\* operand present (code_generator, patchup_true, patchup_false, program_load).
OutcomeForeseen ==
    (status \in {"crashed", "built", "refused", "running", "halted"} /\ Accepted /\ EndsInReturn) =>
        /\ status = "crashed" => \E s \in Nodes(ast) : EmptyPart(s)
        /\ status \in {"built", "refused", "running", "halted"} => \A s \in Nodes(ast) : ~EmptyPart(s)
        /\ status = "refused" => \E s \in Nodes(ast) : Dangles(s) \/ StoresNothing(s) \/ Relabels(s)
        /\ status \in {"running", "halted"} =>
              \A s \in Nodes(ast) : ~Dangles(s) /\ ~StoresNothing(s) /\ ~Relabels(s)

\* The variable or the vector a register was loaded from.
LoadedFrom(i) ==
    {n \in DOMAIN Home :
       \/ i.type = "loadAI" /\ Home[n].reg = i.op1 /\ Home[n].offset = i.op2
       \/ i.type = "loadAO" /\ Home[n].reg = i.op1 /\ Home[n].offset = iloc[i.op2].op2}

\* No instruction of an accepted program computes with a boolean or a string
\* or orders them: what the checks know of the operands of an operator, through
\* every expression between, is what its instruction finds in its registers
\* (set_binary_node_value_type, code_generator).
NumbersComputed ==
    \A i \in DOMAIN iloc :
       iloc[i].type \in {"add", "sub", "mult", "div", "cmp_LT", "cmp_LE", "cmp_GT", "cmp_GE"} =>
         \A op \in {"op1", "op2"} :
            iloc[i][op] \in DOMAIN iloc =>
              \A n \in LoadedFrom(iloc[iloc[i][op]]) : ~Of(Declared[n], {"bool", "string"})

\* Where the code follows the program, no instruction reads a register that
\* nothing was computed into, whichever branches were taken before: the
\* simulator would silently answer 0 (code_generator, Storage.get).
ReadsDefined ==
    (status = "running" /\ ip < Len(code) /\ Supported(ast)) => ReadBy(Fetched) \subseteq DOMAIN regs

\* The cell an address stands for.
CellAt(a) ==
    LET cells == {Cell(n, i) : n \in DOMAIN Home, i \in 0 .. 3}
        here == {c \in cells : /\ c.index < Home[c.name].size
                                /\ a = regs[Home[c.name].reg] + Home[c.name].offset + 4 * c.index}
    IN  IF here = {} THEN Cell("wild", a) ELSE CHOOSE c \in here : TRUE
Written == [i \in DOMAIN writes |-> [cell |-> CellAt(writes[i].address), value |-> writes[i].value]]

\* The assignments of which the types are not compared.
Unseen(s) ==
    \/ s.kind = "AST_ATRIBUICAO" /\ s.name = "initial" /\ Unlike(s.kids[1], s.kids[2])
    \/ s.kind = "AST_FOREACH" /\ \E e \in Range(Elements(s.kids[2])) : Unlike(s.kids[1], e)

\* A boolean variable only ever receives 0 or 1, the values a cbr and the
\* operators of the checks tell apart, in a program that initializes none with
\* a number and runs none through numbers in a foreach, where no check looks
\* (check_var_assignment, atribuicao_iloc).
BoolsAreBits ==
    (\A s \in Nodes(ast) : ~Unseen(s)) =>
      \A i \in DOMAIN writes :
        LET n == Written[i].cell.name
        IN  (n \in DOMAIN Declared /\ Declared[n] = decl_variable(Primitive["bool"]))
            => writes[i].value \in {0, 1}

\* A finished run has made exactly the tests lazy evaluation needs: no operand
\* of && or || is tested after the first one has decided, and none is skipped
\* (the tests tests/e5/input/asd14 and asd15 count the cbr of two cases).
ShortCircuits == (status = "halted" /\ Supported(ast)) => tests = Execution(ast).tests

\* The stores of the running code are the assignments of the source program,
\* in its order and with its values, and the code halts only where the
\* program ends.
Abstract == INSTANCE Source WITH tree <- ast, written <- Written, ended <- status = "halted"
ImplementsSource == Abstract!Spec

\* A program that ends is compiled, loaded and run until the halt is reached:
\* no jump of a condition or a loop leads the code astray for ever.
Completes == Abstract!Completes

\* What the comments of AST_FOR say of its condition: "se true, vai para o
\* inicio do bloco", "se false, vai para prox comando".
ForFollowsCondition == status = "halted" => Written = Execution(ast).written
=============================================================================
