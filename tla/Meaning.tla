------------------------------- MODULE Meaning -------------------------------
(***************************************************************************)
(* What a program of the language means, whatever code it is compiled to:  *)
(* the assignments its execution makes, in order, and the tests it needs   *)
(* when conditions are evaluated lazily.  Meant to be read, and to compare *)
(* the generated code with.                                                *)
(***************************************************************************)
EXTENDS Checks, FiniteSets, TLC

CONSTANT MaxWrites   \* bound on the assignments followed

ASSUME MeaningAssumption == MaxWrites \in Nat

Bit(condition) == IF condition THEN 1 ELSE 0

Apply(kind, a, b) ==
    CASE kind = "AST_ARIM_SOMA" -> a + b
      [] kind = "AST_ARIM_SUBTRACAO" -> a - b
      [] kind = "AST_ARIM_MULTIPLICACAO" -> a * b
      [] kind = "AST_ARIM_DIVISAO" -> a \div b
      [] kind = "AST_LOGICO_COMP_LE" -> Bit(a <= b)
      [] kind = "AST_LOGICO_COMP_GE" -> Bit(a >= b)
      [] kind = "AST_LOGICO_COMP_L" -> Bit(a < b)
      [] kind = "AST_LOGICO_COMP_G" -> Bit(a > b)
      [] kind = "AST_LOGICO_COMP_IGUAL" -> Bit(a = b)
      [] kind = "AST_LOGICO_COMP_DIF" -> Bit(a # b)
      [] kind = "AST_LOGICO_E" -> a * b
      [] kind = "AST_LOGICO_OU" -> Bit(a + b > 0)

\* A cell of the store is a variable, an attribute or an element of a vector;
\* everything starts at zero.
Cell(name, i) == [name |-> name, index |-> i]
Get(store, c) == IF c \in DOMAIN store THEN store[c] ELSE 0
Set(store, c, v) == (c :> v) @@ store

RECURSIVE Value(_, _)
Value(e, store) ==
    CASE e.kind = "AST_LITERAL" -> e.val
      [] e.kind \in {"AST_IDENTIFICADOR", "AST_ATRIBUTO"} -> Get(store, Cell(e.name, 0))
      [] e.kind = "AST_VETOR_INDEXADO" -> Get(store, Cell(e.kids[1].name, Value(e.kids[2], store)))
      [] e.kind = "AST_ARIM_INVERSAO" -> 0 - Value(e.kids[1], store)
      [] e.kind = "AST_LOGICO_COMP_NEGACAO" -> 1 - Value(e.kids[1], store)
      [] OTHER -> Apply(e.kind, Value(e.kids[1], store), Value(e.kids[2], store))

\* How many tests the lazy evaluation of a condition makes: one for each
\* comparison or variable it reaches, none for a literal.
RECURSIVE Tests(_, _)
Tests(e, store) ==
    CASE e.kind = "AST_LITERAL" -> 0
      [] e.kind = "AST_LOGICO_COMP_NEGACAO" -> Tests(e.kids[1], store)
      [] e.kind \in {"AST_LOGICO_E", "AST_LOGICO_OU"} ->
           Tests(e.kids[1], store)
           + IF Value(e.kids[1], store) = Bit(e.kind = "AST_LOGICO_E")
             THEN Tests(e.kids[2], store) ELSE 0
      [] OTHER -> 1

----------------------------------------------------------------------------
NextCommand(s) == SubSeq(s.kids, Own(s.kind) + 1, Len(s.kids))

Assignment(target, e) == Node("AST_ATRIBUICAO", "", 0, <<target, e>>)
Loop(body, condition) == Node("AST_WHILE_DO", "", 0, <<body, condition>>)

RECURSIVE Elements(_)
Elements(list) ==
    IF list.kind = "AST_EXP_LIST" THEN <<list.kids[1]>> \o Elements(list.kids[2]) ELSE <<list>>

Target(e, store) ==
    IF e.kind = "AST_VETOR_INDEXADO" THEN Cell(e.kids[1].name, Value(e.kids[2], store))
                                     ELSE Cell(e.name, 0)

\* The commands that stand for a command of control flow whose condition, if
\* it has one, has this value.
Expansion(s, v) ==
    CASE s.kind \in {"AST_FUNCAO_MAIN", "AST_BLOCO", "AST_BREAK", "AST_OUTPUT"} ->
           SubSeq(s.kids, 1, Own(s.kind))
      [] s.kind = "AST_IF" -> IF v = 1 THEN <<s.kids[2]>> ELSE <<>>
      [] s.kind = "AST_IF_ELSE" -> IF v = 1 THEN <<s.kids[2]>> ELSE <<s.kids[3]>>
      [] s.kind = "AST_WHILE_DO" ->
           IF v = 1 THEN <<s.kids[1], Loop(s.kids[1], s.kids[2])>> ELSE <<>>
      [] s.kind = "AST_DO_WHILE" -> <<s.kids[1], Loop(s.kids[1], s.kids[2])>>
      [] s.kind = "AST_FOR" ->
           <<s.kids[1], Loop(Node("AST_FUNCAO_MAIN", "", 0, <<s.kids[4], s.kids[3]>>), s.kids[2])>>
      [] s.kind = "AST_FOREACH" ->
           FoldLeft(LAMBDA todo, e : todo \o <<Assignment(s.kids[1], e), s.kids[3]>>,
                    <<>>, Elements(s.kids[2]))

\* The condition a command evaluates first, if it has one.
Entered(s) ==
    IF s.kind \in {"AST_IF", "AST_IF_ELSE", "AST_WHILE_DO"} THEN <<s.kids[Condition[s.kind]]>>
    ELSE <<>>

\* Executing the commands todo from a store: the assignments made, the tests
\* made, and whether the end is reached within the bound.
RECURSIVE Execute(_, _, _, _)
Execute(todo, store, written, tests) ==
    IF todo = <<>> \/ Len(written) = MaxWrites
    THEN [written |-> written, tests |-> tests, ends |-> todo = <<>>]
    ELSE LET s == Head(todo)
             after == NextCommand(s) \o Tail(todo)
             Write(c, v, n) == Execute(after, Set(store, c, v),
                                       Append(written, [cell |-> c, value |-> v]), n)
         IN  CASE s.kind = "AST_ATRIBUICAO" ->
                    Write(Target(s.kids[1], store), Value(s.kids[2], store),
                          tests + IF s.kids[2].kind \in Logical THEN Tests(s.kids[2], store) ELSE 0)
               [] s.kind = "AST_SHIFT_LEFT" ->
                    Write(Target(s.kids[1], store),
                          Value(s.kids[1], store) * 2 ^ s.kids[2].val, tests)
               [] s.kind = "AST_SHIFT_RIGHT" ->
                    Write(Target(s.kids[1], store),
                          Value(s.kids[1], store) \div 2 ^ s.kids[2].val, tests)
               [] s.kind = "AST_RETURN" -> Execute(<<>>, store, written, tests)
               [] OTHER ->
                    LET v == IF Entered(s) = <<>> THEN 0 ELSE Value(Entered(s)[1], store)
                        n == IF Entered(s) = <<>> THEN 0 ELSE Tests(Entered(s)[1], store)
                    IN  Execute(Expansion(s, v) \o after, store, written, tests + n)

Execution(program) == Execute(<<program>>, <<>>, <<>>, 0)

----------------------------------------------------------------------------
\* The programs whose code can be expected to follow their meaning.  An
\* expression is computed into a register (Computed) or branches (Branches);
\* the generator serves neither purpose with the other form, except a literal,
\* a variable or an element as an operand of a logical operator.
RECURSIVE Computed(_)
Computed(e) ==
    CASE e.kind \in {"AST_LITERAL", "AST_IDENTIFICADOR", "AST_ATRIBUTO"} -> TRUE
      [] e.kind = "AST_VETOR_INDEXADO" -> Computed(e.kids[2])
      [] e.kind \in Logical \cup {"AST_ARIM_MOD", "AST_ARIM_POT"} -> FALSE
      [] OTHER -> \A i \in DOMAIN e.kids : Computed(e.kids[i])

RECURSIVE Branches(_)
Branches(e) ==
    \/ e.kind \in Comparisons /\ Computed(e.kids[1]) /\ Computed(e.kids[2])
    \/ /\ e.kind \in Logical \ Comparisons
       /\ \A i \in DOMAIN e.kids :
             \/ Branches(e.kids[i])
             \/ e.kids[i].kind \in {"AST_LITERAL", "AST_IDENTIFICADOR"}
             \/ e.kids[i].kind = "AST_VETOR_INDEXADO" /\ Computed(e.kids[i])

\* A value of another sort than its target, and what may be assigned to it.
Unlike(target, e) == Of(ValueType(target), {"bool"}) # Of(ValueType(e), {"bool"})
Assignable(target, e) ==
    /\ ~Unlike(target, e)
    /\ IF Of(ValueType(target), {"bool"}) THEN e.kind = "AST_LITERAL" \/ (Branches(e) /\ ~Negates(e))
                                          ELSE Computed(e)

\* A command whose first instruction has a label of its own, and the commands
\* whose first instruction gets one from this command.
RECURSIVE Labelled(_)
Labelled(s) ==
    s.kind = "AST_DO_WHILE" \/ (s.kind \in {"AST_BLOCO", "AST_FOR"} /\ Labelled(s.kids[1]))

Entries ==
    [AST_IF |-> {2, 3}, AST_IF_ELSE |-> {2, 3, 4}, AST_WHILE_DO |-> {1, 3},
     AST_DO_WHILE |-> {1, 3}, AST_FOR |-> {4, 5}]

Relabels(s) ==
    /\ s.kind \in DOMAIN Entries
    /\ \E i \in Entries[s.kind] \cap DOMAIN s.kids : Labelled(s.kids[i])

\* Every node of a tree.
RECURSIVE Nodes(_)
Nodes(t) == {t} \cup UNION {Nodes(t.kids[i]) : i \in DOMAIN t.kids}

FollowsMeaning(s) ==
    CASE s.kind = "AST_ATRIBUICAO" ->
           (s.kids[1].kind = "AST_VETOR_INDEXADO" => Computed(s.kids[1])) /\ Assignable(s.kids[1], s.kids[2])
      [] s.kind \in DOMAIN Condition -> s.kind # "AST_SWITCH" /\ Branches(s.kids[Condition[s.kind]]) /\ ~Relabels(s)
      [] s.kind \in {"AST_SHIFT_LEFT", "AST_SHIFT_RIGHT"} -> ~Of(ValueType(s.kids[1]), {"bool"})
      [] s.kind = "AST_FOREACH" ->
           \A i \in DOMAIN Elements(s.kids[2]) :
              LET e == Elements(s.kids[2])[i] IN ~Unlike(s.kids[1], e) /\ Computed(e)
      [] s.kind = "AST_RETURN" -> Len(s.kids) = 1 /\ Computed(s.kids[1])
      [] s.kind \in {"AST_BREAK", "AST_CONTINUE", "AST_INPUT", "AST_OUTPUT"} -> FALSE
      [] OTHER -> TRUE

\* A return ends main and occurs nowhere else.
RECURSIVE Ending(_)
Ending(s) == IF NextCommand(s) = <<>> THEN s ELSE Ending(NextCommand(s)[1])

Supported(program) ==
    /\ \A s \in Nodes(program) : FollowsMeaning(s)
    /\ Ending(program.kids[1]).kind = "AST_RETURN"
    /\ Cardinality({s \in Nodes(program) : s.kind = "AST_RETURN"}) = 1
=============================================================================
