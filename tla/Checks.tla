------------------------------- MODULE Checks -------------------------------
(***************************************************************************)
(* The types the actions of src/parser.y give to expressions and what the  *)
(* checks of src/src/cc_semantic.c answer of a whole program.              *)
(***************************************************************************)
EXTENDS Types

\* value_type of an expression: an element keeps the type of its vector, the
\* unary operators ask nothing of their operand, and ! answers bool.
RECURSIVE ValueType(_)
ValueType(e) ==
    CASE e.kind = "AST_LITERAL" -> decl_variable(Primitive[e.name])
      [] e.kind \in {"AST_IDENTIFICADOR", "AST_ATRIBUTO"} -> Declared[e.name]
      [] e.kind = "AST_VETOR_INDEXADO" -> Declared[e.kids[1].name]
      [] e.kind = "AST_ARIM_INVERSAO" -> ValueType(e.kids[1])
      [] e.kind = "AST_LOGICO_COMP_NEGACAO" -> decl_variable(Primitive["bool"])
      [] OTHER -> BinaryType(OperatorClass[e.kind], ValueType(e.kids[1]), ValueType(e.kids[2]))

----------------------------------------------------------------------------
\* check_condition
ConditionAllowed(t) ==
    LET type == ValueType(t.kids[Condition[t.kind]])
    IN  IF t.kind = "AST_SWITCH"
        THEN type \in {decl_variable(Primitive["int"]), decl_variable(Primitive["char"])}
        ELSE Of(type, {"bool"})

\* What the check of a node itself answers: <<>> or its error.  The report of
\* a wrong assignment has no body left, but its argument is the first child of
\* the target, which an identifier does not have; an initialization passes its
\* own node for the target.  A foreach checks no assignment.
OwnError(t) ==
    CASE t.kind \in DOMAIN OperatorClass ->
           IF OperandsAllowed(OperatorClass[t.kind], ValueType(t.kids[1]), ValueType(t.kids[2]))
           THEN <<>> ELSE <<"IKS_ERROR_INVALID_EXP">>
      [] t.kind \in DOMAIN Condition ->
           IF ConditionAllowed(t) THEN <<>> ELSE <<"IKS_ERROR_INVALID_CONDITION">>
      [] t.kind = "AST_ATRIBUICAO" ->
           IF AssignmentAllowed(ValueType(t.kids[1]), ValueType(t.kids[2]))
              \/ t.kids[1].kind # "AST_IDENTIFICADOR" \/ t.name = "initial"
           THEN <<>> ELSE <<"crash">>
      [] OTHER -> <<>>

\* Where the check of a command (0) comes among its children.
Reductions ==
    [AST_IF |-> <<1, 2, 0, 3>>, AST_IF_ELSE |-> <<1, 2, 3, 0, 4>>, AST_SWITCH |-> <<1, 2, 0, 3>>,
     AST_WHILE_DO |-> <<2, 0, 1, 3>>, AST_DO_WHILE |-> <<1, 2, 0, 3>>,
     AST_FOR |-> <<1, 2, 3, 4, 0, 5>>, AST_ATRIBUICAO |-> <<1, 2, 0, 3>>]

\* The errors of a tree in the order of the reductions; the first one ends the
\* compiler.
RECURSIVE Errors(_)
Errors(t) ==
    LET order == IF t.kind \in DOMAIN Reductions THEN Reductions[t.kind]
                 ELSE [i \in 1 .. Len(t.kids) + 1 |-> IF i <= Len(t.kids) THEN i ELSE 0]
    IN  FoldLeft(LAMBDA errors, i :
                   errors \o (IF i = 0 THEN OwnError(t)
                              ELSE IF i <= Len(t.kids) THEN Errors(t.kids[i]) ELSE <<>>),
                 <<>>, order)

Verdict(t) == IF Errors(t) = <<>> THEN "accepted" ELSE Head(Errors(t))
=============================================================================
