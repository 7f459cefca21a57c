-------------------------------- MODULE Types --------------------------------
(***************************************************************************)
(* The nodes of a program and the types of src/src/cc_semantic.c: what its  *)
(* checks of operators and assignments let pass.  A program is a tree of   *)
(* records; the kinds of nodes have their names of src/include/cc_ast.h,   *)
(* and a type has the number the compiler gives it.                        *)
(***************************************************************************)
EXTENDS Integers, Sequences, SequencesExt

CONSTANT Declared   \* the declared type of each variable, vector and attribute

\* A node: its kind, the name it stands for (of a literal, of its type), the
\* value of a literal and its children, the next command the last of them.  An
\* assignment that initializes a declaration is named "initial".
Node(kind, name, val, kids) == [kind |-> kind, name |-> name, val |-> val, kids |-> kids]

Primitive == [int |-> 1, float |-> 2, char |-> 3, string |-> 4, bool |-> 5]
POA_IDENT == 6
decl_variable(type) == 2 + type
decl_vector(type) == decl_variable(POA_IDENT) + type

ASSUME TypesAssumption ==
    \A name \in DOMAIN Declared : Declared[name] \in 3 .. 13

\* A variable or an element of a vector of one of these primitive types.
Of(type, names) ==
    \E name \in names : type \in {decl_variable(Primitive[name]), decl_vector(Primitive[name])}

Numbers == {"int", "float"}

\* The class of an operator, set by its production.
OperatorClass ==
    [AST_LOGICO_COMP_LE |-> "CMP_ARITM", AST_LOGICO_COMP_GE |-> "CMP_ARITM",
     AST_LOGICO_COMP_L |-> "CMP_ARITM", AST_LOGICO_COMP_G |-> "CMP_ARITM",
     AST_LOGICO_COMP_IGUAL |-> "CMP_ARITM_BOOL", AST_LOGICO_COMP_DIF |-> "CMP_ARITM_BOOL",
     AST_LOGICO_E |-> "BOOL", AST_LOGICO_OU |-> "BOOL",
     AST_ARIM_SOMA |-> "ARITM", AST_ARIM_SUBTRACAO |-> "ARITM",
     AST_ARIM_MULTIPLICACAO |-> "ARITM", AST_ARIM_DIVISAO |-> "ARITM",
     AST_ARIM_MOD |-> "ARITM", AST_ARIM_POT |-> "ARITM"]

\* A comparison that checks its left operand only.
OperandsAllowedLeft(class, left, right) ==
    \/ class \in {"BOOL", "CMP_ARITM_BOOL"} /\ Of(left, {"bool"}) /\ Of(right, {"bool"})
    \/ class \in {"CMP_ARITM", "CMP_ARITM_BOOL"} /\ Of(left, Numbers \cup {"char"})
    \/ class = "ARITM" /\ Of(left, Numbers) /\ Of(right, Numbers)

\* The operands set_binary_node_value_type lets pass.
OperandsAllowed(class, left, right) ==
    \/ class \in {"BOOL", "CMP_ARITM_BOOL"} /\ Of(left, {"bool"}) /\ Of(right, {"bool"})
    \/ /\ class \in {"CMP_ARITM", "CMP_ARITM_BOOL"}
       /\ Of(left, Numbers \cup {"char"}) /\ Of(right, Numbers \cup {"char"})
    \/ class = "ARITM" /\ Of(left, Numbers) /\ Of(right, Numbers)

BinaryType(class, left, right) ==
    IF class # "ARITM" THEN decl_variable(Primitive["bool"])
    ELSE IF Of(left, {"float"}) \/ Of(right, {"float"}) THEN decl_variable(Primitive["float"])
    ELSE decl_variable(Primitive["int"])

\* A check_var_assignment that compares nothing.
AssignmentAlways(target, value) == TRUE

\* check_var_assignment, whose macros see a vector through its element.
AssignmentAllowed(target, value) ==
    \/ target = value
    \/ decl_variable(target) = decl_vector(value)
    \/ decl_vector(target) = decl_variable(value)

----------------------------------------------------------------------------
Comparisons == {"AST_LOGICO_COMP_LE", "AST_LOGICO_COMP_GE", "AST_LOGICO_COMP_L",
                "AST_LOGICO_COMP_G", "AST_LOGICO_COMP_IGUAL", "AST_LOGICO_COMP_DIF"}
Logical == Comparisons \cup {"AST_LOGICO_E", "AST_LOGICO_OU", "AST_LOGICO_COMP_NEGACAO"}

Negates(e) == e.kind = "AST_LOGICO_COMP_NEGACAO" /\ e.kids[1].kind = "AST_LITERAL"

\* The child of a command that is its condition.
Condition == [AST_IF |-> 1, AST_IF_ELSE |-> 1, AST_SWITCH |-> 1, AST_WHILE_DO |-> 2,
              AST_DO_WHILE |-> 2, AST_FOR |-> 2]

\* How many children a node has of its own, before the next command.
Own(kind) ==
    CASE kind \in {"AST_LITERAL", "AST_IDENTIFICADOR", "AST_ATRIBUTO", "AST_BREAK", "AST_CONTINUE"} -> 0
      [] kind \in {"AST_ARIM_INVERSAO", "AST_LOGICO_COMP_NEGACAO", "AST_BLOCO", "AST_RETURN",
                   "AST_INPUT", "AST_OUTPUT", "AST_FUNCAO_MAIN"} -> 1
      [] kind \in {"AST_IF_ELSE", "AST_FOREACH"} -> 3
      [] kind = "AST_FOR" -> 4
      [] OTHER -> 2
=============================================================================
