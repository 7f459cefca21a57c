------------------------------ MODULE CodeGen ------------------------------
(***************************************************************************)
(* The code generator of src/src/cc_code.c without calls of functions:     *)
(* code_generator calls itself for the children of a node, then makes      *)
(* instructions from their codes, branches wait for their targets in lists *)
(* of slots, and the text that results runs on the simulator.  A code is   *)
(* the sequence of the indices of its instructions in iloc_list, first to  *)
(* last; a register is the index of the instruction it was created for.    *)
(***************************************************************************)
EXTENDS Types, Iloc

CONSTANTS Programs,   \* the programs compiled
          Trees,      \* their nodes
          Checked(_), \* what the checks of the parser answer for each program
          Home,       \* the base register and the offset of each name, and its elements
          MaxStores, MaxTests   \* bounds on the stores and the branches executed

ASSUME HomeAssumption ==
    \A n \in DOMAIN Home : Home[n].reg \in {rbss, rarp} /\ Home[n].offset \in Nat /\ Home[n].size \in Nat

\* A node has its own children, and maybe a next command; a foreach iterates
\* a variable.
ASSUME TreesAssumption ==
    /\ Programs \subseteq Trees
    /\ \A t \in Trees :
          /\ t.kids \in Seq(Trees) /\ Len(t.kids) \in {Own(t.kind), Own(t.kind) + 1}
          /\ t.kind = "AST_FOREACH" => t.kids[1].kind = "AST_IDENTIFICADOR"

ASSUME BoundsAssumption == MaxStores \in Nat /\ MaxTests \in Nat

VARIABLES ast, status,
          calls,    \* the calls of code_generator, each with its node and what its children left
          iloc,     \* iloc_list
          labels    \* how many labels create_label made
compiler == <<ast, calls, iloc, labels>>
vars == <<ast, status, calls, iloc, labels, machine>>

Slot(i, op) == [at |-> i, op |-> op]

\* A call for node t, with what its first children left (cc).
Call(t, cc) == [tree |-> t, cc |-> cc]

\* What code_generator leaves in a node: its code, the slots that wait for a
\* target, and of a list the codes of its expressions.
Left(c, yes, no, exps) == [code |-> c, rem_true |-> yes, rem_false |-> no, exps |-> exps]

\* The node being visited, its children and their codes.
Top == calls[Len(calls)]
t0 == Top.tree
Of0(i) == Top.cc[i]
cc(i) == IF i <= Len(Top.cc) THEN Top.cc[i].code ELSE <<>>
Whole == cc(1) \o cc(2) \o cc(3) \o cc(4) \o cc(5)

\* The operations on iloc_list: patchup after create_label, and the last
\* operand of a code.
Retargeted(i, slots, j, l, labelled) ==
    [type |-> i.type, op1 |-> i.op1,
     op2 |-> IF Slot(j, "op2") \in slots THEN l ELSE i.op2,
     op3 |-> IF Slot(j, "op3") \in slots THEN l ELSE i.op3,
     label |-> IF labelled THEN l ELSE i.label]
AimFirst(list, slots, i, l) ==   \* a patchup that stops after one slot
    LET first == IF slots = {} THEN {} ELSE {CHOOSE s \in slots : TRUE}
    IN  [j \in DOMAIN list |-> Retargeted(list[j], first, j, l, j = i)]
Aim(list, slots, i, l) == [j \in DOMAIN list |-> Retargeted(list[j], slots, j, l, j = i)]

Branch(list, rem, yes, no, l) == Aim(Aim(list, rem.rem_true, yes, l), rem.rem_false, no, l + 1)
op3(list, c) == list[Last(c)].op3

\* A nop stands for a missing next command.
OrNop(list, c) ==
    IF c = <<>> THEN [iloc |-> Append(list, Instruction("nop", None, None, None)), code |-> <<Len(list) + 1>>]
                ELSE [iloc |-> list, code |-> c]

\* What a branch on the result of the code c adds to it; first a branch that is
\* never appended.
TestedApart(list, c) ==
    [iloc |-> Append(list, Instruction("cbr", op3(list, c), None, None)), code |-> c,
     rem_true |-> {Slot(Len(list) + 1, "op2")}, rem_false |-> {Slot(Len(list) + 1, "op3")}]
Tested(list, c) ==
    LET n == Len(list) + 1
    IN  [iloc |-> Append(list, Instruction("cbr", op3(list, c), None, None)), code |-> Append(c, n),
         rem_true |-> {Slot(n, "op2")}, rem_false |-> {Slot(n, "op3")}]

\* A literal operand tested like a variable.
ShortCircuitTests(list, e, x) ==
    IF e.kind \in {"AST_LITERAL", "AST_IDENTIFICADOR", "AST_VETOR_INDEXADO"} THEN Tested(list, x.code)
    ELSE [iloc |-> list, code |-> x.code, rem_true |-> x.rem_true, rem_false |-> x.rem_false]

\* short_circuit_literal and short_circuit_variable on operand e, which left x.
ShortCircuit(list, e, x) ==
    LET n == Len(list) + 1
    IN  CASE e.kind = "AST_LITERAL" ->
               [iloc |-> Append(list, Instruction("jumpI", None, None, None)), code |-> <<n>>,
                rem_true |-> IF e.val = 1 THEN {Slot(n, "op3")} ELSE {},
                rem_false |-> IF e.val = 1 THEN {} ELSE {Slot(n, "op3")}]
          [] e.kind \in {"AST_IDENTIFICADOR", "AST_VETOR_INDEXADO"} -> Tested(list, x.code)
          [] OTHER ->
               [iloc |-> list, code |-> x.code, rem_true |-> x.rem_true, rem_false |-> x.rem_false]

\* A copy that shares the instructions.
DupShares(list, l, c) == [iloc |-> list, labels |-> l, code |-> c]

\* iloc_dup: the labels of the copy are fresh.  The dictionary it maps them with
\* aborts when two of them share a bucket, which is an outcome of Translate in
\* Compilation: here labels never collide.
Dup(list, l, c) ==
    LET targets == UNION {{list[i].label} \cup {list[i][op] : op \in Targets(list[i].type)} : i \in Range(c)}
        old == targets \ {None}
        Fresh(m) == IF m = None THEN None ELSE l + Cardinality({k \in old : k <= m})
        Copied(i, op) == IF op \in Targets(i.type) THEN Fresh(i[op]) ELSE i[op]
        Copy(i) == [type |-> i.type, op1 |-> i.op1, op2 |-> Copied(i, "op2"), op3 |-> Copied(i, "op3"),
                    label |-> Fresh(i.label)]
    IN  [iloc |-> list \o [k \in DOMAIN c |-> Copy(list[c[k]])], labels |-> l + Cardinality(old),
         code |-> [k \in DOMAIN c |-> Len(list) + k]]

\* The store into a target whose address the code tcode computes.
AddressCode(target, tcode) == IF target.kind = "AST_VETOR_INDEXADO" THEN Front(tcode) ELSE <<>>
StoreInto(list, target, tcode, c) ==
    LET indexed == target.kind = "AST_VETOR_INDEXADO"
        home == Home[IF indexed THEN target.kids[1].name ELSE target.name]
    IN  IF indexed THEN Instruction("storeAO", op3(list, c), home.reg, op3(list, AddressCode(target, tcode)))
                   ELSE Instruction("storeAI", op3(list, c), home.reg, home.offset)

\* atribuicao_iloc of a value that is not a boolean, or a literal.
Stored(list, l, target, tcode, c) ==
    [iloc |-> Append(list, StoreInto(list, target, tcode, c)), labels |-> l,
     code |-> AddressCode(target, tcode) \o c \o <<Len(list) + 1>>]

\* The loads of a boolean, into one register; the second one into its own.
Load01Apart(true) == <<Instruction("loadI", 1, None, true), Instruction("loadI", 0, None, true + 2)>>
Load01(true) == <<Instruction("loadI", 1, None, true), Instruction("loadI", 0, None, true)>>

\* atribuicao_iloc: a boolean that is not a literal is turned into 0 or 1 by
\* a pair of loads the branches of the value, which left x, aim at.
Assigned(list, l, target, tcode, value, x) ==
    LET n == Len(list) + 1
        address == AddressCode(target, tcode)
        store == StoreInto(list, target, tcode, x.code)
        declared == Declared[IF target.kind = "AST_VETOR_INDEXADO" THEN target.kids[1].name ELSE target.name]
    IN  CASE value.kind = "AST_LITERAL" \/ ~Of(declared, {"bool"}) -> Stored(list, l, target, tcode, x.code)
          [] value.kind # "AST_LITERAL" /\ Of(declared, {"bool"}) /\ Negates(value) ->
               [iloc |-> list \o <<store, Instruction("loadAI", rbss, 0, n + 1)>>, labels |-> l,
                code |-> address \o <<n + 1, n>>]
          [] OTHER ->
               [iloc |-> Branch(list \o <<[store EXCEPT !.op1 = n + 1, !.label = l + 3],
                                          Load01(n + 1)[1], Instruction("jumpI", None, None, l + 3), Load01(n + 1)[2]>>,
                                x, n + 1, n + 3, l + 1),
                labels |-> l + 3, code |-> address \o x.code \o <<n + 1, n + 2, n + 3, n>>]

----------------------------------------------------------------------------
Init == /\ ast \in Programs /\ status = "parsed"
        /\ calls = <<>> /\ iloc = <<>> /\ labels = 0
        /\ MachineInit

\* The semantic actions of the parser; build_iloc_code gets an accepted tree,
\* under the root of the program.
Check == /\ status = "parsed"
         /\ status' = CASE Checked(ast) = "accepted" -> "generating"
                        [] Checked(ast) = "crash" -> "crashed"
                        [] OTHER -> "rejected"
         /\ calls' = IF Checked(ast) = "accepted" THEN <<Call(Node("AST_PROGRAMA", "", 0, <<ast>>), <<>>)>> ELSE <<>>
         /\ UNCHANGED <<ast, iloc, labels, machine>>

\* get_children_iloc_list calls code_generator for the next child.
Descend == /\ status = "generating" /\ Len(Top.cc) < Len(t0.kids)
           /\ calls' = Append(calls, Call(t0.kids[Len(Top.cc) + 1], <<>>))
           /\ UNCHANGED <<ast, status, iloc, labels, machine>>

\* The generator reads an instruction that is not there: the first of a code
\* that is empty, one of the last seven of main, or the missing target of a
\* branch it duplicates.
MissingIloc ==
    CASE t0.kind = "AST_IF" -> cc(1) = <<>> \/ cc(2) = <<>>
      [] t0.kind = "AST_IF_ELSE" -> cc(1) = <<>>
      [] t0.kind = "AST_WHILE_DO" -> cc(1) = <<>> \/ cc(2) = <<>>
      [] t0.kind = "AST_DO_WHILE" -> cc(1) = <<>>
      [] t0.kind = "AST_FOR" -> cc(2) = <<>> \/ cc(4) = <<>>
      [] t0.kind = "AST_RETURN" -> Whole = <<>>
      [] t0.kind = "AST_FUNCAO_MAIN" -> Len(Whole) < 6
      [] t0.kind = "AST_FOREACH" ->
           /\ t0.kids[2].kind = "AST_EXP_LIST"
           /\ \E i \in Range(cc(3)) : \E op \in Targets(iloc[i].type) : iloc[i][op] = None
      [] OTHER -> FALSE

\* The children of a node are done.
Ready == status = "generating" /\ Len(calls) > 1 /\ Len(Top.cc) = Len(t0.kids)

Visiting(kinds) ==
    /\ Ready /\ t0.kind \in kinds /\ ~MissingIloc
    /\ UNCHANGED <<ast, status, machine>>

\* The call ends, and the caller has what it leaves in the node.
Answer(x) ==
    LET caller == calls[Len(calls) - 1]
    IN  calls' = [k \in 1 .. Len(calls) - 1 |->
                    IF k = Len(calls) - 1 THEN Call(caller.tree, Append(caller.cc, x)) ELSE calls[k]]
Leave(c, rem_true, rem_false) == Answer(Left(c, rem_true, rem_false, <<c>>))

Crash == /\ Ready /\ MissingIloc
         /\ status' = "crashed"
         /\ UNCHANGED <<ast, calls, iloc, labels, machine>>

\* New instructions after the codes of the children, and nothing to patch.
Emit(before, new) ==
    /\ iloc' = iloc \o new
    /\ Leave(before \o [k \in DOMAIN new |-> Len(iloc) + k], {}, {})
    /\ UNCHANGED labels

r == Len(iloc) + 1   \* a register create_reg makes

Literal == /\ Visiting({"AST_LITERAL"})
           /\ Emit(<<>>, <<Instruction("loadI", t0.val, None, r)>>)

Variable == /\ Visiting({"AST_IDENTIFICADOR", "AST_ATRIBUTO"})
            /\ Emit(<<>>, <<Instruction("loadAI", Home[t0.name].reg, Home[t0.name].offset, r)>>)

Indexed ==
    /\ Visiting({"AST_VETOR_INDEXADO"})
    /\ LET home == Home[t0.kids[1].name]
       IN  Emit(cc(2), <<Instruction("multI", op3(iloc, cc(2)), 4, r),
                         Instruction("addI", r, home.offset, r + 1),
                         Instruction("loadAO", home.reg, r + 1, r + 2)>>)

Minus ==
    /\ Visiting({"AST_ARIM_INVERSAO"})
    /\ IF t0.kids[1].kind = "AST_LITERAL"
       THEN Emit(<<>>, <<Instruction("loadI", 0 - t0.kids[1].val, None, r)>>)
       ELSE Emit(cc(1), <<Instruction("rsubI", op3(iloc, cc(1)), 0, r)>>)

ast_to_iloc ==
    [AST_ARIM_SOMA |-> "add", AST_ARIM_SUBTRACAO |-> "sub", AST_ARIM_MULTIPLICACAO |-> "mult",
     AST_ARIM_DIVISAO |-> "div", AST_LOGICO_COMP_L |-> "cmp_LT", AST_LOGICO_COMP_G |-> "cmp_GT",
     AST_LOGICO_COMP_LE |-> "cmp_LE", AST_LOGICO_COMP_GE |-> "cmp_GE",
     AST_LOGICO_COMP_IGUAL |-> "cmp_EQ", AST_LOGICO_COMP_DIF |-> "cmp_NE",
     AST_SHIFT_LEFT |-> "lshiftI", AST_SHIFT_RIGHT |-> "rshiftI"]

Arithmetic ==
    /\ Visiting({"AST_ARIM_SOMA", "AST_ARIM_SUBTRACAO", "AST_ARIM_MULTIPLICACAO", "AST_ARIM_DIVISAO"})
    /\ Emit(cc(1) \o cc(2), <<Instruction(ast_to_iloc[t0.kind], op3(iloc, cc(1)), op3(iloc, cc(2)), r)>>)

Comparison ==
    /\ Visiting(Comparisons)
    /\ iloc' = iloc \o <<Instruction(ast_to_iloc[t0.kind], op3(iloc, cc(1)), op3(iloc, cc(2)), r),
                         Instruction("cbr", r, None, None)>>
    /\ Leave(cc(1) \o cc(2) \o <<r, r + 1>>, {Slot(r + 1, "op2")}, {Slot(r + 1, "op3")})
    /\ UNCHANGED labels

Not == /\ Visiting({"AST_LOGICO_COMP_NEGACAO"})
       /\ LET a == ShortCircuit(iloc, t0.kids[1], Of0(1))
          IN  iloc' = a.iloc /\ Leave(a.code, a.rem_false, a.rem_true)
       /\ UNCHANGED labels

\* The second operand is where the first one goes when it does not decide.
AndConcats ==   \* both lists are concatenated, like the one of the other side
    /\ Visiting({"AST_LOGICO_E"})
    /\ LET a == ShortCircuit(iloc, t0.kids[1], Of0(1))  b == ShortCircuit(a.iloc, t0.kids[2], Of0(2))
       IN  /\ iloc' = Aim(b.iloc, a.rem_true, Head(b.code), labels + 1)
           /\ Leave(a.code \o b.code, a.rem_true \cup b.rem_true, a.rem_false \cup b.rem_false)
    /\ labels' = labels + 1
And == /\ Visiting({"AST_LOGICO_E"})
       /\ LET a == ShortCircuit(iloc, t0.kids[1], Of0(1))  b == ShortCircuit(a.iloc, t0.kids[2], Of0(2))
          IN  /\ iloc' = Aim(b.iloc, a.rem_true, Head(b.code), labels + 1)
              /\ Leave(a.code \o b.code, b.rem_true, a.rem_false \cup b.rem_false)
       /\ labels' = labels + 1

Or == /\ Visiting({"AST_LOGICO_OU"})
      /\ LET a == ShortCircuit(iloc, t0.kids[1], Of0(1))  b == ShortCircuit(a.iloc, t0.kids[2], Of0(2))
         IN  /\ iloc' = Aim(b.iloc, a.rem_false, Head(b.code), labels + 1)
             /\ Leave(a.code \o b.code, a.rem_true \cup b.rem_true, b.rem_false)
      /\ labels' = labels + 1

Shift ==
    /\ Visiting({"AST_SHIFT_LEFT", "AST_SHIFT_RIGHT"})
    /\ LET home == Home[t0.kids[1].name]
       IN  /\ iloc' = iloc \o <<Instruction(ast_to_iloc[t0.kind], op3(iloc, cc(1)), t0.kids[2].val, r),
                                Instruction("storeAI", r, home.reg, home.offset)>>
           /\ Leave(cc(1) \o <<r, r + 1>> \o cc(3), {}, {})
    /\ UNCHANGED labels

Assign == /\ Visiting({"AST_ATRIBUICAO"})
          /\ LET a == Assigned(iloc, labels, t0.kids[1], cc(1), t0.kids[2], Of0(2))
             IN  iloc' = a.iloc /\ labels' = a.labels /\ Leave(a.code \o cc(3), {}, {})

If == /\ Visiting({"AST_IF"})
      /\ LET next == OrNop(iloc, cc(3))
         IN  /\ iloc' = Branch(next.iloc, Of0(1), Head(cc(2)), Head(next.code), labels + 1)
             /\ Leave(cc(1) \o cc(2) \o next.code, {}, {})
      /\ labels' = labels + 2

\* The first alternative ends with a jump to the next command.
IfElse ==
    /\ Visiting({"AST_IF_ELSE"})
    /\ LET next == OrNop(Append(iloc, Instruction("jumpI", None, None, labels + 1)), cc(4))
           no == OrNop(Aim(next.iloc, {}, Head(next.code), labels + 1), cc(3))
           yes == Append(cc(2), r)
       IN  /\ iloc' = Branch(no.iloc, Of0(1), Head(yes), Head(no.code), labels + 2)
           /\ Leave(cc(1) \o yes \o no.code \o next.code, {}, {})
    /\ labels' = labels + 3

\* The body is followed by the condition, which while jumps to first.
While ==
    /\ Visiting({"AST_WHILE_DO"})
    /\ LET entry == Aim(Append(iloc, Instruction("jumpI", None, None, labels + 1)), {}, Head(cc(2)), labels + 1)
           next == OrNop(entry, cc(3))
       IN  /\ iloc' = Branch(next.iloc, Of0(2), Head(cc(1)), Head(next.code), labels + 2)
           /\ Leave(<<r>> \o cc(1) \o cc(2) \o next.code, {}, {})
    /\ labels' = labels + 3

DoWhile ==
    /\ Visiting({"AST_DO_WHILE"})
    /\ LET next == OrNop(iloc, cc(3))
       IN  /\ iloc' = Branch(next.iloc, Of0(2), Head(cc(1)), Head(next.code), labels + 1)
           /\ Leave(cc(1) \o cc(2) \o next.code, {}, {})
    /\ labels' = labels + 2

ForStepsFirst ==   \* the second list before the body
    /\ Visiting({"AST_FOR"})
    /\ LET entry == Aim(Append(iloc, Instruction("jumpI", None, None, labels + 1)), {}, Head(cc(2)), labels + 1)
           next == OrNop(entry, cc(5))
       IN  /\ iloc' = Branch(next.iloc, Of0(2), Head(cc(3)), Head(next.code), labels + 2)
           /\ Leave(cc(1) \o <<r>> \o cc(3) \o cc(4) \o cc(2) \o next.code, {}, {})
    /\ labels' = labels + 3
For ==
    /\ Visiting({"AST_FOR"})
    /\ LET entry == Aim(Append(iloc, Instruction("jumpI", None, None, labels + 1)), {}, Head(cc(2)), labels + 1)
           next == OrNop(entry, cc(5))
       IN  /\ iloc' = Branch(next.iloc, Of0(2), Head(cc(4)), Head(next.code), labels + 2)
           /\ Leave(cc(1) \o <<r>> \o cc(4) \o cc(3) \o cc(2) \o next.code, {}, {})
    /\ labels' = labels + 3

\* The variable and the body are duplicated for every expression but the last:
\* what is there after k of them.
Repeated(acc, e) ==
    LET id == Dup(acc.iloc, acc.labels, cc(1))
        a == Stored(id.iloc, id.labels, t0.kids[1], id.code, e)
        block == Dup(a.iloc, a.labels, cc(3))
    IN  [iloc |-> block.iloc, labels |-> block.labels, id |-> id.code,
         code |-> acc.code \o a.code \o block.code]
Rounds(exps) ==
    LET after[k \in 0 .. Len(exps) - 1] ==
          IF k = 0 THEN [iloc |-> iloc, labels |-> labels, id |-> cc(1), code |-> <<>>]
          ELSE Repeated(after[k - 1], exps[k])
    IN  after

Foreach ==
    /\ Visiting({"AST_FOREACH"})
    /\ LET exps == Of0(2).exps
           before == Rounds(exps)[Len(exps) - 1]
           a == Stored(before.iloc, before.labels, t0.kids[1], before.id, Last(exps))
       IN  /\ iloc' = a.iloc /\ labels' = a.labels
           /\ Leave(before.code \o a.code \o cc(3) \o cc(4), {}, {})

\* A list has no code of its own, but its expressions keep theirs.
ExpList == /\ Visiting({"AST_EXP_LIST"})
           /\ Answer(Left(<<>>, {}, {}, <<cc(1)>> \o Of0(2).exps))
           /\ UNCHANGED <<iloc, labels>>

\* return_sequence: the result, the saved address, rsp and rarp, the jump back.
Return ==
    /\ Visiting({"AST_RETURN"})
    /\ Emit(Whole, <<Instruction("storeAI", op3(iloc, cc(Len(Top.cc))), rarp, 12),
                     Instruction("loadAI", rarp, 0, r + 1), Instruction("loadAI", rarp, 4, r + 2),
                     Instruction("loadAI", rarp, 8, r + 3), Instruction("i2i", r + 2, None, rsp),
                     Instruction("i2i", r + 3, None, rarp), Instruction("jump", None, None, r + 1)>>)

\* main reserves its variables first and halts at its seventh instruction from
\* the end, which is where the sequence of a final return starts.
KeptAll(c) == c   \* main keeps its return sequence
Kept(c) == SubSeq(c, 1, Len(c) - 6)
Locals == MapThenSumSet(LAMBDA n : 4 * Home[n].size, {n \in DOMAIN Home : Home[n].reg = rarp})
Main ==
    /\ Visiting({"AST_FUNCAO_MAIN"})
    /\ LET kept == Kept(<<r>> \o Whole)
           reserved == Append(iloc, [Instruction("addI", rsp, Locals, rsp) EXCEPT !.label = labels + 1])
       IN  /\ iloc' = [reserved EXCEPT ![Last(kept)] =
                         [Instruction("halt", None, None, None) EXCEPT !.label = reserved[Last(kept)].label]]
           /\ Leave(kept, {}, {})
    /\ labels' = labels + 1

\* Blocks, and the commands no code is generated for.
Default ==
    /\ Visiting({"AST_BLOCO", "AST_BREAK", "AST_CONTINUE", "AST_SWITCH", "AST_OUTPUT", "AST_INPUT",
                 "AST_ARIM_MOD", "AST_ARIM_POT"})
    /\ Leave(Whole, {}, {})
    /\ UNCHANGED <<iloc, labels>>

----------------------------------------------------------------------------
\* build_iloc_code adds the start, prints the text and frees the list.
Build ==
    /\ status = "generating" /\ Len(calls) = 1 /\ Len(Top.cc) = 1
    /\ LET body == [k \in DOMAIN cc(1) |-> iloc[cc(1)[k]]]
       IN  code' = <<Instruction("loadI", 1024, None, rarp), Instruction("loadI", 1024, None, rsp),
                     Instruction("loadI", Len(body) + 4, None, rbss),
                     Instruction("jumpI", None, None, Head(body).label)>> \o body
    /\ status' = "built"
    /\ calls' = <<>> /\ iloc' = <<>>
    /\ UNCHANGED <<ast, labels, ip, regs, mem, touched, writes, tests>>

Load == /\ status = "built"
        /\ IF Loads(code) THEN status' = "running" /\ code' = Resolved(code)
                          ELSE status' = "refused" /\ UNCHANGED code
        /\ UNCHANGED <<compiler, ip, regs, mem, touched, writes, tests>>

\* The simulator runs while there is an instruction.
Run == /\ status = "running" /\ ip < Len(code) /\ Len(writes) < MaxStores /\ tests < MaxTests
       /\ StepValue \/ StepStore \/ StepJump
       /\ UNCHANGED <<compiler, status>>

Stop == /\ status = "running" /\ ip >= Len(code)
        /\ status' = "halted"
        /\ UNCHANGED <<compiler, machine>>

Visit == Literal \/ Variable \/ Indexed \/ Minus \/ Arithmetic \/ Comparison \/ Not \/ And \/ Or \/ Shift
         \/ Assign \/ If \/ IfElse \/ While \/ DoWhile \/ For \/ Foreach \/ ExpList \/ Return \/ Main \/ Default

Next == Check \/ Descend \/ Crash \/ Visit \/ Build \/ Load \/ Run \/ Stop

\* Nothing can happen any more, or the bounds are reached.
Over == \/ status \in {"rejected", "crashed", "refused", "halted"}
        \/ status = "running" /\ ip < Len(code) /\ (Len(writes) = MaxStores \/ tests = MaxTests)

\* The compiler and the simulator do not stop on their own: WF_vars(Next) with
\* ~ENABLED <<Next>>_vars written out, which TLC evaluates far faster.
Fairness == []<>Over \/ []<><<TRUE>>_vars

Spec == Init /\ [][Next]_vars /\ Fairness

----------------------------------------------------------------------------
\* The instruction, label and slot numbers of a program of any size stay in
\* range: codes are made of instructions of iloc_list, and the slots that wait
\* are targets of branches that the same code holds.
TypeOK ==
    /\ status \in {"parsed", "rejected", "crashed", "generating", "built", "refused", "running", "halted"}
    /\ labels \in Nat /\ tests \in 0 .. MaxTests
    /\ \A k \in DOMAIN calls : \A n \in DOMAIN calls[k].cc :
          LET x == calls[k].cc[n]
          IN  /\ x.code \in Seq(DOMAIN iloc)
              /\ \A slot \in x.rem_true \cup x.rem_false :
                    slot.at \in Range(x.code) /\ slot.op \in Targets(iloc[slot.at].type)
    /\ \A i \in DOMAIN iloc : iloc[i].label = None \/ iloc[i].label \in 1 .. labels

\* An instruction has one place in the codes that the calls of code_generator
\* still hold, in those of the expressions of a list too: joining them never ties
\* a list of instructions into a ring or loses the rest of another one, also
\* where foreach needs a code more than once (append_iloc, iloc_dup).
CodesApart ==
    \A k, l \in DOMAIN calls : \A m \in DOMAIN calls[k].cc, n \in DOMAIN calls[l].cc :
       LET x == calls[k].cc[m]
           y == calls[l].cc[n]
       IN  /\ x.code \in {<<>>, Head(x.exps)}
           /\ \A d \in DOMAIN x.exps, e \in DOMAIN y.exps :
                 \A i \in DOMAIN x.exps[d], j \in DOMAIN y.exps[e] :
                    x.exps[d][i] = y.exps[e][j] => <<k, m, d, i>> = <<l, n, e, j>>

\* Once patched, a branch keeps its target until the text is printed or main
\* puts its halt in the place, through nested operators that share lists of
\* slots and bodies that are duplicated (patchup_true, patchup_false,
\* concat_true, concat_false, iloc_dup).
TargetsFinal ==
    [][iloc' # <<>> =>
         \A i \in DOMAIN iloc : \A op \in Targets(iloc[i].type) :
            (iloc[i][op] # None /\ iloc'[i].type # "halt") => iloc'[i][op] = iloc[i][op]]_vars
=============================================================================
