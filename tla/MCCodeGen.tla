----------------------------- MODULE MCCodeGen -----------------------------
(* Model checking CodeGen: the programs, from a few forms put together. *)
EXTENDS Translation

TypeOf == [i |-> "int", j |-> "int", x |-> "int", g |-> "int", b |-> "bool", c |-> "bool"]
MCDeclared ==
    [n \in DOMAIN TypeOf |-> decl_variable(Primitive[TypeOf[n]])]
    @@ [v |-> decl_vector(Primitive["int"]), u |-> decl_vector(Primitive["bool"]),
        s |-> decl_variable(Primitive["string"]), a |-> decl_variable(Primitive["int"])]
Local(offset) == [reg |-> rarp, offset |-> offset, size |-> 1]
Global(offset, size) == [reg |-> rbss, offset |-> offset, size |-> size]
MCHome ==
    [i |-> Local(0), j |-> Local(4), b |-> Local(8), c |-> Local(12), s |-> Local(16), a |-> Local(20),
     x |-> Global(0, 1), g |-> Global(4, 1), v |-> Global(8, 3), u |-> Global(20, 2)]

\* Expressions.
Lit(n) == Node("AST_LITERAL", "int", n, <<>>)
Truth(n) == Node("AST_LITERAL", "bool", n, <<>>)
Id(n) == Node("AST_IDENTIFICADOR", n, 0, <<>>)
Attribute == Node("AST_ATRIBUTO", "a", 0, <<>>)
Element(n, e) == Node("AST_VETOR_INDEXADO", "", 0, <<Id(n), e>>)
Op(kind, e, f) == Node(kind, "", 0, <<e, f>>)
Neg(e) == Node("AST_ARIM_INVERSAO", "", 0, <<e>>)
No(e) == Node("AST_LOGICO_COMP_NEGACAO", "", 0, <<e>>)
Less(e, f) == Op("AST_LOGICO_COMP_L", e, f)
Plus(e, f) == Op("AST_ARIM_SOMA", e, f)
Both(e, f) == Op("AST_LOGICO_E", e, f)
Either(e, f) == Op("AST_LOGICO_OU", e, f)

\* Commands; a sequence of them is linked as next commands.
Command(kind, kids) == Node(kind, "", 0, kids)
Let(n, e) == Command("AST_ATRIBUICAO", <<Id(n), e>>)
Initial(n, e) == [Let(n, e) EXCEPT !.name = "initial"]
Put(n, i, e) == Command("AST_ATRIBUICAO", <<Element(n, i), e>>)
Inc(n) == Let(n, Plus(Id(n), Lit(1)))
Chain(cs) == FoldRight(LAMBDA s, next : IF next = <<>> THEN <<s>>
                                        ELSE <<[s EXCEPT !.kids = s.kids \o next]>>, cs, <<>>)[1]
Then(e, cs) == Command("AST_IF", <<e, Chain(cs)>>)
Else(e, cs, ds) == Command("AST_IF_ELSE", <<e, Chain(cs), Chain(ds)>>)
WhileDo(e, cs) == Command("AST_WHILE_DO", <<Chain(cs), e>>)
Repeat(cs, e) == Command("AST_DO_WHILE", <<Chain(cs), e>>)
ForTo(n, e, cs) == Command("AST_FOR", <<Let(n, Lit(0)), e, Inc(n), Chain(cs)>>)
Each(n, es, cs) == Command("AST_FOREACH", <<Id(n), es, Chain(cs)>>)
List(e, f) == Command("AST_EXP_LIST", <<e, f>>)
Block(cs) == Command("AST_BLOCO", <<Chain(cs)>>)
Break == Command("AST_BREAK", <<>>)
Give(e) == Command("AST_RETURN", <<e>>)
Program(cs) == Node("AST_FUNCAO_MAIN", "main", 0, <<Chain(cs \o <<Give(Lit(0))>>)>>)

\* Conditions, in every nesting of two operators over three kinds of operand,
\* on every value of what they test.
Atoms == {Less(Id("x"), Lit(1)), Id("b"), Truth(1)}
Pairs == {Op(k, e, f) : k \in {"AST_LOGICO_E", "AST_LOGICO_OU"}, e \in Atoms, f \in Atoms}
Nested == UNION {{Both(p, No(Id("b"))), Either(p, Less(Id("x"), Lit(1))), Both(Id("b"), p),
                  Either(Less(Id("x"), Lit(1)), p)} : p \in Pairs}
Conditions == Pairs \cup {No(e) : e \in Atoms \cup Pairs} \cup Nested
              \cup {No(Truth(0)), Both(No(Truth(1)), Id("b")), Either(Truth(0), No(No(Id("b"))))}
Deciding ==
    {Program(<<Let("x", Lit(x)), Let("b", Truth(b)), Else(e, <<Let("i", Lit(1))>>, <<Let("i", Lit(2))>>)>>) :
       e \in Conditions, x \in {0, 1}, b \in {0, 1}}
Keeping ==
    {Program(<<Let("x", Lit(x)), Let("c", Truth(x)), Let("b", e)>>) :
       e \in (Conditions \ {No(Truth(0)), No(Truth(1))}) \ Nested, x \in {0, 1}}

\* Control structures in each other, with and without a next command.
Small == {Inc("g"), Put("v", Id("i"), Id("j")), Let("b", Less(Id("j"), Id("i")))}
Inner == Small
    \cup {Then(Less(Id("i"), Lit(1)), <<Inc("g")>>), Else(Less(Id("i"), Lit(1)), <<Inc("g")>>, <<Inc("x")>>),
          WhileDo(Less(Id("x"), Lit(2)), <<Inc("x")>>), Block(<<Repeat(<<Inc("x")>>, Less(Id("x"), Id("i")))>>),
          ForTo("j", Less(Id("j"), Lit(2)), <<Inc("g")>>), Each("x", List(Lit(5), Id("i")), <<Inc("g")>>)}
Outer(s) ==
    {Then(Less(Id("i"), Lit(1)), <<s>>), Else(Less(Lit(0), Id("i")), <<Inc("g")>>, <<s>>),
     WhileDo(Less(Id("i"), Lit(2)), <<Inc("i"), s>>), WhileDo(Less(Id("i"), Lit(2)), <<s, Inc("i")>>),
     Repeat(<<Inc("i"), s>>, Less(Id("i"), Lit(2))), ForTo("i", Less(Id("i"), Lit(2)), <<s>>),
     Each("i", List(Lit(1), List(Plus(Id("g"), Lit(1)), Lit(0))), <<s>>)}
Structured == {Program(<<o>>) : o \in UNION {Outer(s) : s \in Inner}}
              \cup {Program(<<o, n>>) : o \in UNION {Outer(s) : s \in Inner \ Small},
                                        n \in {Inc("j"), ForTo("j", Less(Id("j"), Lit(1)), <<Inc("i")>>)}}

Computing ==
    {Program(<<Let("i", Lit(3)), Let("x", e), Put("v", Lit(1), Id("x"))>>) :
       e \in {Neg(Lit(2)), Neg(Plus(Id("i"), Lit(1))), Op("AST_ARIM_SUBTRACAO", Id("i"), Neg(Id("i"))),
              Op("AST_ARIM_MULTIPLICACAO", Plus(Id("i"), Lit(1)), Element("v", Op("AST_ARIM_DIVISAO", Id("i"), Lit(2)))),
              Op("AST_ARIM_DIVISAO", Id("i"), Lit(2)), Attribute}}
    \cup {Program(<<Let("i", Lit(3)), Command("AST_SHIFT_LEFT", <<Id("i"), Lit(2)>>),
                    Command("AST_SHIFT_RIGHT", <<Id("i"), Lit(1)>>),
                    Command("AST_ATRIBUICAO", <<Attribute, Id("i")>>), Let("x", Attribute)>>),
          Program(<<Initial("i", Lit(3)), Initial("j", Id("i")), Initial("b", Truth(1)),
                    Each("c", List(Id("b"), Truth(0)), <<Let("i", Id("j"))>>)>>)}
    \cup {Program(<<Let("i", Lit(1)), Let("b", Op(k, Id("i"), Lit(1))),
                    Put("u", Id("i"), Op(k, Id("i"), Lit(0))), Then(No(Element("u", Id("i"))), <<Inc("g")>>)>>) :
            k \in Comparisons}

\* Programs the checks refuse, and accepted ones of which nothing is promised.
Refused == {Program(<<Let("b", e)>>) :
              e \in {Lit(5), Less(Id("i"), Id("b")), Both(Id("b"), Id("i")), Less(Id("s"), Lit(1)),
                     Op("AST_LOGICO_COMP_IGUAL", Id("b"), Lit(1)), No(Plus(Id("b"), Lit(1)))}}
    \cup {Program(<<Let("i", Id("b"))>>), Program(<<Then(Lit(1), <<Inc("i")>>)>>),
          Program(<<WhileDo(Id("i"), <<Inc("i")>>)>>), Program(<<Put("u", Lit(0), Lit(5))>>)}

Again == Repeat(<<Inc("i")>>, Less(Id("i"), Lit(2)))
Unpromising ==
    {Program(<<s>>) :
       s \in {Then(Id("b"), <<Inc("i")>>), WhileDo(Id("b"), <<Inc("i")>>), Let("b", Id("c")), Let("b", No(Truth(1))),
              Let("i", Element("v", Less(Id("i"), Lit(1)))), Let("b", Op("AST_LOGICO_COMP_IGUAL", Less(Id("i"), Lit(1)), Id("c"))),
              Let("i", Neg(Op("AST_ARIM_MOD", Id("i"), Lit(2)))), Then(No(Id("c")), <<Break>>),
              WhileDo(No(Id("c")), <<Block(<<Break>>)>>), ForTo("i", Less(Id("i"), Lit(2)), <<Break>>),
              Else(No(Id("c")), <<Break>>, <<Break>>), Repeat(<<Again>>, Less(Id("i"), Lit(2))),
              WhileDo(Less(Id("i"), Lit(2)), <<Again>>), Then(No(Id("c")), <<Block(<<Again>>)>>),
              ForTo("j", Less(Id("j"), Lit(2)), <<Again>>), Give(Less(Id("i"), Lit(1))),
              Each("i", List(Lit(1), Lit(2)), <<Let("x", Element("v", Less(Id("i"), Lit(1))))>>),
              Each("i", Lit(1), <<Let("x", Element("v", Less(Id("i"), Lit(1))))>>),
              Let("b", Both(Id("c"), Less(Attribute, Lit(1)))), Initial("b", Lit(5)), Initial("b", Id("c")),
              Each("b", List(Lit(5), Truth(0)), <<Inc("i")>>), Each("b", Less(Id("i"), Lit(1)), <<Inc("i")>>),
              Each("b", List(Both(Id("b"), Id("c")), Truth(1)), <<Inc("i")>>)}}
    \cup {Program(<<Give(Lit(1)), Inc("i")>>), Program(<<Then(No(Id("c")), <<Inc("j")>>), Again>>), Program(<<Again, Again>>),
          Program(<<Else(No(Id("c")), <<Inc("j")>>, <<Again>>)>>),
          Node("AST_FUNCAO_MAIN", "main", 0, <<Inc("i")>>),
          Node("AST_FUNCAO_MAIN", "main", 0, <<Chain(<<Inc("i"), Inc("j"), Inc("g")>>)>>)}

MCPrograms == Deciding \cup Keeping \cup Structured \cup Computing \cup Refused \cup Unpromising

\* A for whose condition is a variable that is true at first.
BareFor == {Program(<<Let("b", Truth(1)), Command("AST_FOR", <<Let("i", Lit(0)), Id("b"), Inc("i"), Let("b", Less(Id("i"), Lit(1)))>>)>>)}

\* The nodes of the programs, level by level.
Deeper(ts) == {IF i \in DOMAIN t.kids THEN t.kids[i] ELSE t : t \in ts, i \in 1 .. 6}
Upper1 == Deeper(MCPrograms \cup BareFor)
Upper2 == Deeper(Upper1)
Upper3 == Deeper(Upper2)
Upper4 == Deeper(Upper3)
MCTrees == Deeper(Upper4)
=============================================================================
