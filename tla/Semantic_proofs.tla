-------------------------- MODULE Semantic_proofs --------------------------
(***************************************************************************)
(* Scopes, declarations and the memory layout of Semantic, for every value *)
(* of its constants.  Names and scopes are proved of any program.  A class *)
(* with string fields has a wrong size (size_of counts -1 for each), so    *)
(* what depends on sizes is proved for programs whose classes have none.   *)
(***************************************************************************)
EXTENDS Semantic, WellFoundedInduction, SequenceTheorems, TLAPS

\* The scope stack has the globals and, inside a function, its scope, which
\* is the youngest; the local counter is zero between functions.
ScopeDiscipline ==
    /\ mode \in {"top", "fields", "done"} =>
         scope_stack = <<GLOBAL_SCOPE>> /\ current_scope = GLOBAL_SCOPE /\ local_address = 0
    /\ mode \in {"params", "body"} =>
         /\ scope_stack = <<GLOBAL_SCOPE, scope_counter>>
         /\ current_scope = scope_counter /\ scope_counter > 0
         /\ function_info # NULL
    /\ mode = "fields" => class_info # NULL

\* A class or function is complete once its name has the type of one.
NamesAreComplete ==
    \A id \in Ids :
        /\ type[id][GLOBAL_SCOPE] = DeclClass <=> classes[id] # NULL
        /\ type[id][GLOBAL_SCOPE] = DeclFunction <=> functions[id] # NULL
        /\ \A s \in ScopeIds : type[id][s] = Variable("ident") =>
             class_of[id][s] \in Ids /\ classes[class_of[id][s]] # NULL

\* Each function scope belongs to one function.
ScopesHaveOwners ==
    /\ \A f \in Ids : functions[f] # NULL =>
         /\ functions[f].scope \in 1 .. scope_counter
         /\ mode = "params" => functions[f].scope # scope_counter
    /\ \A f, g \in Ids :
         (functions[f] # NULL /\ functions[g] # NULL /\ functions[f].scope = functions[g].scope) => f = g
    /\ \A s \in 1 .. scope_counter :
         s = current_scope \/ \E f \in Ids : functions[f] # NULL /\ functions[f].scope = s
    /\ mode = "body" =>
         /\ functions[function_info.name] # NULL
         /\ functions[function_info.name].scope = scope_counter

\* Sizes are never negative.
SizesAreNatural ==
    /\ global_address >= 0 /\ local_address >= 0
    /\ class_info # NULL => class_info.bytes >= 0
    /\ \A c \in Ids : classes[c] # NULL => classes[c].size >= 0
    /\ \A id \in Ids, s \in ScopeIds : extent[id][s] >= 0 /\ (~Declared(id, s) => extent[id][s] = 0)

\* Every extent ends at or before the counter that allocated it, or, in a
\* closed scope, before the bytes its function keeps.
ExtentsAreAllocated ==
    \A id \in Ids, s \in ScopeIds : Stored(id, s) =>
        /\ 0 <= address[id][s]
        /\ s <= scope_counter
        /\ s = GLOBAL_SCOPE => address[id][s] + extent[id][s] <= global_address
        /\ (s # GLOBAL_SCOPE /\ s = current_scope) => address[id][s] + extent[id][s] <= local_address
        /\ \A f \in Ids : (functions[f] # NULL /\ functions[f].scope = s /\ s # current_scope) =>
             address[id][s] + extent[id][s] <= functions[f].local_var_size

IInv ==
    /\ Typed
    /\ ScopeDiscipline
    /\ NamesAreComplete
    /\ ScopesHaveOwners
    /\ SizesAreNatural
    /\ ExtentsAreAllocated
    /\ SlotsDisjoint

----------------------------------------------------------------------------
\* The codes of type[] are codes, and those of variables are no others.
LEMMA DeclTypeFacts ==
    /\ Undeclared \in DeclTypes /\ DeclClass \in DeclTypes /\ DeclFunction \in DeclTypes
    /\ \A t \in PrimTypes \cup {"ident"} : Variable(t) \in DeclTypes /\ Vector(t) \in DeclTypes
    /\ Undeclared # DeclClass /\ Undeclared # DeclFunction /\ DeclClass # DeclFunction
    /\ \A t : Variable(t) \notin {Undeclared, DeclClass, DeclFunction}
    /\ \A t : Vector(t) \notin {Undeclared, DeclClass, DeclFunction}
    /\ \A t, u : Variable(t) # Vector(u) /\ Vector(t).of = t /\ Variable(t).of = t
    /\ \A t, u : (Variable(t) = Variable(u) => t = u) /\ (Vector(t) = Vector(u) => t = u)
    /\ "ident" \notin PrimTypes
  BY DEF Undeclared, DeclClass, DeclFunction, Variable, Vector, DeclTypes, PrimTypes

\* size_of returns a number, and only the size of a string is negative.
LEMMA SizeOfFacts ==
    \A t \in PrimTypes : size_of(t) \in Int /\ (t # "string" => size_of(t) \in Nat)
  BY DEF size_of, PrimTypes

\* A set of naturals that is not empty has a least element.
LEMMA NatMin ==
    ASSUME NEW S, S \subseteq Nat, S # {}
    PROVE  \E x \in S : \A y \in S : x <= y
<1> DEFINE R == OpToRel(<, Nat)
<1>1. IsWellFoundedOn(R, Nat)
  BY NatLessThanWellFounded
<1>2. \A x, y \in Nat : y < x => <<y, x>> \in R
  BY DEF OpToRel
<1> HIDE DEF R
<1>3. PICK x \in S : \A y \in S : ~ (<<y, x>> \in R)
  BY <1>1, WFMin
<1>4. ASSUME NEW y \in S
      PROVE  x <= y
  <2>1. x \in Nat /\ y \in Nat
    OBVIOUS
  <2>2. ~ (y < x)
    BY <1>2, <1>3, <2>1, Zenon
  <2> QED
    BY <2>1, <2>2
<1> QED
  BY <1>4

\* The walk over the scope stack ends in a scope that declares the identifier.
LEMMA ResolveFacts ==
    ASSUME Typed, ScopeDiscipline, NEW id \in Ids, Resolve(id) # -1
    PROVE  Resolve(id) \in ScopeIds /\ Declared(id, Resolve(id))
<1> DEFINE hits == {i \in DOMAIN scope_stack : Declared(id, scope_stack[i])}
           top == CHOOSE i \in hits : \A j \in hits : j <= i
<1>1. hits # {} /\ Resolve(id) = scope_stack[top]
  BY DEF Resolve
<1>2. DOMAIN scope_stack \subseteq {1, 2}
  BY SMTT(30) DEF Typed, ScopeDiscipline
<1>3. \E m \in hits : \A j \in hits : j <= m
  <2>1. CASE 2 \in hits
    BY <1>2, <2>1
  <2>2. CASE 2 \notin hits
    BY <1>1, <1>2, <2>2
  <2> QED
    BY <2>1, <2>2
<1>4. top \in hits
  BY <1>3
<1> QED
  BY <1>1, <1>4 DEF Typed

\* set_attribute_address stops at a field of the class of the instance.
LEMMA AttributeFacts ==
    ASSUME Typed, ScopeDiscipline, NamesAreComplete, NEW id \in Ids, NEW attribute \in Ids,
           AttributeStatus(id, attribute) = "ok"
    PROVE  LET fields == classes[class_of[id][Resolve(id)]].fields
               i == CHOOSE i \in FieldHits(id, attribute) :
                        \A j \in FieldHits(id, attribute) : i <= j
           IN  /\ Resolve(id) \in ScopeIds /\ Resolve(id) # -1
               /\ type[id][Resolve(id)] = Variable("ident")
               /\ i \in DOMAIN fields /\ fields[i] \in Fields
<1> DEFINE class == class_of[id][Resolve(id)]
           fields == classes[class].fields
           hits == FieldHits(id, attribute)
<1>1. /\ Resolve(id) # -1 /\ hits # {}
      /\ type[id][Resolve(id)] = Variable("ident")
  BY DEF AttributeStatus
<1>2. Resolve(id) \in ScopeIds
  BY <1>1, ResolveFacts
<1>3. class \in Ids /\ classes[class] \in ClassDecls
  BY <1>1, <1>2 DEF NamesAreComplete, Typed
<1>4. fields \in Seq(Fields)
  BY <1>3 DEF ClassDecls
<1>5. hits \subseteq Nat /\ hits \subseteq DOMAIN fields
  BY <1>4 DEF FieldHits
<1>6. \E i \in hits : \A j \in hits : i <= j
  BY <1>1, <1>5, NatMin
<1>7. (CHOOSE i \in hits : \A j \in hits : i <= j) \in DOMAIN fields
  BY <1>5, <1>6
<1> QED
  BY <1>1, <1>2, <1>4, <1>7

----------------------------------------------------------------------------
\* Every check ends with one of the statuses.
LEMMA StatusFacts ==
    /\ \A id : VariableStatus(id) \in Statuses /\ VectorStatus(id) \in Statuses
    /\ \A id, attribute : AttributeStatus(id, attribute) \in Statuses
    /\ \A class : ClassStatus(class) \in Statuses
    /\ \A f, args : CallStatus(f, args) \in Statuses
<1>1. \A id : VariableStatus(id) \in Statuses
  BY DEF VariableStatus, Statuses
<1>2. \A id : VectorStatus(id) \in Statuses
  BY DEF VectorStatus, Statuses
<1>3. \A id, attribute : AttributeStatus(id, attribute) \in Statuses
  BY DEF AttributeStatus, Statuses
<1>4. \A class : ClassStatus(class) \in Statuses
  BY DEF ClassStatus, Statuses
<1>5. \A t, arg : ArgumentStatus(t, arg) \in Statuses
  BY DEF ArgumentStatus, Statuses
<1>6. \A f, args : CallStatus(f, args) \in Statuses
  BY <1>5 DEF CallStatus, Statuses
<1> QED
  BY <1>1, <1>2, <1>3, <1>4, <1>6

\* A failing check leaves the analysis as it is.
LEMMA FailTypes ==
    ASSUME Typed, NEW code \in Statuses, Fail(code)
    PROVE  Typed'
  BY DEF Typed, Fail, scopeVars, declVars, addressVars, useVars

\* The types of what the declare functions write.
DeclTypesOK ==
    /\ type \in [Ids -> [ScopeIds -> DeclTypes]]
    /\ address \in [Ids -> [ScopeIds -> Int]] /\ extent \in [Ids -> [ScopeIds -> Int]]
    /\ class_of \in [Ids -> [ScopeIds -> Ids \cup {NULL}]]
    /\ global_address \in Int /\ local_address \in Int

LEMMA EnterTypes ==
    ASSUME Typed, NEW id \in Ids, NEW t \in DeclTypes, NEW bytes \in Int,
           NEW class \in Ids \cup {NULL}, Enter(id, t, bytes, class)
    PROVE  DeclTypesOK'
<1>1. NextAddress \in Int
  BY DEF Typed, NextAddress
<1>2. type' \in [Ids -> [ScopeIds -> DeclTypes]]
  BY DEF Typed, Enter
<1>3. address' \in [Ids -> [ScopeIds -> Int]] /\ extent' \in [Ids -> [ScopeIds -> Int]]
  BY <1>1 DEF Typed, Enter
<1>4. class_of' \in [Ids -> [ScopeIds -> Ids \cup {NULL}]]
  BY DEF Typed, Enter
<1>5. global_address' \in Int /\ local_address' \in Int
  <2>1. global_address \in Int /\ local_address \in Int
    BY DEF Typed
  <2>2. CASE current_scope = GLOBAL_SCOPE
    BY <2>1, <2>2 DEF Enter, Allocate
  <2>3. CASE current_scope # GLOBAL_SCOPE
    BY <2>1, <2>3 DEF Enter, Allocate
  <2> QED
    BY <2>2, <2>3
<1> QED
  BY <1>2, <1>3, <1>4, <1>5 DEF DeclTypesOK

LEMMA EnterPrimitiveTypes ==
    ASSUME Typed, NEW id \in Ids, NEW t \in DeclTypes, NEW bytes \in Int,
           EnterPrimitive(id, t, bytes)
    PROVE  DeclTypesOK'
<1>1. CASE t.of = "string"
  <2>1. EnterString(id, t)
    BY <1>1 DEF EnterPrimitive
  <2>2. type' \in [Ids -> [ScopeIds -> DeclTypes]]
    BY <2>1 DEF Typed, EnterString
  <2>3. address' \in [Ids -> [ScopeIds -> Int]]
    <3>1. -1 \in Int
      OBVIOUS
    <3> QED
      BY <2>1, <3>1 DEF Typed, EnterString
  <2>4. UNCHANGED <<class_of, extent, global_address, local_address>>
    BY <2>1 DEF EnterString, addressVars
  <2> QED
    BY <2>2, <2>3, <2>4 DEF Typed, DeclTypesOK
<1>2. CASE t.of # "string"
  BY <1>2, EnterTypes DEF EnterPrimitive
<1> QED
  BY <1>1, <1>2

\* A node a check annotates has the types of one.
LEMMA NodeTypes ==
    ASSUME Typed, NEW kind \in {"variable", "vector", "attribute"}, NEW id \in Ids,
           NEW s \in ScopeIds, NEW offset \in Int, NEW bytes \in Int
    PROVE  Node(kind, id, s, offset, bytes) \in Nodes
<1>1. address[id][s] + offset \in Int
  BY DEF Typed
<1> QED
  BY <1>1 DEF Node, Nodes, Typed

LEMMA UseTypes ==
    ASSUME Typed, NEW code \in Statuses, NEW used, Use(code, used),
           code = "ok" => used \subseteq Nodes
    PROVE  Typed'
<1>1. CASE code # "ok"
  BY <1>1, FailTypes DEF Use
<1>2. CASE code = "ok"
  BY <1>2 DEF Typed, Use, scopeVars, declVars, addressVars
<1> QED
  BY <1>1, <1>2

\* declare, and declare_non_primitive.
LEMMA DeclareTypes ==
    ASSUME Typed, NEW id \in Ids, NEW t \in PrimTypes, Declare(id, t)
    PROVE  Typed'
<1>1. CASE Declared(id, current_scope)
  BY <1>1, FailTypes DEF Declare, Statuses
<1>2. CASE ~Declared(id, current_scope)
  <2>1. DeclTypesOK'
    BY <1>2, EnterPrimitiveTypes, DeclTypeFacts DEF Declare, INT_SIZE
  <2> QED
    BY <1>2, <2>1 DEF Declare, Typed, DeclTypesOK, scopeVars, useVars
<1> QED
  BY <1>1, <1>2

LEMMA DeclareInstanceTypes ==
    ASSUME Typed, NamesAreComplete, NEW class \in Ids, NEW id \in Ids, DeclareInstance(class, id)
    PROVE  Typed'
<1>1. CASE ClassStatus(class) # "ok"
  BY <1>1, FailTypes, StatusFacts DEF DeclareInstance
<1>2. CASE ClassStatus(class) = "ok" /\ Declared(id, current_scope)
  BY <1>2, FailTypes DEF DeclareInstance, Statuses
<1>3. CASE ClassStatus(class) = "ok" /\ ~Declared(id, current_scope)
  <2>1. classes[class] \in ClassDecls
    BY <1>3 DEF ClassStatus, NamesAreComplete, Typed
  <2>2. DeclTypesOK'
    BY <1>3, <2>1, EnterTypes, DeclTypeFacts DEF DeclareInstance, ClassDecls
  <2> QED
    BY <1>3, <2>2 DEF DeclareInstance, Typed, DeclTypesOK, scopeVars, useVars
<1> QED
  BY <1>1, <1>2, <1>3

\* end_scope leaves the globals alone on the stack.
LEMMA EndScopeFacts ==
    ASSUME Typed, ScopeDiscipline, mode = "body"
    PROVE  /\ SubSeq(scope_stack, 1, Len(scope_stack) - 1) = <<GLOBAL_SCOPE>>
           /\ \A s : s = <<GLOBAL_SCOPE>> => s[Len(s)] = GLOBAL_SCOPE
<1>1. scope_stack = <<GLOBAL_SCOPE, scope_counter>>
  BY DEF ScopeDiscipline
<1>2. Len(scope_stack) = 2 /\ scope_stack[1] = GLOBAL_SCOPE
  BY <1>1
<1>3. SubSeq(scope_stack, 1, 1) = <<GLOBAL_SCOPE>>
  <2> DEFINE rest == SubSeq(scope_stack, 1, 1)
  <2>1. \A i \in 1 .. 1 : scope_stack[i] \in Int
    BY <1>2 DEF GLOBAL_SCOPE
  <2>2. /\ rest \in Seq(Int)
        /\ Len(rest) = IF 1 <= 1 THEN 1 - 1 + 1 ELSE 0
        /\ \A i \in 1 .. 1 - 1 + 1 : rest[i] = scope_stack[1 + i - 1]
    BY <2>1, SubSeqProperties
  <2>3. Len(rest) = 1 /\ rest[1] = GLOBAL_SCOPE
    BY <1>2, <2>2
  <2>4. <<GLOBAL_SCOPE>> \in Seq(Int) /\ Len(<<GLOBAL_SCOPE>>) = 1
        /\ <<GLOBAL_SCOPE>>[1] = GLOBAL_SCOPE
    BY DEF GLOBAL_SCOPE
  <2> HIDE DEF rest
  <2>5. ASSUME NEW i \in 1 .. Len(rest) PROVE rest[i] = <<GLOBAL_SCOPE>>[i]
    <3>1. i = 1
      BY <2>3
    <3> QED
      BY <2>3, <2>4, <3>1
  <2>6. rest = <<GLOBAL_SCOPE>>
    BY <2>2, <2>3, <2>4, <2>5, SeqEqual
  <2> QED
    BY <2>6 DEF rest
<1>4. \A s : s = <<GLOBAL_SCOPE>> => s[Len(s)] = GLOBAL_SCOPE
  OBVIOUS
<1> QED
  BY <1>2, <1>3, <1>4

LEMMA ClassAddFieldTypes ==
    ASSUME Typed, ScopeDiscipline, NEW id \in FieldIds, NEW t \in FieldTypes, ClassAddField(id, t)
    PROVE  class_info' \in ClassInfos /\ Typed'
<1>1. class_info \in ClassInfos
  BY DEF ClassAddField, Running, ScopeDiscipline, Typed
<1>2. id \in Ids /\ t \in PrimTypes /\ size_of(t) \in Int
  BY SemanticAssumption, SizeOfFacts
<1>3. [id |-> id, type |-> t, offset |-> class_info.bytes] \in Fields
  BY <1>1, <1>2 DEF Fields, ClassInfos
<1>4. class_info' \in ClassInfos
  <2> DEFINE field == [id |-> id, type |-> t, offset |-> class_info.bytes]
  <2>1. Append(class_info.fields, field) \in Seq(Fields)
    BY <1>1, <1>3 DEF ClassInfos
  <2>2. class_info.bytes + size_of(t) \in Int
    BY <1>1, <1>2 DEF ClassInfos
  <2>3. class_info' = [class_info EXCEPT !.fields = Append(@, field), !.bytes = @ + size_of(t)]
    BY DEF ClassAddField
  <2> HIDE DEF field
  <2> QED
    BY <1>1, <2>1, <2>2, <2>3 DEF ClassInfos
<1> QED
  BY <1>4 DEF Typed, ClassAddField, Running, scopeVars, declVars, addressVars, useVars

LEMMA DeclareClassTypes ==
    ASSUME Typed, ScopeDiscipline, DeclareClass
    PROVE  Typed'
<1>1. class_info \in ClassInfos
  BY DEF DeclareClass, Running, ScopeDiscipline, Typed
<1>2. CASE Declared(class_info.class, GLOBAL_SCOPE)
  BY <1>2, FailTypes DEF DeclareClass, Statuses
<1>3. CASE ~Declared(class_info.class, GLOBAL_SCOPE)
  <2>1. [fields |-> class_info.fields, size |-> class_info.bytes] \in ClassDecls
    BY <1>1 DEF ClassInfos, ClassDecls
  <2>2. classes' \in [Ids -> ClassDecls \cup {NULL}]
    <3> DEFINE decl == [fields |-> class_info.fields, size |-> class_info.bytes]
    <3>1. class_info.class \in Ids
      BY <1>1 DEF ClassInfos
    <3>2. classes' = [classes EXCEPT ![class_info.class] = decl]
      BY <1>3 DEF DeclareClass
    <3>3. classes \in [Ids -> ClassDecls \cup {NULL}]
      BY DEF Typed
    <3>4. decl \in ClassDecls
      BY <2>1
    <3> HIDE DEF decl
    <3> QED
      BY <3>1, <3>2, <3>3, <3>4
  <2>3. type' \in [Ids -> [ScopeIds -> DeclTypes]]
    <3>1. class_info.class \in Ids /\ DeclClass \in DeclTypes /\ GLOBAL_SCOPE \in ScopeIds
      BY <1>1, SemanticAssumption, DeclTypeFacts DEF ClassInfos, GLOBAL_SCOPE, ScopeIds
    <3>2. type' = [type EXCEPT ![class_info.class][GLOBAL_SCOPE] = DeclClass]
      BY <1>3 DEF DeclareClass
    <3> QED
      BY <3>1, <3>2 DEF Typed
  <2> QED
    BY <1>3, <2>2, <2>3 DEF Typed, DeclareClass, Running, scopeVars, addressVars, useVars
<1> QED
  BY <1>2, <1>3

LEMMA CreateParamsTypes ==
    ASSUME Typed, NEW f \in Ids, NEW t \in ReturnTypes, CreateParams(f, t)
    PROVE  Typed'
<1>1. [name |-> f, type |-> t, params |-> <<>>] \in FunctionInfos
  BY SemanticAssumption DEF FunctionInfos
<1>2. scope_counter' \in ScopeIds
  BY SemanticAssumption DEF CreateParams, Typed, ScopeIds
<1>3. scope_stack' \in Seq(ScopeIds)
  BY <1>2 DEF CreateParams, Typed
<1> QED
  BY <1>1, <1>2, <1>3 DEF Typed, CreateParams, Running, declVars, addressVars, useVars

LEMMA AddParamTypes ==
    ASSUME Typed, ScopeDiscipline, NEW id \in Ids, NEW t \in VarTypes, AddParam(id, t)
    PROVE  Typed'
<1>1. function_info \in FunctionInfos /\ t \in PrimTypes
  BY SemanticAssumption DEF AddParam, Running, ScopeDiscipline, Typed
<1>2. CASE Declared(id, current_scope)
  BY <1>2, FailTypes DEF AddParam, Statuses
<1>3. CASE ~Declared(id, current_scope)
  <2>1. function_info' \in FunctionInfos
    <3> DEFINE param == [id |-> id, type |-> t]
    <3>1. Append(function_info.params, param) \in Seq(Params)
      BY <1>1 DEF FunctionInfos, Params
    <3>2. function_info' = [function_info EXCEPT !.params = Append(@, param)]
      BY <1>3 DEF AddParam
    <3> HIDE DEF param
    <3> QED
      BY <1>1, <3>1, <3>2 DEF FunctionInfos
  <2>2. DeclTypesOK'
    BY <1>1, <1>3, EnterPrimitiveTypes, DeclTypeFacts DEF AddParam, INT_SIZE
  <2> QED
    BY <1>3, <2>1, <2>2 DEF Typed, DeclTypesOK, AddParam, Running, scopeVars, useVars
<1> QED
  BY <1>2, <1>3

LEMMA DeclareFunctionTypes ==
    ASSUME Typed, ScopeDiscipline, DeclareFunction
    PROVE  Typed'
<1>1. function_info \in FunctionInfos
  BY DEF DeclareFunction, Running, ScopeDiscipline, Typed
<1>2. CASE Declared(function_info.name, GLOBAL_SCOPE)
  BY <1>2, FailTypes DEF DeclareFunction, Statuses
<1>3. CASE ~Declared(function_info.name, GLOBAL_SCOPE)
  <2>1. [type |-> function_info.type, params |-> function_info.params,
         scope |-> current_scope, local_var_size |-> 0] \in FunctionDecls
    BY <1>1 DEF FunctionInfos, FunctionDecls, Typed
  <2>2. functions' \in [Ids -> FunctionDecls \cup {NULL}]
    <3> DEFINE decl == [type |-> function_info.type, params |-> function_info.params,
                        scope |-> current_scope, local_var_size |-> 0]
    <3>1. function_info.name \in Ids
      BY <1>1 DEF FunctionInfos
    <3>2. functions' = [functions EXCEPT ![function_info.name] = decl]
      BY <1>3 DEF DeclareFunction
    <3>3. functions \in [Ids -> FunctionDecls \cup {NULL}]
      BY DEF Typed
    <3>4. decl \in FunctionDecls
      BY <2>1
    <3> HIDE DEF decl
    <3> QED
      BY <3>1, <3>2, <3>3, <3>4
  <2>3. type' \in [Ids -> [ScopeIds -> DeclTypes]]
    <3>1. function_info.name \in Ids /\ DeclFunction \in DeclTypes /\ GLOBAL_SCOPE \in ScopeIds
      BY <1>1, SemanticAssumption, DeclTypeFacts DEF FunctionInfos, GLOBAL_SCOPE, ScopeIds
    <3>2. type' = [type EXCEPT ![function_info.name][GLOBAL_SCOPE] = DeclFunction]
      BY <1>3 DEF DeclareFunction
    <3> QED
      BY <3>1, <3>2 DEF Typed
  <2> QED
    BY <1>3, <2>2, <2>3 DEF Typed, DeclareFunction, Running, scopeVars, addressVars, useVars
<1> QED
  BY <1>2, <1>3

LEMMA EndFunctionTypes ==
    ASSUME Typed, ScopeDiscipline, ScopesHaveOwners, EndFunction
    PROVE  Typed'
<1>1. mode = "body" /\ function_info \in FunctionInfos
  BY DEF EndFunction, Running, ScopeDiscipline, Typed
<1>2. GLOBAL_SCOPE \in ScopeIds
  BY SemanticAssumption DEF GLOBAL_SCOPE, ScopeIds
<1>3. scope_stack' = <<GLOBAL_SCOPE>> /\ current_scope' = GLOBAL_SCOPE
  BY <1>1, EndScopeFacts DEF EndFunction
<1>4. scope_stack' \in Seq(ScopeIds)
  BY <1>2, <1>3
<1>5. functions[function_info.name] \in FunctionDecls
  BY <1>1 DEF ScopesHaveOwners, Typed, FunctionInfos
<1>6. functions' \in [Ids -> FunctionDecls \cup {NULL}]
  BY <1>5 DEF EndFunction, Typed, FunctionDecls
<1>7. main_scope' \in ScopeIds
  BY DEF EndFunction, Typed
<1>8. local_address' \in Int
  BY DEF EndFunction
<1> QED
  BY <1>2, <1>3, <1>4, <1>6, <1>7, <1>8 DEF Typed, EndFunction, Running, declVars, useVars

\* The vectors of var_global.
LEMMA GlobalVectorTypes ==
    ASSUME Typed, NEW id \in Ids, NEW t \in VarTypes, NEW n \in VectorSizes, GlobalVector(id, t, n)
    PROVE  Typed'
<1>1. CASE Declared(id, current_scope)
  BY <1>1, FailTypes DEF GlobalVector, Statuses
<1>2. CASE ~Declared(id, current_scope)
  <2>1. n * INT_SIZE \in Int /\ Vector(t) \in DeclTypes
    BY SemanticAssumption, DeclTypeFacts DEF INT_SIZE
  <2>2. DeclTypesOK'
    BY <1>2, <2>1, EnterPrimitiveTypes DEF GlobalVector
  <2> QED
    BY <1>2, <2>2 DEF GlobalVector, Typed, DeclTypesOK, scopeVars, useVars
<1> QED
  BY <1>1, <1>2

LEMMA GlobalInstanceVectorTypes ==
    ASSUME Typed, NEW class \in Ids, NEW id \in Ids, NEW n \in VectorSizes,
           GlobalInstanceVector(class, id, n)
    PROVE  Typed'
<1> DEFINE size == IF classes[class] = NULL THEN 0 ELSE classes[class].size
<1>1. CASE Resolve(class) = -1
  BY <1>1, FailTypes DEF GlobalInstanceVector, Statuses
<1>2. CASE Resolve(class) # -1 /\ Declared(id, current_scope)
  BY <1>2, FailTypes DEF GlobalInstanceVector, Statuses
<1>3. CASE Resolve(class) # -1 /\ ~Declared(id, current_scope)
  <2>1. size \in Int
    BY DEF Typed, ClassDecls
  <2>2. n * size \in Int /\ Vector("ident") \in DeclTypes
    BY <2>1, SemanticAssumption, DeclTypeFacts
  <2>3. Enter(id, Vector("ident"), n * size, NULL)
    BY <1>3 DEF GlobalInstanceVector
  <2>4. DeclTypesOK'
    BY <2>2, <2>3, EnterTypes
  <2> QED
    BY <1>3, <2>4 DEF GlobalInstanceVector, Typed, DeclTypesOK, scopeVars, useVars
<1> QED
  BY <1>1, <1>2, <1>3

\* The uses of a body.
LEMMA UseVariableTypes ==
    ASSUME Typed, ScopeDiscipline, NEW id \in Ids,
           UseVariable(id) \/ UseVector(id) \/ \E value \in Expressions : Assign(id, value)
    PROVE  Typed'
<1>1. Resolve(id) # -1 => \A kind \in {"variable", "vector", "attribute"} :
        Node(kind, id, Resolve(id), 0, INT_SIZE) \in Nodes
  BY ResolveFacts, NodeTypes DEF INT_SIZE
<1>2. VariableStatus(id) = "ok" => Resolve(id) # -1
  BY DEF VariableStatus
<1>3. VectorStatus(id) = "ok" => Resolve(id) # -1
  BY DEF VectorStatus
<1>4. CASE UseVariable(id)
  BY <1>1, <1>2, <1>4, UseTypes, StatusFacts DEF UseVariable
<1>5. CASE UseVector(id)
  BY <1>1, <1>3, <1>5, UseTypes, StatusFacts DEF UseVector
<1>6. ASSUME NEW value \in Expressions, Assign(id, value)
      PROVE  Typed'
  <2> DEFINE code == IF VariableStatus(id) = "ok" /\ type[id][Resolve(id)].of # value.type.of
                     THEN "crash" ELSE VariableStatus(id)
  <2>1. Use(code, {Node("variable", id, Resolve(id), 0, INT_SIZE)})
    BY <1>6 DEF Assign
  <2>2. code \in Statuses /\ (code = "ok" => VariableStatus(id) = "ok")
    BY StatusFacts DEF Statuses
  <2> HIDE DEF code
  <2> QED
    BY <1>1, <1>2, <2>1, <2>2, UseTypes
<1> QED
  BY <1>4, <1>5, <1>6

LEMMA UseAttributeTypes ==
    ASSUME Typed, ScopeDiscipline, NamesAreComplete, NEW id \in Ids, NEW attribute \in Ids,
           UseAttribute(id, attribute)
    PROVE  Typed'
<1> DEFINE field == classes[class_of[id][Resolve(id)]].fields
                      [CHOOSE i \in FieldHits(id, attribute) :
                           \A j \in FieldHits(id, attribute) : i <= j]
           used == {Node("attribute", id, Resolve(id), field.offset, size_of(field.type))}
<1>1. Use(AttributeStatus(id, attribute), used)
  BY DEF UseAttribute
<1>2. AttributeStatus(id, attribute) = "ok" => Resolve(id) \in ScopeIds /\ field \in Fields
  BY AttributeFacts
<1> HIDE DEF field
<1>3. AttributeStatus(id, attribute) = "ok" => used \subseteq Nodes
  BY <1>2, NodeTypes, SizeOfFacts DEF Fields
<1> HIDE DEF used
<1> QED
  BY <1>1, <1>3, UseTypes, StatusFacts

LEMMA InitializedVariableTypes ==
    ASSUME Typed, ScopeDiscipline, NEW id \in Ids, NEW source \in Ids, NEW t \in VarTypes,
           InitializedVariable(id, t, source)
    PROVE  Typed'
<1>1. CASE VariableStatus(source) # "ok"
  BY <1>1, FailTypes, StatusFacts DEF InitializedVariable
<1>2. CASE VariableStatus(source) = "ok" /\ Declared(id, current_scope)
  BY <1>2, FailTypes DEF InitializedVariable, Statuses
<1>3. CASE VariableStatus(source) = "ok" /\ ~Declared(id, current_scope)
  <2>1. DeclTypesOK'
    BY <1>3, SemanticAssumption, EnterPrimitiveTypes, DeclTypeFacts DEF InitializedVariable, INT_SIZE
  <2>2. Resolve(source) \in ScopeIds
    BY <1>3, ResolveFacts DEF VariableStatus
  <2>3. Node("variable", source, Resolve(source), 0, INT_SIZE) \in Nodes
    BY <2>2, NodeTypes DEF INT_SIZE
  <2>4. address'[id][current_scope] \in Int
    BY <2>1 DEF DeclTypesOK, Typed
  <2>5. [kind |-> "variable", id |-> id, at |-> current_scope, scope |-> current_scope,
         address |-> address'[id][current_scope], bytes |-> INT_SIZE] \in Nodes
    BY <2>4 DEF Nodes, Typed, INT_SIZE
  <2>6. nodes' \subseteq Nodes
    BY <1>3, <2>3, <2>5 DEF InitializedVariable, Typed
  <2> QED
    BY <1>3, <2>1, <2>6 DEF InitializedVariable, Typed, DeclTypesOK, scopeVars
<1> QED
  BY <1>1, <1>2, <1>3

LEMMA CallTypes ==
    ASSUME Typed, NEW f \in Ids, NEW args \in Arguments, Call(f, args)
    PROVE  Typed'
<1>1. CASE CallStatus(f, args) # "ok"
  BY <1>1, FailTypes, StatusFacts DEF Call
<1>2. CASE CallStatus(f, args) = "ok"
  BY <1>2 DEF Call, Typed, scopeVars, declVars, addressVars
<1> QED
  BY <1>1, <1>2

\* Every step keeps the types.
LEMMA TypesNext ==
    ASSUME Typed, ScopeDiscipline, NamesAreComplete, ScopesHaveOwners, [Next]_vars
    PROVE  Typed'
<1>1. ASSUME NEW id \in Ids, NEW t \in VarTypes, GlobalVariable(id, t) \/ LocalVariable(id, t)
      PROVE  Typed'
  BY <1>1, SemanticAssumption, DeclareTypes DEF GlobalVariable, LocalVariable
<1>2. ASSUME NEW class \in Ids, NEW id \in Ids, GlobalInstance(class, id) \/ LocalInstance(class, id)
      PROVE  Typed'
  BY <1>2, DeclareInstanceTypes DEF GlobalInstance, LocalInstance
<1>3. ASSUME NEW class \in Ids, CreateClassFields(class)
      PROVE  Typed'
  <2>1. [class |-> class, fields |-> <<>>, bytes |-> 0] \in ClassInfos
    BY DEF ClassInfos
  <2> QED
    BY <1>3, <2>1 DEF Typed, CreateClassFields, Running, scopeVars, declVars, addressVars, useVars
<1>4. ASSUME EndProgram
      PROVE  Typed'
  BY <1>4 DEF Typed, EndProgram, Running, scopeVars, declVars, addressVars, useVars
<1>5. CASE UNCHANGED vars
  BY <1>5 DEF Typed, vars, scopeVars, declVars, addressVars, useVars
<1>6. CASE TopLevel
  BY <1>1, <1>2, <1>3, <1>4, <1>6, GlobalVectorTypes, GlobalInstanceVectorTypes, ClassAddFieldTypes,
     DeclareClassTypes, CreateParamsTypes, AddParamTypes, DeclareFunctionTypes, EndFunctionTypes
     DEF TopLevel
<1>7. CASE Body
  BY <1>1, <1>2, <1>7, InitializedVariableTypes, UseVariableTypes, UseAttributeTypes, CallTypes
     DEF Body
<1> QED
  BY <1>5, <1>6, <1>7 DEF Next

----------------------------------------------------------------------------
\* What a step can be, as far as the layout is concerned.

NoStringFields == "string" \notin FieldTypes

\* When the sizes come out right.
Sized == NoStringFields /\ SizesAreNatural

SameFunction ==
    function_info' = function_info
    \/ (function_info # NULL /\ function_info' \in FunctionInfos
         /\ function_info'.name = function_info.name)

\* A step that moves no variable: a failure, a checked use, the fields of a class.
Quiet ==
    /\ UNCHANGED <<scopeVars, declVars, classes, functions, function_info, addressVars>>
    /\ mode' = mode \/ (mode = "top" /\ mode' \in {"fields", "done"})
    /\ class_info' = class_info
         \/ (class_info' \in ClassInfos /\ (Sized => class_info'.bytes >= 0))
    /\ (mode' = "fields" /\ mode = "top") => class_info' \in ClassInfos

\* A variable gets its place.
Placed(id, t, bytes, class) ==
    /\ ~Declared(id, current_scope)
    /\ t \notin {Undeclared, DeclClass, DeclFunction}
    /\ Sized => bytes \in Nat
    /\ t = Variable("ident") =>
         class \in Ids /\ classes[class] # NULL /\ bytes = classes[class].size
    /\ Enter(id, t, bytes, class)
    /\ SameFunction
    /\ UNCHANGED <<scopeVars, classes, functions, class_info, mode>>

\* A string gets none.
PlacedString(id, t) ==
    /\ ~Declared(id, current_scope)
    /\ t \notin {Undeclared, DeclClass, DeclFunction, Variable("ident")}
    /\ EnterString(id, t)
    /\ SameFunction
    /\ UNCHANGED <<scopeVars, classes, functions, class_info, mode>>

PlacedSome ==
    \/ \E id \in Ids, t \in DeclTypes, bytes \in Int, class \in Ids \cup {NULL} :
          Placed(id, t, bytes, class)
    \/ \E id \in Ids, t \in DeclTypes : PlacedString(id, t)

\* The name of a class or of a function gets its type.
Named(id, t) ==
    /\ ~Declared(id, GLOBAL_SCOPE)
    /\ type' = [type EXCEPT ![id][GLOBAL_SCOPE] = t]
    /\ UNCHANGED <<scopeVars, address, class_of, extent, addressVars, class_info, function_info>>

ClassNamed ==
    /\ Named(class_info.class, DeclClass)
    /\ mode = "fields" /\ mode' = "top"
    /\ classes' = [classes EXCEPT ![class_info.class] =
                     [fields |-> class_info.fields, size |-> class_info.bytes]]
    /\ UNCHANGED functions

FunctionNamed ==
    /\ Named(function_info.name, DeclFunction)
    /\ mode = "params" /\ mode' = "body"
    /\ functions' = [functions EXCEPT ![function_info.name] =
                       [type |-> function_info.type, params |-> function_info.params,
                        scope |-> current_scope, local_var_size |-> 0]]
    /\ UNCHANGED classes

Opened == \E f \in Ids, t \in ReturnTypes : CreateParams(f, t)

\* What holds of the names and scopes of any program.
Names ==
    /\ Typed /\ ScopeDiscipline /\ NamesAreComplete /\ ScopesHaveOwners

LEMMA FailIsQuiet == \A code : Fail(code) => Quiet
  BY DEF Fail, Quiet

LEMMA PrimitiveIsPlaced ==
    ASSUME Typed, NEW id \in Ids, NEW u \in PrimTypes, NEW t \in {Variable(u), Vector(u)},
           NEW bytes \in Nat, ~Declared(id, current_scope), EnterPrimitive(id, t, bytes),
           SameFunction, UNCHANGED <<scopeVars, classes, functions, class_info, mode>>
    PROVE  PlacedSome
<1>1. /\ t \in DeclTypes /\ t \notin {Undeclared, DeclClass, DeclFunction}
      /\ t # Variable("ident") /\ t # Vector("ident")
  <2>1. u # "ident"
    BY DeclTypeFacts
  <2> QED
    BY <2>1, DeclTypeFacts
<1>2. CASE t.of = "string"
  BY <1>1, <1>2 DEF EnterPrimitive, PlacedString, PlacedSome
<1>3. CASE t.of # "string"
  BY <1>1, <1>3 DEF EnterPrimitive, Placed, PlacedSome
<1> QED
  BY <1>2, <1>3

LEMMA DeclareIsPlaced ==
    ASSUME Typed, NEW id \in Ids, NEW t \in PrimTypes, Declare(id, t)
    PROVE  Quiet \/ PlacedSome
<1>1. CASE Declared(id, current_scope)
  BY <1>1, FailIsQuiet DEF Declare
<1>2. CASE ~Declared(id, current_scope)
  BY <1>2, PrimitiveIsPlaced DEF Declare, SameFunction, INT_SIZE
<1> QED
  BY <1>1, <1>2

LEMMA InstanceIsPlaced ==
    ASSUME Names, NEW class \in Ids, NEW id \in Ids, DeclareInstance(class, id)
    PROVE  Quiet \/ PlacedSome
<1>1. CASE ClassStatus(class) # "ok" \/ Declared(id, current_scope)
  BY <1>1, FailIsQuiet DEF DeclareInstance
<1>2. CASE ClassStatus(class) = "ok" /\ ~Declared(id, current_scope)
  <2>1. classes[class] # NULL /\ classes[class] \in ClassDecls
    BY <1>2 DEF ClassStatus, Names, NamesAreComplete, Typed
  <2>2. classes[class].size \in Int /\ (Sized => classes[class].size \in Nat)
    BY <2>1 DEF Sized, SizesAreNatural, ClassDecls
  <2>3. Placed(id, Variable("ident"), classes[class].size, class)
    BY <1>2, <2>1, <2>2, DeclTypeFacts DEF DeclareInstance, Placed, SameFunction, scopeVars
  <2> QED
    BY <2>2, <2>3, DeclTypeFacts DEF PlacedSome
<1> QED
  BY <1>1, <1>2

LEMMA VectorIsPlaced ==
    ASSUME Names, NEW id \in Ids, NEW n \in VectorSizes,
           \/ \E t \in VarTypes : GlobalVector(id, t, n)
           \/ \E class \in Ids : GlobalInstanceVector(class, id, n)
    PROVE  Quiet \/ PlacedSome
<1>1. n \in Nat
  BY SemanticAssumption
<1>2. ASSUME NEW t \in VarTypes, GlobalVector(id, t, n)
      PROVE  Quiet \/ PlacedSome
  <2>1. CASE Declared(id, current_scope)
    BY <1>2, <2>1, FailIsQuiet DEF GlobalVector
  <2>2. CASE ~Declared(id, current_scope)
    <3>1. n * INT_SIZE \in Nat /\ t \in PrimTypes
      BY <1>1, SemanticAssumption DEF INT_SIZE
    <3> QED
      BY <1>2, <2>2, <3>1, PrimitiveIsPlaced DEF GlobalVector, SameFunction, Names
  <2> QED
    BY <2>1, <2>2
<1>3. ASSUME NEW class \in Ids, GlobalInstanceVector(class, id, n)
      PROVE  Quiet \/ PlacedSome
  <2> DEFINE size == IF classes[class] = NULL THEN 0 ELSE classes[class].size
  <2>1. CASE Resolve(class) = -1 \/ Declared(id, current_scope)
    BY <1>3, <2>1, FailIsQuiet DEF GlobalInstanceVector
  <2>2. CASE Resolve(class) # -1 /\ ~Declared(id, current_scope)
    <3>1. size \in Int /\ (Sized => size \in Nat)
      BY DEF Names, Typed, ClassDecls, Sized, SizesAreNatural
    <3>2. (\A m \in Int : n * m \in Int) /\ (\A m \in Nat : n * m \in Nat)
      BY <1>1
    <3>3. Enter(id, Vector("ident"), n * size, NULL)
      BY <1>3, <2>2 DEF GlobalInstanceVector
    <3>4. UNCHANGED <<scopeVars, classes, functions, class_info, function_info, mode>>
      BY <1>3, <2>2 DEF GlobalInstanceVector
    <3> HIDE DEF size
    <3>5. Placed(id, Vector("ident"), n * size, NULL)
      BY <2>2, <3>1, <3>2, <3>3, <3>4, DeclTypeFacts DEF Placed, SameFunction
    <3> QED
      BY <3>1, <3>2, <3>5, DeclTypeFacts DEF PlacedSome
  <2> QED
    BY <2>1, <2>2
<1> QED
  BY <1>2, <1>3

\* The fields of a class: quiet, and its bytes stay natural.
LEMMA FieldsAreQuiet ==
    ASSUME Names, Typed',
           \/ \E class \in Ids : CreateClassFields(class)
           \/ \E id \in FieldIds, t \in FieldTypes : ClassAddField(id, t)
    PROVE  Quiet
<1>1. ASSUME NEW class \in Ids, CreateClassFields(class)
      PROVE  Quiet
  <2>1. [class |-> class, fields |-> <<>>, bytes |-> 0] \in ClassInfos
    BY DEF ClassInfos
  <2> QED
    BY <1>1, <2>1 DEF CreateClassFields, Running, Quiet
<1>2. ASSUME NEW id \in FieldIds, NEW t \in FieldTypes, ClassAddField(id, t)
      PROVE  Quiet
  <2>1. NoStringFields => size_of(t) \in Nat
    BY SemanticAssumption, SizeOfFacts DEF NoStringFields
  <2>2. class_info \in ClassInfos /\ (Sized => class_info.bytes \in Nat)
    <3>1. class_info \in ClassInfos /\ class_info # NULL
      BY <1>2 DEF ClassAddField, Running, Names, ScopeDiscipline, Typed
    <3> QED
      BY <3>1 DEF ClassInfos, Sized, SizesAreNatural
  <2>3. class_info'.bytes = class_info.bytes + size_of(t)
    <3> DEFINE fields == Append(class_info.fields,
                                [id |-> id, type |-> t, offset |-> class_info.bytes])
    <3>1. class_info' = [class_info EXCEPT !.fields = fields, !.bytes = @ + size_of(t)]
      BY <1>2 DEF ClassAddField
    <3> HIDE DEF fields
    <3>2. class_info = [class |-> class_info.class, fields |-> class_info.fields,
                        bytes |-> class_info.bytes]
      BY <2>2 DEF ClassInfos
    <3>3. class_info' = [class |-> class_info.class, fields |-> fields,
                         bytes |-> class_info.bytes + size_of(t)]
      BY <3>1, <3>2
    <3> QED
      BY <3>3
  <2>4. class_info' \in ClassInfos
    BY <1>2, ClassAddFieldTypes DEF Names
  <2>5. Sized => class_info'.bytes >= 0
    BY <2>1, <2>2, <2>3 DEF Sized
  <2>6. /\ UNCHANGED <<scopeVars, declVars, classes, functions, function_info, addressVars, mode>>
        /\ mode = "fields"
    BY <1>2 DEF ClassAddField, Running
  <2> QED
    BY <2>4, <2>5, <2>6 DEF Quiet
<1> QED
  BY <1>1, <1>2

LEMMA StepShapes ==
    ASSUME Names, Typed', [Next]_vars
    PROVE  Quiet \/ PlacedSome \/ ClassNamed \/ FunctionNamed \/ Opened \/ EndFunction
<1>1. ASSUME NEW id \in Ids, NEW t \in VarTypes, GlobalVariable(id, t) \/ LocalVariable(id, t)
      PROVE  Quiet \/ PlacedSome
  BY <1>1, SemanticAssumption, DeclareIsPlaced DEF GlobalVariable, LocalVariable, Names
<1>2. ASSUME NEW class \in Ids, NEW id \in Ids, GlobalInstance(class, id) \/ LocalInstance(class, id)
      PROVE  Quiet \/ PlacedSome
  BY <1>2, InstanceIsPlaced DEF GlobalInstance, LocalInstance
<1>3. ASSUME DeclareClass
      PROVE  Quiet \/ ClassNamed
  BY <1>3, FailIsQuiet DEF DeclareClass, Running, ClassNamed, Named
<1>4. ASSUME DeclareFunction
      PROVE  Quiet \/ FunctionNamed
  BY <1>4, FailIsQuiet DEF DeclareFunction, Running, FunctionNamed, Named
<1>5. ASSUME NEW id \in Ids, NEW t \in VarTypes, AddParam(id, t)
      PROVE  Quiet \/ PlacedSome
  <2>1. CASE Declared(id, current_scope)
    BY <1>5, <2>1, FailIsQuiet DEF AddParam
  <2>2. CASE ~Declared(id, current_scope)
    <3>1. function_info \in FunctionInfos /\ function_info # NULL
      BY <1>5 DEF AddParam, Running, Names, ScopeDiscipline, Typed
    <3>2. function_info' \in FunctionInfos
      <4> DEFINE param == [id |-> id, type |-> t]
      <4>1. Append(function_info.params, param) \in Seq(Params)
        BY <3>1, SemanticAssumption DEF FunctionInfos, Params
      <4>2. function_info' = [function_info EXCEPT !.params = Append(@, param)]
        BY <1>5, <2>2 DEF AddParam
      <4> HIDE DEF param
      <4> QED
        BY <3>1, <4>1, <4>2 DEF FunctionInfos
    <3>3. function_info'.name = function_info.name
      BY <1>5, <2>2, <3>1 DEF AddParam, FunctionInfos
    <3>4. SameFunction
      BY <3>1, <3>2, <3>3 DEF SameFunction
    <3>5. UNCHANGED <<scopeVars, classes, functions, class_info, mode>>
      BY <1>5, <2>2 DEF AddParam
    <3>6. t \in PrimTypes /\ EnterPrimitive(id, Variable(t), INT_SIZE) /\ INT_SIZE \in Nat
      BY <1>5, <2>2, SemanticAssumption DEF AddParam, INT_SIZE
    <3>7. Variable(t) \in {Variable(t), Vector(t)}
      OBVIOUS
    <3> QED
      BY <2>2, <3>4, <3>5, <3>6, <3>7, PrimitiveIsPlaced DEF Names
  <2> QED
    BY <2>1, <2>2
<1>6. ASSUME NEW id \in Ids, NEW source \in Ids, NEW t \in VarTypes, InitializedVariable(id, t, source)
      PROVE  Quiet \/ PlacedSome
  <2>1. CASE VariableStatus(source) # "ok" \/ Declared(id, current_scope)
    BY <1>6, <2>1, FailIsQuiet DEF InitializedVariable
  <2>2. CASE VariableStatus(source) = "ok" /\ ~Declared(id, current_scope)
    <3>1. /\ SameFunction
          /\ UNCHANGED <<scopeVars, classes, functions, class_info, mode>>
      BY <1>6, <2>2 DEF InitializedVariable, SameFunction
    <3>2. t \in PrimTypes /\ EnterPrimitive(id, Variable(t), INT_SIZE) /\ INT_SIZE \in Nat
      BY <1>6, <2>2, SemanticAssumption DEF InitializedVariable, INT_SIZE
    <3>3. Variable(t) \in {Variable(t), Vector(t)}
      OBVIOUS
    <3> QED
      BY <2>2, <3>1, <3>2, <3>3, PrimitiveIsPlaced DEF Names
  <2> QED
    BY <2>1, <2>2
<1>7. \A code, used : Use(code, used) => Quiet
  BY FailIsQuiet DEF Use, Quiet
<1>8. ASSUME NEW id \in Ids,
             \/ UseVariable(id) \/ UseVector(id)
             \/ \E attribute \in Ids : UseAttribute(id, attribute)
             \/ \E value \in Expressions : Assign(id, value)
      PROVE  Quiet
  BY <1>7, <1>8 DEF UseVariable, UseVector, UseAttribute, Assign
<1>9. ASSUME NEW f \in Ids, NEW args \in Arguments, Call(f, args)
      PROVE  Quiet
  BY <1>9, FailIsQuiet DEF Call, Quiet
<1>10. ASSUME EndProgram
       PROVE  Quiet
  BY <1>10 DEF EndProgram, Running, Quiet
<1>11. CASE UNCHANGED vars
  BY <1>11 DEF vars, Quiet
<1>12. CASE TopLevel
  BY <1>1, <1>2, <1>3, <1>4, <1>5, <1>10, <1>12, VectorIsPlaced, FieldsAreQuiet DEF TopLevel, Opened
<1>13. CASE Body
  BY <1>1, <1>2, <1>6, <1>8, <1>9, <1>13 DEF Body
<1> QED
  BY <1>11, <1>12, <1>13 DEF Next

----------------------------------------------------------------------------
\* Names and scopes, kept by each of these steps.

LEMMA QuietKeepsNames ==
    ASSUME Names, Quiet, Typed'
    PROVE  Names'
<1>1. UNCHANGED <<scope_stack, current_scope, scope_counter, type, address, class_of, extent,
                  classes, functions, function_info, global_address, local_address>>
  BY DEF Quiet, scopeVars, declVars, addressVars
<1>2. /\ mode' = mode \/ (mode = "top" /\ mode' \in {"fields", "done"})
      /\ class_info' = class_info \/ class_info' \in ClassInfos
      /\ (mode' = "fields" /\ mode = "top") => class_info' # NULL
  BY SemanticAssumption DEF Quiet
<1>3. ScopeDiscipline'
  BY <1>1, <1>2, SemanticAssumption DEF Names, ScopeDiscipline
<1>4. NamesAreComplete'
  BY <1>1 DEF Names, NamesAreComplete
<1>5. ScopesHaveOwners'
  BY <1>1, <1>2 DEF Names, ScopesHaveOwners
<1> QED
  BY <1>3, <1>4, <1>5 DEF Names

\* What Enter writes at each place.
LEMMA PlacedPointwise ==
    ASSUME Names, NEW id \in Ids, NEW t \in DeclTypes, NEW bytes \in Int,
           NEW class \in Ids \cup {NULL}, Placed(id, t, bytes, class)
    PROVE  /\ \A i \in Ids, s \in ScopeIds :
                 IF i = id /\ s = current_scope
                 THEN /\ type'[i][s] = t /\ class_of'[i][s] = class
                      /\ extent'[i][s] = bytes /\ address'[i][s] = NextAddress
                 ELSE /\ type'[i][s] = type[i][s] /\ class_of'[i][s] = class_of[i][s]
                      /\ extent'[i][s] = extent[i][s] /\ address'[i][s] = address[i][s]
           /\ IF current_scope = GLOBAL_SCOPE
              THEN global_address' = global_address + bytes /\ local_address' = local_address
              ELSE local_address' = local_address + bytes /\ global_address' = global_address
           /\ UNCHANGED <<scope_stack, current_scope, scope_counter, classes, functions,
                          class_info, mode>>
<1>1. /\ type' = [type EXCEPT ![id][current_scope] = t]
      /\ class_of' = [class_of EXCEPT ![id][current_scope] = class]
      /\ extent' = [extent EXCEPT ![id][current_scope] = bytes]
      /\ address' = [address EXCEPT ![id][current_scope] = NextAddress]
  BY DEF Placed, Enter
<1>2. \A i \in Ids, s \in ScopeIds :
         type'[i][s] = IF i = id /\ s = current_scope THEN t ELSE type[i][s]
  BY <1>1 DEF Names, Typed
<1>3. \A i \in Ids, s \in ScopeIds :
         class_of'[i][s] = IF i = id /\ s = current_scope THEN class ELSE class_of[i][s]
  BY <1>1 DEF Names, Typed
<1>4. \A i \in Ids, s \in ScopeIds :
         extent'[i][s] = IF i = id /\ s = current_scope THEN bytes ELSE extent[i][s]
  BY <1>1 DEF Names, Typed
<1>5. \A i \in Ids, s \in ScopeIds :
         address'[i][s] = IF i = id /\ s = current_scope THEN NextAddress ELSE address[i][s]
  BY <1>1 DEF Names, Typed
<1>6. IF current_scope = GLOBAL_SCOPE
      THEN global_address' = global_address + bytes /\ local_address' = local_address
      ELSE local_address' = local_address + bytes /\ global_address' = global_address
  BY DEF Placed, Enter, Allocate
<1>7. UNCHANGED <<scope_stack, current_scope, scope_counter, classes, functions, class_info, mode>>
  BY DEF Placed, scopeVars
<1> QED
  BY <1>2, <1>3, <1>4, <1>5, <1>6, <1>7

\* ... and EnterString.
LEMMA StringPointwise ==
    ASSUME Names, NEW id \in Ids, NEW t \in DeclTypes, PlacedString(id, t)
    PROVE  /\ \A i \in Ids, s \in ScopeIds :
                 /\ type'[i][s] = IF i = id /\ s = current_scope THEN t ELSE type[i][s]
                 /\ ~(i = id /\ s = current_scope) => address'[i][s] = address[i][s]
           /\ UNCHANGED <<scope_stack, current_scope, scope_counter, classes, functions, class_info,
                          mode, class_of, extent, global_address, local_address>>
<1>1. /\ type' = [type EXCEPT ![id][current_scope] = t]
      /\ address' = [address EXCEPT ![id][current_scope] = -1]
  BY DEF PlacedString, EnterString
<1>2. \A i \in Ids, s \in ScopeIds :
        /\ type'[i][s] = IF i = id /\ s = current_scope THEN t ELSE type[i][s]
        /\ ~(i = id /\ s = current_scope) => address'[i][s] = address[i][s]
  BY <1>1 DEF Names, Typed
<1>3. UNCHANGED <<scope_stack, current_scope, scope_counter, classes, functions, class_info, mode,
                  class_of, extent, global_address, local_address>>
  BY DEF PlacedString, EnterString, scopeVars, addressVars
<1> QED
  BY <1>2, <1>3

\* A variable that is declared names no class and no function.
LEMMA VariableKeepsNames ==
    ASSUME Names, Typed', NEW id \in Ids, NEW t \in DeclTypes,
           NEW class \in Ids \cup {NULL},
           ~Declared(id, current_scope), SameFunction,
           t \notin {Undeclared, DeclClass, DeclFunction},
           t = Variable("ident") => class \in Ids /\ classes[class] # NULL,
           \A i \in Ids, s \in ScopeIds :
             IF i = id /\ s = current_scope
             THEN type'[i][s] = t /\ (t = Variable("ident") => class_of'[i][s] = class)
             ELSE type'[i][s] = type[i][s] /\ class_of'[i][s] = class_of[i][s],
           current_scope = GLOBAL_SCOPE => local_address' = local_address,
           UNCHANGED <<scope_stack, current_scope, scope_counter, classes, functions,
                       class_info, mode>>
    PROVE  Names'
<1>1. GLOBAL_SCOPE \in ScopeIds
  BY SemanticAssumption DEF ScopeIds, GLOBAL_SCOPE
<1>2. ScopeDiscipline'
  <2>1. mode \in {"top", "fields", "done"} => current_scope = GLOBAL_SCOPE
    BY DEF Names, ScopeDiscipline
  <2>2. function_info # NULL => function_info' # NULL
    BY SemanticAssumption DEF SameFunction
  <2> QED
    BY <2>1, <2>2 DEF Names, ScopeDiscipline
<1>3. NamesAreComplete'
  <2>1. \A i \in Ids : /\ type'[i][GLOBAL_SCOPE] = DeclClass <=> type[i][GLOBAL_SCOPE] = DeclClass
                       /\ type'[i][GLOBAL_SCOPE] = DeclFunction <=> type[i][GLOBAL_SCOPE] = DeclFunction
    BY <1>1, DeclTypeFacts DEF Declared
  <2>2. \A i \in Ids, s \in ScopeIds : type'[i][s] = Variable("ident") =>
          class_of'[i][s] \in Ids /\ classes[class_of'[i][s]] # NULL
    BY DEF Names, NamesAreComplete
  <2> QED
    BY <2>1, <2>2 DEF Names, NamesAreComplete
<1>4. ScopesHaveOwners'
  <2>1. mode = "body" => function_info'.name = function_info.name
    BY DEF SameFunction
  <2> QED
    BY <2>1 DEF Names, ScopesHaveOwners
<1> QED
  BY <1>2, <1>3, <1>4 DEF Names

LEMMA PlacedKeepsNames ==
    ASSUME Names, Typed', PlacedSome
    PROVE  Names'
<1>1. ASSUME NEW id \in Ids, NEW t \in DeclTypes, NEW bytes \in Int,
             NEW class \in Ids \cup {NULL}, Placed(id, t, bytes, class)
      PROVE  Names'
  <2>1. /\ \A i \in Ids, s \in ScopeIds :
             IF i = id /\ s = current_scope
             THEN type'[i][s] = t /\ class_of'[i][s] = class
             ELSE type'[i][s] = type[i][s] /\ class_of'[i][s] = class_of[i][s]
        /\ current_scope = GLOBAL_SCOPE => local_address' = local_address
        /\ UNCHANGED <<scope_stack, current_scope, scope_counter, classes, functions,
                       class_info, mode>>
    BY <1>1, PlacedPointwise
  <2>2. /\ ~Declared(id, current_scope) /\ SameFunction
        /\ t \notin {Undeclared, DeclClass, DeclFunction}
        /\ t = Variable("ident") => class \in Ids /\ classes[class] # NULL
    BY <1>1 DEF Placed
  <2> QED
    BY <2>1, <2>2, VariableKeepsNames
<1>2. ASSUME NEW id \in Ids, NEW t \in DeclTypes, PlacedString(id, t)
      PROVE  Names'
  <2>1. /\ \A i \in Ids, s \in ScopeIds :
             type'[i][s] = IF i = id /\ s = current_scope THEN t ELSE type[i][s]
        /\ UNCHANGED <<scope_stack, current_scope, scope_counter, classes, functions,
                       class_info, mode, class_of, local_address>>
    BY <1>2, StringPointwise
  <2>2. /\ ~Declared(id, current_scope) /\ SameFunction
        /\ t \notin {Undeclared, DeclClass, DeclFunction, Variable("ident")}
    BY <1>2 DEF PlacedString
  <2> QED
    BY <2>1, <2>2, VariableKeepsNames
<1> QED
  BY <1>1, <1>2 DEF PlacedSome

\* The name of a class or function takes no place in memory.
LEMMA NamedMovesNothing ==
    ASSUME Names, NEW id \in Ids, NEW t \in {DeclClass, DeclFunction}, Named(id, t)
    PROVE  /\ \A i \in Ids, s \in ScopeIds :
                type'[i][s] = IF i = id /\ s = GLOBAL_SCOPE THEN t ELSE type[i][s]
           /\ UNCHANGED <<scope_stack, current_scope, scope_counter, address, class_of, extent,
                          global_address, local_address, class_info, function_info>>
           /\ type[id][GLOBAL_SCOPE] = Undeclared
           /\ \A i \in Ids, s \in ScopeIds : type'[i][s] = Undeclared => type[i][s] = Undeclared
<1>1. \A i \in Ids, s \in ScopeIds :
        type'[i][s] = IF i = id /\ s = GLOBAL_SCOPE THEN t ELSE type[i][s]
  BY SemanticAssumption DEF Names, Typed, Named, ScopeIds, GLOBAL_SCOPE
<1>2. UNCHANGED <<scope_stack, current_scope, scope_counter, address, class_of, extent,
                  global_address, local_address, class_info, function_info>>
  BY DEF Named, scopeVars, addressVars
<1>3. type[id][GLOBAL_SCOPE] = Undeclared /\ GLOBAL_SCOPE \in ScopeIds
  BY SemanticAssumption DEF Named, Declared, ScopeIds, GLOBAL_SCOPE
<1>4. \A i \in Ids, s \in ScopeIds : type'[i][s] = Undeclared => type[i][s] = Undeclared
  BY <1>1, <1>3
<1> QED
  BY <1>1, <1>2, <1>3, <1>4

\* What is written when a class is complete.
LEMMA ClassNamedFacts ==
    ASSUME Names, ClassNamed
    PROVE  /\ class_info \in ClassInfos /\ class_info.class \in Ids
           /\ Named(class_info.class, DeclClass)
           /\ \A i \in Ids : classes'[i] = IF i = class_info.class
                                           THEN [fields |-> class_info.fields, size |-> class_info.bytes]
                                           ELSE classes[i]
           /\ [fields |-> class_info.fields, size |-> class_info.bytes] # NULL
<1> DEFINE c == class_info.class
           decl == [fields |-> class_info.fields, size |-> class_info.bytes]
<1>1. mode = "fields" /\ classes' = [classes EXCEPT ![c] = decl] /\ Named(c, DeclClass)
  BY DEF ClassNamed
<1>2. class_info \in ClassInfos
  BY <1>1 DEF Names, ScopeDiscipline, Typed
<1>3. c \in Ids /\ decl \in ClassDecls
  BY <1>2 DEF ClassInfos, ClassDecls
<1>4. decl # NULL
  BY <1>3, SemanticAssumption
<1> HIDE DEF c, decl
<1>5. \A i \in Ids : classes'[i] = IF i = c THEN decl ELSE classes[i]
  BY <1>1, <1>3 DEF Names, Typed
<1> QED
  BY <1>1, <1>2, <1>3, <1>4, <1>5 DEF c, decl

LEMMA ClassNamedKeepsNames ==
    ASSUME Names, Typed', ClassNamed
    PROVE  Names'
<1> DEFINE c == class_info.class
           decl == [fields |-> class_info.fields, size |-> class_info.bytes]
<1>1. mode = "fields" /\ mode' = "top" /\ functions' = functions
  BY DEF ClassNamed
<1>2. /\ c \in Ids /\ Named(c, DeclClass) /\ decl # NULL
      /\ \A i \in Ids : classes'[i] = IF i = c THEN decl ELSE classes[i]
  BY ClassNamedFacts
<1> HIDE DEF c, decl
<1>3. /\ \A i \in Ids, s \in ScopeIds :
            type'[i][s] = IF i = c /\ s = GLOBAL_SCOPE THEN DeclClass ELSE type[i][s]
      /\ UNCHANGED <<scope_stack, current_scope, scope_counter, class_of, local_address,
                     class_info, function_info>>
      /\ type[c][GLOBAL_SCOPE] = Undeclared
  BY <1>2, NamedMovesNothing
<1>4. GLOBAL_SCOPE \in ScopeIds
  BY SemanticAssumption DEF ScopeIds, GLOBAL_SCOPE
<1>5. ScopeDiscipline'
  BY <1>1, <1>3 DEF Names, ScopeDiscipline
<1>6. NamesAreComplete'
  BY <1>1, <1>2, <1>3, <1>4, DeclTypeFacts DEF Names, NamesAreComplete
<1>7. ScopesHaveOwners'
  BY <1>1, <1>3 DEF Names, ScopesHaveOwners
<1> QED
  BY <1>5, <1>6, <1>7 DEF Names

\* What is written when the parameters of a function are complete.
FunctionDecl ==
    [type |-> function_info.type, params |-> function_info.params,
     scope |-> current_scope, local_var_size |-> 0]

LEMMA FunctionNamedFacts ==
    ASSUME Names, FunctionNamed
    PROVE  /\ function_info \in FunctionInfos /\ function_info.name \in Ids
           /\ Named(function_info.name, DeclFunction)
           /\ functions[function_info.name] = NULL
           /\ \A i \in Ids : functions'[i] = IF i = function_info.name THEN FunctionDecl ELSE functions[i]
           /\ FunctionDecl \in FunctionDecls /\ FunctionDecl # NULL
           /\ FunctionDecl.scope = current_scope /\ FunctionDecl.params = function_info.params
           /\ current_scope = scope_counter /\ scope_counter \in 1 .. scope_counter
<1> DEFINE f == function_info.name
<1>1. mode = "params" /\ functions' = [functions EXCEPT ![f] = FunctionDecl] /\ Named(f, DeclFunction)
  BY DEF FunctionNamed, FunctionDecl
<1>2. /\ function_info \in FunctionInfos /\ current_scope = scope_counter
      /\ scope_counter > 0 /\ scope_counter \in ScopeIds
  BY <1>1 DEF Names, ScopeDiscipline, Typed
<1>3. f \in Ids /\ FunctionDecl \in FunctionDecls
  BY <1>2 DEF FunctionInfos, FunctionDecls, FunctionDecl
<1>4. FunctionDecl # NULL /\ scope_counter \in 1 .. scope_counter
  BY <1>2, <1>3, SemanticAssumption DEF ScopeIds
<1>5. FunctionDecl.scope = current_scope /\ FunctionDecl.params = function_info.params
  BY DEF FunctionDecl
<1> HIDE DEF f
<1>6. \A i \in Ids : functions'[i] = IF i = f THEN FunctionDecl ELSE functions[i]
  BY <1>1, <1>3 DEF Names, Typed
<1>7. functions[f] = NULL
  <2>1. type[f][GLOBAL_SCOPE] = Undeclared
    BY <1>1, <1>3, NamedMovesNothing
  <2> QED
    BY <1>3, <2>1, DeclTypeFacts DEF Names, NamesAreComplete
<1> QED
  BY <1>1, <1>2, <1>3, <1>4, <1>5, <1>6, <1>7 DEF f

LEMMA FunctionNamedKeepsNames ==
    ASSUME Names, Typed', FunctionNamed
    PROVE  Names'
<1> DEFINE f == function_info.name
<1>1. mode = "params" /\ mode' = "body" /\ classes' = classes
  BY DEF FunctionNamed
<1>2. /\ f \in Ids /\ Named(f, DeclFunction) /\ functions[f] = NULL
      /\ \A i \in Ids : functions'[i] = IF i = f THEN FunctionDecl ELSE functions[i]
      /\ FunctionDecl # NULL /\ FunctionDecl.scope = scope_counter
      /\ current_scope = scope_counter /\ scope_counter \in 1 .. scope_counter
  BY FunctionNamedFacts
<1>3. f = function_info.name
  OBVIOUS
<1> HIDE DEF f
<1>4. /\ \A i \in Ids, s \in ScopeIds :
            type'[i][s] = IF i = f /\ s = GLOBAL_SCOPE THEN DeclFunction ELSE type[i][s]
      /\ UNCHANGED <<scope_stack, current_scope, scope_counter, class_of, local_address,
                     class_info, function_info>>
      /\ type[f][GLOBAL_SCOPE] = Undeclared
  BY <1>2, NamedMovesNothing
<1>5. GLOBAL_SCOPE \in ScopeIds
  BY SemanticAssumption DEF ScopeIds, GLOBAL_SCOPE
<1>6. ScopeDiscipline'
  BY <1>1, <1>4 DEF Names, ScopeDiscipline
<1>7. NamesAreComplete'
  BY <1>1, <1>2, <1>4, <1>5, DeclTypeFacts DEF Names, NamesAreComplete
<1>8. ScopesHaveOwners'
  BY <1>1, <1>2, <1>3, <1>4 DEF Names, ScopesHaveOwners
<1> QED
  BY <1>6, <1>7, <1>8 DEF Names

\* What is written when a function is opened.
LEMMA OpenedFacts ==
    ASSUME Names, Opened
    PROVE  /\ mode = "top" /\ mode' = "params" /\ function_info' \in FunctionInfos
           /\ function_info' # NULL /\ function_info'.params = <<>>
           /\ scope_counter' = scope_counter + 1 /\ current_scope' = scope_counter'
           /\ UNCHANGED <<type, address, class_of, extent, classes, functions, class_info,
                          global_address, local_address>>
           /\ scope_stack = <<GLOBAL_SCOPE>> /\ scope_stack' = Append(scope_stack, scope_counter')
           /\ current_scope = GLOBAL_SCOPE /\ local_address = 0
           /\ scope_counter \in Nat
<1>1. PICK f \in Ids, t \in ReturnTypes : CreateParams(f, t)
  BY DEF Opened
<1>2. /\ mode = "top" /\ mode' = "params"
      /\ function_info' = [name |-> f, type |-> t, params |-> <<>>]
      /\ scope_counter' = scope_counter + 1
      /\ scope_stack' = Append(scope_stack, scope_counter') /\ current_scope' = scope_counter'
      /\ UNCHANGED <<type, address, class_of, extent, classes, functions, class_info,
                     global_address, local_address>>
  BY <1>1 DEF CreateParams, Running, declVars, addressVars
<1>3. /\ scope_stack = <<GLOBAL_SCOPE>> /\ current_scope = GLOBAL_SCOPE /\ local_address = 0
      /\ scope_counter \in Nat
  BY <1>2, SemanticAssumption DEF Names, ScopeDiscipline, Typed, ScopeIds
<1>4. function_info' \in FunctionInfos /\ function_info' # NULL /\ function_info'.params = <<>>
  <2>1. [name |-> f, type |-> t, params |-> <<>>] \in FunctionInfos
    BY SemanticAssumption DEF FunctionInfos
  <2> QED
    BY <1>2, <2>1, SemanticAssumption
<1> QED
  BY <1>2, <1>3, <1>4

LEMMA OpenedKeepsNames ==
    ASSUME Names, Typed', Opened
    PROVE  Names'
<1>1. /\ mode = "top" /\ mode' = "params" /\ function_info' # NULL
      /\ scope_counter' = scope_counter + 1 /\ current_scope' = scope_counter'
      /\ UNCHANGED <<type, class_of, classes, functions>>
      /\ scope_stack = <<GLOBAL_SCOPE>> /\ scope_stack' = Append(scope_stack, scope_counter')
      /\ current_scope = GLOBAL_SCOPE /\ scope_counter \in Nat
  BY OpenedFacts
<1>2. ScopeDiscipline'
  <2>1. Append(<<0>>, scope_counter + 1) = <<0, scope_counter + 1>>
    <3> DEFINE longer == Append(<<0>>, scope_counter + 1)
               pair == <<0, scope_counter + 1>>
    <3>1. <<0>> \in Seq(Nat) /\ scope_counter + 1 \in Nat /\ pair \in Seq(Nat)
      BY <1>1
    <3>2. /\ longer \in Seq(Nat) /\ Len(longer) = Len(<<0>>) + 1
          /\ \A i \in 1 .. Len(<<0>>) : longer[i] = <<0>>[i]
          /\ longer[Len(<<0>>) + 1] = scope_counter + 1
      BY <3>1, AppendProperties
    <3>3. Len(longer) = 2 /\ longer[1] = 0 /\ longer[2] = scope_counter + 1
      BY <3>2
    <3>4. Len(pair) = 2 /\ pair[1] = 0 /\ pair[2] = scope_counter + 1
      OBVIOUS
    <3> HIDE DEF longer, pair
    <3>5. longer = pair
      BY SMTT(30), <3>1, <3>2, <3>3, <3>4, SeqEqual
    <3> QED
      BY <3>5 DEF longer, pair
  <2>2. scope_stack' = <<GLOBAL_SCOPE, scope_counter'>>
    BY <1>1, <2>1 DEF GLOBAL_SCOPE
  <2>3. scope_counter' > 0
    BY <1>1
  <2> QED
    BY <1>1, <2>2, <2>3 DEF ScopeDiscipline
<1>3. NamesAreComplete'
  BY <1>1 DEF Names, NamesAreComplete
<1>4. ScopesHaveOwners'
  <2>1. \A g \in Ids : functions[g] # NULL => functions[g].scope \in 1 .. scope_counter
    BY DEF Names, ScopesHaveOwners
  <2>2. \A s \in 1 .. scope_counter + 1 :
          s = scope_counter + 1 \/ \E g \in Ids : functions[g] # NULL /\ functions[g].scope = s
    BY <1>1 DEF Names, ScopesHaveOwners, GLOBAL_SCOPE
  <2> QED
    BY <1>1, <2>1, <2>2 DEF Names, ScopesHaveOwners
<1> QED
  BY <1>2, <1>3, <1>4 DEF Names

\* What end_function writes.
LEMMA EndFunctionFacts ==
    ASSUME Names, Typed', EndFunction
    PROVE  LET f == function_info.name
           IN  /\ mode = "body" /\ mode' = "top" /\ local_address' = 0
               /\ UNCHANGED <<scope_counter, type, address, class_of, extent, classes, class_info,
                              function_info, global_address>>
               /\ scope_stack' = <<GLOBAL_SCOPE>> /\ current_scope' = GLOBAL_SCOPE
               /\ current_scope = scope_counter /\ scope_counter > 0 /\ scope_counter \in Nat
               /\ f \in Ids /\ functions[f] # NULL /\ functions[f].scope = scope_counter
               /\ \A g \in Ids : g # f => functions'[g] = functions[g]
               /\ functions'[f] # NULL /\ functions'[f].scope = scope_counter
               /\ functions'[f].params = functions[f].params
               /\ functions'[f].local_var_size = local_address
<1> DEFINE f == function_info.name
<1>1. /\ mode = "body" /\ mode' = "top" /\ local_address' = 0
      /\ functions' = [functions EXCEPT ![f].local_var_size = local_address]
      /\ UNCHANGED <<scope_counter, type, address, class_of, extent, classes, class_info,
                     function_info, global_address>>
  BY DEF EndFunction, Running, declVars
<1>2. scope_stack' = <<GLOBAL_SCOPE>> /\ current_scope' = GLOBAL_SCOPE
  BY <1>1, EndScopeFacts DEF EndFunction, Names
<1>3. /\ current_scope = scope_counter /\ scope_counter > 0 /\ scope_counter \in Nat
      /\ function_info \in FunctionInfos
  BY <1>1, SemanticAssumption DEF Names, ScopeDiscipline, Typed, ScopeIds
<1>4. /\ f \in Ids /\ functions[f] # NULL /\ functions[f].scope = scope_counter
      /\ functions[f] \in FunctionDecls
  BY <1>1, <1>3 DEF Names, ScopesHaveOwners, Typed, FunctionInfos
<1> HIDE DEF f
<1>5. /\ \A g \in Ids : g # f => functions'[g] = functions[g]
      /\ functions'[f] = [functions[f] EXCEPT !.local_var_size = local_address]
  BY <1>1, <1>4 DEF Names, Typed
<1>6. /\ functions'[f] \in FunctionDecls /\ functions'[f].scope = scope_counter
      /\ functions'[f].params = functions[f].params
      /\ functions'[f].local_var_size = local_address
  BY <1>4, <1>5 DEF Names, Typed, FunctionDecls
<1>7. functions'[f] # NULL
  BY <1>6, SemanticAssumption
<1> QED
  BY <1>1, <1>2, <1>3, <1>4, <1>5, <1>6, <1>7 DEF f

LEMMA EndFunctionKeepsNames ==
    ASSUME Names, Typed', EndFunction
    PROVE  Names'
<1> DEFINE f == function_info.name
<1>1. /\ mode = "body" /\ mode' = "top" /\ local_address' = 0
      /\ UNCHANGED <<scope_counter, type, class_of, classes, class_info, function_info>>
      /\ scope_stack' = <<GLOBAL_SCOPE>> /\ current_scope' = GLOBAL_SCOPE
      /\ current_scope = scope_counter /\ scope_counter > 0 /\ scope_counter \in Nat
  BY EndFunctionFacts
<1>2. /\ f \in Ids /\ functions[f] # NULL /\ functions[f].scope = scope_counter
      /\ \A g \in Ids : g # f => functions'[g] = functions[g]
      /\ functions'[f] # NULL /\ functions'[f].scope = scope_counter
  BY EndFunctionFacts
<1> HIDE DEF f
<1>3. \A g \in Ids : /\ functions'[g] # NULL <=> functions[g] # NULL
                     /\ functions[g] # NULL => functions'[g].scope = functions[g].scope
  BY <1>2
<1>4. ScopeDiscipline'
  BY <1>1 DEF ScopeDiscipline
<1>5. NamesAreComplete'
  BY <1>1, <1>3 DEF Names, NamesAreComplete
<1>6. ScopesHaveOwners'
  BY <1>1, <1>2, <1>3 DEF Names, ScopesHaveOwners
<1> QED
  BY <1>4, <1>5, <1>6 DEF Names

\* The analysis starts with nothing declared.
LEMMA InitNames ==
    ASSUME Init
    PROVE  Names
<1>1. GLOBAL_SCOPE \in ScopeIds /\ 0 \in ScopeIds
  BY SemanticAssumption DEF GLOBAL_SCOPE, ScopeIds
<1>2. Typed
  <2>1. type \in [Ids -> [ScopeIds -> DeclTypes]]
    BY DeclTypeFacts DEF Init
  <2>2. scope_stack \in Seq(ScopeIds)
    BY <1>1 DEF Init
  <2> QED
    BY <1>1, <2>1, <2>2 DEF Init, Typed, Statuses
<1>3. \A id \in Ids, s \in ScopeIds : type[id][s] = Undeclared
  BY DEF Init
<1>4. ScopeDiscipline
  BY DEF Init, ScopeDiscipline
<1>5. NamesAreComplete
  BY <1>1, <1>3, DeclTypeFacts DEF Init, NamesAreComplete
<1>6. ScopesHaveOwners
  BY DEF Init, ScopesHaveOwners
<1> QED
  BY <1>2, <1>4, <1>5, <1>6 DEF Names

\* Every step keeps them, one of the shapes at a time.
LEMMA NextNames ==
    ASSUME Names, [Next]_vars
    PROVE  Names'
<1>1. Typed'
  BY TypesNext DEF Names
<1> QED
  BY <1>1, StepShapes, QuietKeepsNames, PlacedKeepsNames, ClassNamedKeepsNames,
     FunctionNamedKeepsNames, OpenedKeepsNames, EndFunctionKeepsNames

\* The analysis of any program is typed: every annotation is a node, every
\* scope on the stack one that was opened, the newest of them the current one,
\* and every status one the compiler exits with.
THEOREM AnalysisTyped == Spec => []TypeOK
<1>1. Init => Names
  BY InitNames
<1>2. Names /\ [Next]_vars => Names'
  BY NextNames
<1>3. Names => TypeOK
  <2> SUFFICES ASSUME Names PROVE TypeOK
    OBVIOUS
  <2>1. Typed /\ ScopeDiscipline
    BY DEF Names
  <2>2. scope_counter \in Nat
    BY <2>1, SemanticAssumption DEF Typed, ScopeIds
  <2>3. mode \in {"top", "fields", "done"} \/ mode \in {"params", "body"}
    BY <2>1 DEF Typed
  <2>4. CASE mode \in {"top", "fields", "done"}
    <3>1. scope_stack = <<0>> /\ current_scope = 0
      BY <2>1, <2>4 DEF ScopeDiscipline, GLOBAL_SCOPE
    <3> QED
      BY <2>1, <2>2, <3>1 DEF TypeOK
  <2>5. CASE mode \in {"params", "body"}
    <3>1. scope_stack = <<0, scope_counter>> /\ current_scope = scope_counter
      BY <2>1, <2>5 DEF ScopeDiscipline, GLOBAL_SCOPE
    <3> QED
      BY <2>1, <2>2, <3>1 DEF TypeOK
  <2> QED
    BY <2>3, <2>4, <2>5
<1> QED
  BY <1>1, <1>2, <1>3, PTL DEF Spec

----------------------------------------------------------------------------
\* What a step may do to the declarations, the body of DeclarationsFinal.
Final ==
    \A id \in Ids, s \in ScopeIds :
        IF Declared(id, s)
        THEN type'[id][s] = type[id][s] /\ address'[id][s] = address[id][s]
        ELSE Declared(id, s)' => s \in {GLOBAL_SCOPE, current_scope}

LEMMA StepIsFinal ==
    ASSUME Names, [Next]_vars
    PROVE  Final
<1>2. Typed'
  BY TypesNext DEF Names
<1>3. UNCHANGED <<type, address>> => Final
  BY DEF Final, Declared
<1>4. CASE Quiet
  BY <1>3, <1>4 DEF Quiet, declVars
<1>5. ASSUME NEW id \in Ids, NEW t \in DeclTypes, NEW bytes \in Int,
             NEW class \in Ids \cup {NULL}, Placed(id, t, bytes, class)
      PROVE  Final
  <2>1. ~Declared(id, current_scope)
    BY <1>5 DEF Placed
  <2>2. \A i \in Ids, s \in ScopeIds : ~(i = id /\ s = current_scope) =>
          type'[i][s] = type[i][s] /\ address'[i][s] = address[i][s]
    BY <1>5, PlacedPointwise
  <2> QED
    BY <2>1, <2>2 DEF Final, Declared
<1>6. ASSUME NEW id \in Ids, NEW t \in DeclTypes, PlacedString(id, t)
      PROVE  Final
  <2>1. /\ ~Declared(id, current_scope)
        /\ type' = [type EXCEPT ![id][current_scope] = t]
        /\ address' = [address EXCEPT ![id][current_scope] = -1]
    BY <1>6 DEF PlacedString, EnterString
  <2>2. \A i \in Ids, s \in ScopeIds : ~(i = id /\ s = current_scope) =>
          type'[i][s] = type[i][s] /\ address'[i][s] = address[i][s]
    BY <2>1 DEF Names, Typed
  <2> QED
    BY <2>1, <2>2 DEF Final, Declared
<1>7. \A id \in Ids : \A t \in {DeclClass, DeclFunction} : Named(id, t) => Final
  BY NamedMovesNothing DEF Final, Declared
<1>8. CASE ClassNamed
  BY <1>7, <1>8 DEF ClassNamed, Names, ScopeDiscipline, Typed, ClassInfos
<1>9. CASE FunctionNamed
  BY <1>7, <1>9 DEF FunctionNamed, Names, ScopeDiscipline, Typed, FunctionInfos
<1>10. CASE Opened
  BY <1>3, <1>10 DEF Opened, CreateParams, declVars
<1>11. CASE EndFunction
  BY <1>3, <1>11 DEF EndFunction, declVars
<1> QED
  BY <1>2, <1>4, <1>5, <1>6, <1>8, <1>9, <1>10, <1>11, StepShapes DEF PlacedSome

\* A declaration is never replaced, and a closed scope never written.
THEOREM DeclarationsAreFinal == Spec => DeclarationsFinal
<1>1. Init => Names
  BY InitNames
<1>2. Names /\ [Next]_vars => Names'
  BY NextNames
<1>3. Names /\ [Next]_vars => [Final]_vars
  BY StepIsFinal
<1>4. Spec => [][Final]_vars
  BY <1>1, <1>2, <1>3, PTL DEF Spec
<1> QED
  BY <1>4 DEF DeclarationsFinal, Final

\* A node that was annotated with the place a variable has now.
Current(n) ==
    /\ n.scope \in {GLOBAL_SCOPE, n.at}
    /\ Declared(n.id, n.scope)
    /\ n.kind # "attribute" => n.address = address[n.id][n.scope]

\* A check resolves to the globals or to the function being parsed.
LEMMA ResolveIsOpen ==
    ASSUME Typed, ScopeDiscipline, NEW id \in Ids, Resolve(id) # -1
    PROVE  Resolve(id) \in {GLOBAL_SCOPE, current_scope} /\ Declared(id, Resolve(id))
<1>1. \A i \in DOMAIN scope_stack : scope_stack[i] \in {GLOBAL_SCOPE, current_scope}
  <2>1. scope_stack = <<GLOBAL_SCOPE>> \/ scope_stack = <<GLOBAL_SCOPE, current_scope>>
    BY DEF Typed, ScopeDiscipline
  <2>2. CASE scope_stack = <<GLOBAL_SCOPE>>
    BY <2>2
  <2>3. CASE scope_stack = <<GLOBAL_SCOPE, current_scope>>
    BY <2>3
  <2> QED
    BY <2>1, <2>2, <2>3
<1> DEFINE hits == {i \in DOMAIN scope_stack : Declared(id, scope_stack[i])}
<1>2. hits # {} /\ Resolve(id) = scope_stack[CHOOSE i \in hits : \A j \in hits : j <= i]
  BY DEF Resolve
<1>3. \E m \in hits : \A j \in hits : j <= m
  <2>1. DOMAIN scope_stack \subseteq {1, 2}
    BY SMTT(30) DEF Typed, ScopeDiscipline
  <2>2. CASE 2 \in hits
    BY <2>1, <2>2
  <2>3. CASE 2 \notin hits
    BY <1>2, <2>1, <2>3
  <2> QED
    BY <2>2, <2>3
<1>4. (CHOOSE i \in hits : \A j \in hits : j <= i) \in hits
  BY <1>3
<1> QED
  BY <1>1, <1>2, <1>4

LEMMA NodeIsCurrent ==
    ASSUME Typed, ScopeDiscipline, NEW id \in Ids, Resolve(id) # -1,
           NEW kind \in {"variable", "vector", "attribute"}, NEW offset \in Int, NEW bytes,
           kind # "attribute" => offset = 0
    PROVE  Current(Node(kind, id, Resolve(id), offset, bytes))
<1>1. Resolve(id) \in {GLOBAL_SCOPE, current_scope} /\ Declared(id, Resolve(id))
  BY ResolveIsOpen
<1>2. Resolve(id) \in ScopeIds
  BY ResolveFacts
<1>3. address[id][Resolve(id)] \in Int
  BY <1>2 DEF Typed
<1>4. address[id][Resolve(id)] + 0 = address[id][Resolve(id)]
  BY <1>3
<1> QED
  BY <1>1, <1>4 DEF Current, Node

\* The nodes a step adds are current when it adds them.
LEMMA NewNodesAreCurrent ==
    ASSUME Names, [Next]_vars
    PROVE  \A n \in nodes' : n \in nodes \/ Current(n)'
<1>1. Typed /\ ScopeDiscipline /\ NamesAreComplete
  BY DEF Names
<1>2. nodes' = nodes => \A n \in nodes' : n \in nodes \/ Current(n)'
  OBVIOUS
<1>3. ASSUME NEW code, NEW n, Use(code, {n}), code = "ok" => Current(n)
      PROVE  \A m \in nodes' : m \in nodes \/ Current(m)'
  <2>1. CASE code # "ok"
    BY <1>2, <1>3, <2>1 DEF Use, Fail, useVars
  <2>2. CASE code = "ok"
    <3>1. UNCHANGED <<type, address>> /\ nodes' = nodes \cup {n}
      BY <1>3, <2>2 DEF Use, declVars
    <3>2. Current(n)'
      BY <1>3, <2>2, <3>1 DEF Current, Declared
    <3> QED
      BY <3>1, <3>2
  <2> QED
    BY <2>1, <2>2
<1>4. ASSUME NEW id \in Ids, UseVariable(id)
      PROVE  \A n \in nodes' : n \in nodes \/ Current(n)'
  <2>1. Use(VariableStatus(id), {Node("variable", id, Resolve(id), 0, INT_SIZE)})
    BY <1>4 DEF UseVariable
  <2>2. VariableStatus(id) = "ok" => Resolve(id) # -1
    BY DEF VariableStatus
  <2> QED
    BY <1>1, <1>3, <2>1, <2>2, NodeIsCurrent
<1>5. ASSUME NEW id \in Ids, UseVector(id)
      PROVE  \A n \in nodes' : n \in nodes \/ Current(n)'
  <2>1. Use(VectorStatus(id), {Node("vector", id, Resolve(id), 0, INT_SIZE)})
    BY <1>5 DEF UseVector
  <2>2. VectorStatus(id) = "ok" => Resolve(id) # -1
    BY DEF VectorStatus
  <2> QED
    BY <1>1, <1>3, <2>1, <2>2, NodeIsCurrent
<1>6. ASSUME NEW id \in Ids, NEW value \in Expressions, Assign(id, value)
      PROVE  \A n \in nodes' : n \in nodes \/ Current(n)'
  <2> DEFINE code == IF VariableStatus(id) = "ok" /\ type[id][Resolve(id)].of # value.type.of
                     THEN "crash" ELSE VariableStatus(id)
  <2>1. Use(code, {Node("variable", id, Resolve(id), 0, INT_SIZE)})
    BY <1>6 DEF Assign
  <2>2. code = "ok" => Resolve(id) # -1
    BY DEF VariableStatus
  <2> HIDE DEF code
  <2> QED
    BY <1>1, <1>3, <2>1, <2>2, NodeIsCurrent
<1>7. ASSUME NEW id \in Ids, NEW attribute \in Ids, UseAttribute(id, attribute)
      PROVE  \A n \in nodes' : n \in nodes \/ Current(n)'
  <2> DEFINE field == classes[class_of[id][Resolve(id)]].fields
                        [CHOOSE i \in FieldHits(id, attribute) :
                             \A j \in FieldHits(id, attribute) : i <= j]
  <2>1. Use(AttributeStatus(id, attribute),
            {Node("attribute", id, Resolve(id), field.offset, size_of(field.type))})
    BY <1>7 DEF UseAttribute
  <2>2. AttributeStatus(id, attribute) = "ok" => field \in Fields
    BY <1>1, AttributeFacts
  <2>3. AttributeStatus(id, attribute) = "ok" => Resolve(id) # -1
    BY DEF AttributeStatus
  <2> HIDE DEF field
  <2>4. AttributeStatus(id, attribute) = "ok" => field.offset \in Int
    BY <2>2 DEF Fields
  <2> QED
    BY <1>1, <1>3, <2>1, <2>3, <2>4, NodeIsCurrent
<1>8. ASSUME NEW id \in Ids, NEW source \in Ids, NEW t \in VarTypes, InitializedVariable(id, t, source)
      PROVE  \A n \in nodes' : n \in nodes \/ Current(n)'
  <2>1. CASE VariableStatus(source) # "ok" \/ Declared(id, current_scope)
    BY <1>2, <1>8, <2>1 DEF InitializedVariable, Fail, useVars
  <2>2. CASE VariableStatus(source) = "ok" /\ ~Declared(id, current_scope)
    <3>0. PICK old, new, here :
               /\ old = Node("variable", source, Resolve(source), 0, INT_SIZE)
               /\ new = [kind |-> "variable", id |-> id, at |-> current_scope, scope |-> current_scope,
                         address |-> address'[id][current_scope], bytes |-> INT_SIZE]
               /\ here = current_scope
      OBVIOUS
    <3>1. nodes' = nodes \cup {old, new} /\ EnterPrimitive(id, Variable(t), INT_SIZE)
      BY <1>8, <2>2, <3>0 DEF InitializedVariable
    <3>2. Resolve(source) # -1 /\ Current(old)
      <4>1. Resolve(source) # -1
        BY <2>2 DEF VariableStatus
      <4> QED
        BY <1>1, <3>0, <4>1, NodeIsCurrent
    <3>3. old.id = source /\ old.scope = Resolve(source) /\ old.at = current_scope
      BY <3>0 DEF Node
    <3>4. Resolve(source) \in ScopeIds
      BY <1>1, <3>2, ResolveFacts
    <3>5. Final
      BY StepIsFinal
    <3>6. type'[source][Resolve(source)] = type[source][Resolve(source)]
          /\ address'[source][Resolve(source)] = address[source][Resolve(source)]
      BY <3>2, <3>3, <3>4, <3>5 DEF Final, Current
    <3>7. Current(old)'
      <4>1. type'[old.id][old.scope] = type[old.id][old.scope]
            /\ address'[old.id][old.scope] = address[old.id][old.scope]
        BY <3>3, <3>6
      <4> QED
        BY <3>2, <4>1 DEF Current, Declared
    <3>8. type'[id][current_scope] = Variable(t)
      BY <1>1, <3>1 DEF EnterPrimitive, Enter, EnterString, Typed
    <3>9. Current(new)'
      <4>1. /\ new.kind = "variable" /\ new.id = id /\ new.at = here /\ new.scope = here
            /\ new.address = address'[id][here] /\ type'[id][here] = Variable(t)
        BY <3>0, <3>8
      <4> QED
        BY <4>1, DeclTypeFacts DEF Current, Declared
    <3> QED
      BY <3>1, <3>7, <3>9
  <2> QED
    BY <2>1, <2>2
<1>9. CASE TopLevel
  <2>1. nodes' = nodes
    BY <1>9 DEF TopLevel, GlobalVariable, GlobalVector, GlobalInstance, GlobalInstanceVector,
       CreateClassFields, ClassAddField, DeclareClass, CreateParams, AddParam, DeclareFunction,
       EndFunction, EndProgram, Declare, DeclareInstance, Fail, useVars
  <2> QED
    BY <1>2, <2>1
<1>10. ASSUME NEW id \in Ids,
              \/ \E t \in VarTypes : LocalVariable(id, t)
              \/ \E class \in Ids : LocalInstance(class, id)
              \/ \E args \in Arguments : Call(id, args)
       PROVE  nodes' = nodes
  BY <1>10 DEF LocalVariable, LocalInstance, Call, Declare, DeclareInstance, Fail, useVars
<1>11. CASE Body
  BY <1>2, <1>4, <1>5, <1>6, <1>7, <1>8, <1>10, <1>11 DEF Body
<1>12. CASE UNCHANGED vars
  BY <1>2, <1>12 DEF vars, useVars
<1> QED
  BY <1>9, <1>11, <1>12 DEF Next

LEMMA AnnotationsStep ==
    ASSUME Names, AnnotationsCurrent, [Next]_vars
    PROVE  AnnotationsCurrent'
<1>1. SUFFICES ASSUME NEW n \in nodes'
               PROVE  Current(n)'
  BY DEF AnnotationsCurrent, Current
<1>2. CASE n \in nodes
  <2>1. Current(n) /\ n.id \in Ids /\ n.scope \in ScopeIds
    BY <1>2 DEF AnnotationsCurrent, Current, Names, Typed, Nodes
  <2>2. Final
    BY StepIsFinal
  <2> QED
    BY <2>1, <2>2 DEF Final, Current, Declared
<1>3. CASE n \notin nodes
  BY <1>3, NewNodesAreCurrent
<1> QED
  BY <1>2, <1>3

\* The annotations the code generator reads at the end of the parse are
\* those of the declarations that hold then.
THEOREM AnnotationsAreCurrent == Spec => []AnnotationsCurrent
<1>1. Init => Names /\ AnnotationsCurrent
  BY InitNames DEF Init, AnnotationsCurrent
<1>2. Names /\ AnnotationsCurrent /\ [Next]_vars => Names' /\ AnnotationsCurrent'
  BY NextNames, AnnotationsStep
<1> QED
  BY <1>1, <1>2, PTL DEF Spec

----------------------------------------------------------------------------
\* Sizes and places, kept by each of these steps when no field is a string.

Layout == Names /\ SizesAreNatural /\ ExtentsAreAllocated

Rest == SizesAreNatural /\ ExtentsAreAllocated /\ SlotsDisjoint

LEMMA QuietKeeps ==
    ASSUME NoStringFields, Layout, SlotsDisjoint, Quiet
    PROVE  Rest'
<1>1. UNCHANGED <<current_scope, scope_counter, type, address, extent, classes, functions,
                  global_address, local_address>>
  BY DEF Quiet, scopeVars, declVars, addressVars
<1>2. class_info' = class_info \/ class_info'.bytes >= 0
  BY DEF Quiet, Sized, Layout
<1>3. SizesAreNatural'
  BY <1>1, <1>2 DEF Layout, SizesAreNatural, Declared
<1>4. ExtentsAreAllocated'
  BY <1>1 DEF Layout, ExtentsAreAllocated, Stored, Declared
<1>5. SlotsDisjoint'
  BY <1>1 DEF SlotsDisjoint, Stored, Declared
<1> QED
  BY <1>3, <1>4, <1>5 DEF Rest

LEMMA PlacedKeeps ==
    ASSUME NoStringFields, Layout, SlotsDisjoint, Typed',
           NEW id \in Ids, NEW t \in DeclTypes, NEW bytes \in Int,
           NEW class \in Ids \cup {NULL}, Placed(id, t, bytes, class)
    PROVE  Rest'
<1>1. /\ \A i \in Ids, s \in ScopeIds :
            IF i = id /\ s = current_scope
            THEN type'[i][s] = t /\ extent'[i][s] = bytes /\ address'[i][s] = NextAddress
            ELSE /\ type'[i][s] = type[i][s]
                 /\ extent'[i][s] = extent[i][s] /\ address'[i][s] = address[i][s]
  BY PlacedPointwise DEF Layout
<1>2. IF current_scope = GLOBAL_SCOPE
      THEN global_address' = global_address + bytes /\ local_address' = local_address
      ELSE local_address' = local_address + bytes /\ global_address' = global_address
  BY PlacedPointwise DEF Layout
<1>3. UNCHANGED <<current_scope, scope_counter, classes, functions, class_info, mode>>
  BY PlacedPointwise DEF Layout
<1>4. /\ ~Declared(id, current_scope)
      /\ t \notin {Undeclared, DeclClass, DeclFunction}
      /\ bytes \in Nat
  BY DEF Placed, Sized, Layout
<1>5. /\ current_scope \in ScopeIds /\ scope_counter \in ScopeIds /\ GLOBAL_SCOPE \in ScopeIds
      /\ global_address \in Int /\ local_address \in Int
      /\ global_address >= 0 /\ local_address >= 0
      /\ ScopeIds \subseteq Nat
  BY SemanticAssumption DEF Layout, Names, Typed, SizesAreNatural, ScopeIds, GLOBAL_SCOPE
<1>6. \A i \in Ids, s \in ScopeIds : extent[i][s] \in Int /\ address[i][s] \in Int
  BY DEF Layout, Names, Typed
<1>7. current_scope # GLOBAL_SCOPE => mode \in {"params", "body"} /\ current_scope = scope_counter
  BY DEF Layout, Names, ScopeDiscipline, Typed
<1>8. SizesAreNatural'
  <2>1. global_address' >= 0 /\ local_address' >= 0
    BY <1>2, <1>4, <1>5
  <2>2. \A i \in Ids, s \in ScopeIds :
          extent'[i][s] >= 0 /\ (type'[i][s] = Undeclared => extent'[i][s] = 0)
    BY <1>1, <1>4 DEF Layout, SizesAreNatural, Declared
  <2> QED
    BY <1>3, <2>1, <2>2 DEF Layout, SizesAreNatural, Declared
<1>9. ExtentsAreAllocated'
  <2> SUFFICES ASSUME NEW i \in Ids, NEW s \in ScopeIds, Stored(i, s)'
               PROVE  /\ 0 <= address'[i][s]
                      /\ s <= scope_counter
                      /\ s = GLOBAL_SCOPE => address'[i][s] + extent'[i][s] <= global_address'
                      /\ (s # GLOBAL_SCOPE /\ s = current_scope) =>
                           address'[i][s] + extent'[i][s] <= local_address'
                      /\ \A f \in Ids : (functions[f] # NULL /\ functions[f].scope = s /\ s # current_scope) =>
                           address'[i][s] + extent'[i][s] <= functions[f].local_var_size
    BY <1>3 DEF ExtentsAreAllocated
  <2>1. CASE i = id /\ s = current_scope
    <3>1. address'[i][s] = NextAddress /\ extent'[i][s] = bytes
      BY <1>1, <2>1
    <3>2. s <= scope_counter
      BY <1>5, <1>7, <2>1 DEF ScopeIds, GLOBAL_SCOPE
    <3>3. CASE s = GLOBAL_SCOPE
      BY <1>2, <1>5, <2>1, <3>1, <3>2, <3>3 DEF NextAddress
    <3>4. CASE s # GLOBAL_SCOPE
      BY <1>2, <1>5, <2>1, <3>1, <3>2, <3>4 DEF NextAddress
    <3> QED
      BY <3>3, <3>4
  <2>2. CASE ~(i = id /\ s = current_scope)
    <3>1. address'[i][s] = address[i][s] /\ extent'[i][s] = extent[i][s] /\ Stored(i, s)
      BY <1>1, <2>2 DEF Stored, Declared
    <3>2. global_address <= global_address' /\ local_address <= local_address'
      BY <1>2, <1>4, <1>5
    <3>3. global_address' \in Int /\ local_address' \in Int
      BY DEF Typed
    <3> QED
      BY <1>5, <1>6, <3>1, <3>2, <3>3 DEF Layout, ExtentsAreAllocated
  <2> QED
    BY <2>1, <2>2
<1>10. SlotsDisjoint'
  <2> SUFFICES ASSUME NEW s \in ScopeIds, NEW a \in Ids, NEW b \in Ids,
                      a # b, Stored(a, s)', Stored(b, s)'
               PROVE  \/ address'[a][s] + extent'[a][s] <= address'[b][s]
                      \/ address'[b][s] + extent'[b][s] <= address'[a][s]
    BY DEF SlotsDisjoint
  <2>1. \A i \in Ids : (i # id \/ s # current_scope) /\ Stored(i, s)' =>
          Stored(i, s) /\ address'[i][s] = address[i][s] /\ extent'[i][s] = extent[i][s]
    BY <1>1 DEF Stored, Declared
  <2>2. \A i \in Ids : i # id /\ s = current_scope /\ Stored(i, s)' =>
          address'[i][s] + extent'[i][s] <= NextAddress
    BY <2>1 DEF Layout, ExtentsAreAllocated, NextAddress
  <2>3. s = current_scope => address'[id][s] = NextAddress
    BY <1>1
  <2>4. CASE s = current_scope /\ (a = id \/ b = id)
    BY <2>2, <2>3, <2>4
  <2>5. CASE ~(s = current_scope /\ (a = id \/ b = id))
    BY <2>1, <2>5 DEF SlotsDisjoint
  <2> QED
    BY <2>4, <2>5
<1> QED
  BY <1>8, <1>9, <1>10 DEF Rest

LEMMA PlacedStringKeeps ==
    ASSUME Layout, SlotsDisjoint, NEW id \in Ids, NEW t \in DeclTypes, PlacedString(id, t)
    PROVE  Rest'
<1>1. /\ \A i \in Ids, s \in ScopeIds :
           /\ type'[i][s] = IF i = id /\ s = current_scope THEN t ELSE type[i][s]
           /\ ~(i = id /\ s = current_scope) => address'[i][s] = address[i][s]
      /\ UNCHANGED <<current_scope, scope_counter, classes, functions, class_info, mode,
                     extent, global_address, local_address>>
  BY StringPointwise DEF Layout
<1>2. ~Declared(id, current_scope) /\ t # Undeclared
  BY DEF PlacedString
<1>3. current_scope \in ScopeIds
  BY DEF Layout, Names, Typed
<1>4. extent[id][current_scope] = 0
  BY <1>2, <1>3 DEF Layout, SizesAreNatural
<1>5. SizesAreNatural'
  <2>1. \A i \in Ids, s \in ScopeIds : type'[i][s] = Undeclared => type[i][s] = Undeclared
    BY <1>1, <1>2
  <2> QED
    BY <1>1, <2>1 DEF Layout, SizesAreNatural, Declared
<1>6. \A i \in Ids, s \in ScopeIds : Stored(i, s)' => Stored(i, s) /\ address'[i][s] = address[i][s]
  BY <1>1, <1>2, <1>4 DEF Stored, Declared
<1>7. ExtentsAreAllocated'
  BY <1>1, <1>6 DEF Layout, ExtentsAreAllocated
<1>8. SlotsDisjoint'
  BY <1>1, <1>6 DEF SlotsDisjoint
<1> QED
  BY <1>5, <1>7, <1>8 DEF Rest

\* A name that is complete takes no place.
LEMMA NamedStores ==
    ASSUME Layout, NEW id \in Ids, NEW t \in {DeclClass, DeclFunction}, Named(id, t)
    PROVE  /\ \A i \in Ids, s \in ScopeIds : Stored(i, s)' => Stored(i, s)
           /\ UNCHANGED <<current_scope, scope_counter, address, extent,
                          global_address, local_address, class_info>>
           /\ \A i \in Ids, s \in ScopeIds : type'[i][s] = Undeclared => type[i][s] = Undeclared
<1>1. /\ \A i \in Ids, s \in ScopeIds :
           type'[i][s] = IF i = id /\ s = GLOBAL_SCOPE THEN t ELSE type[i][s]
      /\ UNCHANGED <<current_scope, scope_counter, address, extent,
                     global_address, local_address, class_info>>
      /\ type[id][GLOBAL_SCOPE] = Undeclared
      /\ \A i \in Ids, s \in ScopeIds : type'[i][s] = Undeclared => type[i][s] = Undeclared
  BY NamedMovesNothing DEF Layout
<1>2. GLOBAL_SCOPE \in ScopeIds
  BY SemanticAssumption DEF ScopeIds, GLOBAL_SCOPE
<1>3. extent[id][GLOBAL_SCOPE] = 0
  BY <1>1, <1>2 DEF Layout, SizesAreNatural, Declared
<1>4. \A i \in Ids, s \in ScopeIds : Stored(i, s)' => Stored(i, s)
  BY <1>1, <1>3 DEF Stored, Declared
<1> QED
  BY <1>1, <1>4

LEMMA ClassNamedKeeps ==
    ASSUME Layout, SlotsDisjoint, ClassNamed
    PROVE  Rest'
<1> DEFINE c == class_info.class
           decl == [fields |-> class_info.fields, size |-> class_info.bytes]
<1>1. mode = "fields" /\ functions' = functions
  BY DEF ClassNamed
<1>2. /\ c \in Ids /\ Named(c, DeclClass)
      /\ \A i \in Ids : classes'[i] = IF i = c THEN decl ELSE classes[i]
  BY ClassNamedFacts DEF Layout
<1>3. decl.size >= 0
  BY <1>1, SemanticAssumption DEF Layout, SizesAreNatural, Names, ScopeDiscipline
<1> HIDE DEF c, decl
<1>4. /\ \A i \in Ids, s \in ScopeIds : Stored(i, s)' => Stored(i, s)
      /\ UNCHANGED <<current_scope, scope_counter, address, extent,
                     global_address, local_address, class_info>>
      /\ \A i \in Ids, s \in ScopeIds : type'[i][s] = Undeclared => type[i][s] = Undeclared
  BY <1>2, NamedStores
<1>5. SizesAreNatural'
  BY <1>2, <1>3, <1>4 DEF Layout, SizesAreNatural, Declared
<1>6. ExtentsAreAllocated'
  BY <1>1, <1>4 DEF Layout, ExtentsAreAllocated
<1>7. SlotsDisjoint'
  BY <1>4 DEF SlotsDisjoint
<1> QED
  BY <1>5, <1>6, <1>7 DEF Rest

LEMMA FunctionNamedKeeps ==
    ASSUME Layout, SlotsDisjoint, FunctionNamed
    PROVE  Rest'
<1> DEFINE f == function_info.name
<1>1. classes' = classes
  BY DEF FunctionNamed
<1>2. /\ f \in Ids /\ Named(f, DeclFunction)
      /\ \A i \in Ids : functions'[i] = IF i = f THEN FunctionDecl ELSE functions[i]
      /\ FunctionDecl.scope = current_scope
  BY FunctionNamedFacts DEF Layout
<1> HIDE DEF f
<1>3. /\ \A i \in Ids, s \in ScopeIds : Stored(i, s)' => Stored(i, s)
      /\ UNCHANGED <<current_scope, scope_counter, address, extent,
                     global_address, local_address, class_info>>
      /\ \A i \in Ids, s \in ScopeIds : type'[i][s] = Undeclared => type[i][s] = Undeclared
  BY <1>2, NamedStores
<1>4. SizesAreNatural'
  BY <1>1, <1>3 DEF Layout, SizesAreNatural, Declared
<1>5. ExtentsAreAllocated'
  <2>1. \A i \in Ids : (functions'[i] # NULL /\ functions'[i].scope # current_scope) =>
          functions'[i] = functions[i]
    BY <1>2
  <2> QED
    BY <1>3, <2>1 DEF Layout, ExtentsAreAllocated
<1>6. SlotsDisjoint'
  BY <1>3 DEF SlotsDisjoint
<1> QED
  BY <1>4, <1>5, <1>6 DEF Rest

LEMMA OpenedKeeps ==
    ASSUME Layout, SlotsDisjoint, Opened
    PROVE  Rest'
<1>1. /\ scope_counter' = scope_counter + 1 /\ current_scope' = scope_counter'
      /\ UNCHANGED <<type, address, extent, classes, functions, class_info,
                     global_address, local_address>>
      /\ current_scope = GLOBAL_SCOPE /\ scope_counter \in Nat
  BY OpenedFacts DEF Layout
<1>2. SizesAreNatural'
  BY <1>1 DEF Layout, SizesAreNatural, Declared
<1>3. ExtentsAreAllocated'
  <2> SUFFICES ASSUME NEW i \in Ids, NEW s \in ScopeIds, Stored(i, s)
               PROVE  /\ 0 <= address[i][s]
                      /\ s <= scope_counter + 1
                      /\ s = GLOBAL_SCOPE => address[i][s] + extent[i][s] <= global_address
                      /\ s # scope_counter + 1
                      /\ \A g \in Ids : (functions[g] # NULL /\ functions[g].scope = s) =>
                           address[i][s] + extent[i][s] <= functions[g].local_var_size
    BY <1>1 DEF ExtentsAreAllocated, Stored, Declared
  <2>1. s <= scope_counter /\ s \in Nat
    BY SemanticAssumption DEF Layout, ExtentsAreAllocated, ScopeIds
  <2>2. \A g \in Ids : (functions[g] # NULL /\ functions[g].scope = s) => s # current_scope
    BY <1>1 DEF Layout, Names, ScopesHaveOwners, GLOBAL_SCOPE
  <2> QED
    BY <1>1, <2>1, <2>2 DEF Layout, ExtentsAreAllocated
<1>4. SlotsDisjoint'
  BY <1>1 DEF SlotsDisjoint, Stored, Declared
<1> QED
  BY <1>2, <1>3, <1>4 DEF Rest

LEMMA EndFunctionKeeps ==
    ASSUME Layout, SlotsDisjoint, Typed', EndFunction
    PROVE  Rest'
<1> DEFINE f == function_info.name
<1>1. /\ local_address' = 0 /\ current_scope' = GLOBAL_SCOPE
      /\ UNCHANGED <<scope_counter, type, address, extent, classes, class_info, global_address>>
      /\ current_scope = scope_counter /\ scope_counter > 0 /\ scope_counter \in Nat
  BY EndFunctionFacts DEF Layout
<1>2. /\ f \in Ids /\ functions[f] # NULL /\ functions[f].scope = scope_counter
      /\ \A g \in Ids : g # f => functions'[g] = functions[g]
      /\ functions'[f] # NULL /\ functions'[f].scope = scope_counter
      /\ functions'[f].local_var_size = local_address
  BY EndFunctionFacts DEF Layout
<1> HIDE DEF f
<1>3. \A g \in Ids : /\ functions'[g] # NULL <=> functions[g] # NULL
                     /\ functions[g] # NULL => functions'[g].scope = functions[g].scope
  BY <1>2
<1>4. SizesAreNatural'
  BY <1>1 DEF Layout, SizesAreNatural, Declared
<1>5. ExtentsAreAllocated'
  <2> SUFFICES ASSUME NEW i \in Ids, NEW s \in ScopeIds, Stored(i, s)
               PROVE  /\ 0 <= address[i][s]
                      /\ s <= scope_counter
                      /\ s = GLOBAL_SCOPE => address[i][s] + extent[i][s] <= global_address
                      /\ \A g \in Ids : (functions'[g] # NULL /\ functions'[g].scope = s) =>
                           address[i][s] + extent[i][s] <= functions'[g].local_var_size
    BY <1>1 DEF ExtentsAreAllocated, Stored, Declared
  <2>1. /\ 0 <= address[i][s] /\ s <= scope_counter
        /\ s = GLOBAL_SCOPE => address[i][s] + extent[i][s] <= global_address
    BY DEF Layout, ExtentsAreAllocated
  <2>2. ASSUME NEW g \in Ids, functions'[g] # NULL, functions'[g].scope = s
        PROVE  address[i][s] + extent[i][s] <= functions'[g].local_var_size
    <3>1. CASE s = current_scope
      <4>1. g = f
        BY <1>1, <1>2, <1>3, <2>2, <3>1 DEF Layout, Names, ScopesHaveOwners
      <4>2. s # GLOBAL_SCOPE
        BY <1>1, <3>1 DEF GLOBAL_SCOPE
      <4> QED
        BY <1>2, <3>1, <4>1, <4>2 DEF Layout, ExtentsAreAllocated
    <3>2. CASE s # current_scope
      <4>1. g # f
        BY <1>1, <1>2, <2>2, <3>2
      <4> QED
        BY <1>2, <2>2, <3>2, <4>1 DEF Layout, ExtentsAreAllocated
    <3> QED
      BY <3>1, <3>2
  <2> QED
    BY <2>1, <2>2
<1>6. SlotsDisjoint'
  BY <1>1 DEF SlotsDisjoint, Stored, Declared
<1> QED
  BY <1>4, <1>5, <1>6 DEF Rest

----------------------------------------------------------------------------
\* The analysis starts with nothing allocated.
LEMMA InitIInv ==
    ASSUME Init
    PROVE  IInv
<1>1. \A id \in Ids, s \in ScopeIds : type[id][s] = Undeclared /\ extent[id][s] = 0
  BY DEF Init
<1>2. SizesAreNatural
  BY <1>1 DEF Init, SizesAreNatural
<1>3. ExtentsAreAllocated /\ SlotsDisjoint
  BY <1>1 DEF ExtentsAreAllocated, SlotsDisjoint, Stored, Declared
<1> QED
  BY <1>2, <1>3, InitNames DEF IInv, Names

\* Every step keeps the invariant, one of the shapes at a time.
LEMMA NextIInv ==
    ASSUME NoStringFields, IInv, [Next]_vars
    PROVE  IInv'
<1>1. Layout /\ Names /\ SlotsDisjoint
  BY DEF IInv, Layout, Names
<1>2. Typed'
  BY TypesNext DEF IInv
<1>3. Rest'
  BY <1>1, <1>2, StepShapes, QuietKeeps, PlacedKeeps, PlacedStringKeeps, ClassNamedKeeps,
     FunctionNamedKeeps, OpenedKeeps, EndFunctionKeeps DEF PlacedSome
<1> QED
  BY <1>1, <1>3, NextNames DEF IInv, Names, Rest

\* The variables of a frame do not overlap: for any program whose classes
\* have no string fields, of any size.
THEOREM SlotsAreDisjoint ==
    ASSUME NoStringFields
    PROVE  Spec => []SlotsDisjoint
<1>1. Init => IInv
  BY InitIInv
<1>2. IInv /\ [Next]_vars => IInv'
  BY NextIInv
<1>3. IInv => SlotsDisjoint
  BY DEF IInv
<1> QED
  BY <1>1, <1>2, <1>3, PTL DEF Spec

\* The frame of a scope, as FrameSize chooses it, holds its variables.
LEMMA FramesFromIInv ==
    ASSUME IInv
    PROVE  FramesHoldLocals
<1> SUFFICES ASSUME NEW s \in ScopeIds, NEW id \in Ids, Stored(id, s)
             PROVE  0 <= address[id][s] /\ address[id][s] + extent[id][s] <= FrameSize(s)
  BY DEF FramesHoldLocals
<1>1. CASE s = GLOBAL_SCOPE
  BY <1>1 DEF IInv, ExtentsAreAllocated, FrameSize
<1>2. CASE s # GLOBAL_SCOPE /\ s = current_scope
  BY <1>2 DEF IInv, ExtentsAreAllocated, FrameSize
<1>3. CASE s # GLOBAL_SCOPE /\ s # current_scope
  <2> DEFINE owner == CHOOSE f \in Ids : functions[f] # NULL /\ functions[f].scope = s
  <2>1. s \in 1 .. scope_counter
    BY <1>3, SemanticAssumption DEF IInv, ExtentsAreAllocated, ScopeIds, GLOBAL_SCOPE, Typed
  <2>2. owner \in Ids /\ functions[owner] # NULL /\ functions[owner].scope = s
    BY <1>3, <2>1 DEF IInv, ScopesHaveOwners
  <2>3. FrameSize(s) = functions[owner].local_var_size
    BY <1>3 DEF FrameSize
  <2> QED
    BY <1>3, <2>2, <2>3 DEF IInv, ExtentsAreAllocated
<1> QED
  BY <1>1, <1>2, <1>3

\* local_var_size covers every variable of its function, and the counter of
\* the globals every global.
THEOREM FramesAreLargeEnough ==
    ASSUME NoStringFields
    PROVE  Spec => []FramesHoldLocals
<1>1. Init => IInv
  BY InitIInv
<1>2. IInv /\ [Next]_vars => IInv'
  BY NextIInv
<1>3. IInv => FramesHoldLocals
  BY FramesFromIInv
<1> QED
  BY <1>1, <1>2, <1>3, PTL DEF Spec

----------------------------------------------------------------------------
(* Where the parts of a frame lie: parameter i of a function at its i-th   *)
(* word, in any program, and an attribute inside its instance, where no    *)
(* field is a string.                                                      *)

\* The parameters of one list are the first words of a scope.
AtFirstWords(params, s) ==
    (\A i \in DOMAIN params : params[i].type # "string") =>
        \A i \in DOMAIN params :
            /\ Declared(params[i].id, s)
            /\ address[params[i].id][s] = INT_SIZE * (i - 1)

\* While its parameters are parsed, nothing else is in the frame of a function.
ParamsPlaced ==
    /\ mode = "params" =>
         /\ AtFirstWords(function_info.params, current_scope)
         /\ (\A i \in DOMAIN function_info.params : function_info.params[i].type # "string") =>
              local_address = INT_SIZE * Len(function_info.params)
    /\ \A f \in Ids : functions[f] # NULL => AtFirstWords(functions[f].params, functions[f].scope)

\* Every field of a list lies within so many bytes.
FieldsInside(fields, bytes) ==
    \A i \in DOMAIN fields :
        /\ fields[i].type # "string"
        /\ 0 <= fields[i].offset
        /\ fields[i].offset + size_of(fields[i].type) <= bytes

\* The fields of a class lie within its size, which its instances have.
ClassesLaidOut ==
    /\ class_info # NULL => FieldsInside(class_info.fields, class_info.bytes)
    /\ \A c \in Ids : classes[c] # NULL => FieldsInside(classes[c].fields, classes[c].size)
    /\ \A id \in Ids, s \in ScopeIds : type[id][s] = Variable("ident") =>
         extent[id][s] = classes[class_of[id][s]].size

----------------------------------------------------------------------------
\* Parameters.

\* AtFirstWords of a list and a scope after a step.
AtFirstWordsNext(params, s) ==
    (\A i \in DOMAIN params : params[i].type # "string") =>
        \A i \in DOMAIN params :
            /\ type'[params[i].id][s] # Undeclared
            /\ address'[params[i].id][s] = INT_SIZE * (i - 1)

LEMMA FirstWordsStay ==
    ASSUME Names, [Next]_vars
    PROVE  \A params \in Seq(Params), s \in ScopeIds :
             AtFirstWords(params, s) => AtFirstWordsNext(params, s)
<1>1. Final
  BY StepIsFinal
<1>2. ASSUME NEW params \in Seq(Params), NEW s \in ScopeIds, AtFirstWords(params, s),
             NEW i \in DOMAIN params, \A j \in DOMAIN params : params[j].type # "string"
      PROVE  type'[params[i].id][s] # Undeclared /\ address'[params[i].id][s] = INT_SIZE * (i - 1)
  <2>1. params[i].id \in Ids
    <3>1. params[i] \in Params
      BY <1>2
    <3> QED
      BY <3>1 DEF Params
  <2>2. Declared(params[i].id, s) /\ address[params[i].id][s] = INT_SIZE * (i - 1)
    BY <1>2 DEF AtFirstWords
  <2> QED
    BY <1>1, <2>1, <2>2 DEF Final, Declared
<1> QED
  BY <1>2 DEF AtFirstWordsNext

\* Between the name of a function and its body there are only parameters.
LEMMA ParamsSteps ==
    ASSUME mode = "params", [Next]_vars
    PROVE  \/ UNCHANGED <<mode, function_info, current_scope, local_address>>
           \/ \E id \in Ids, t \in VarTypes : AddParam(id, t) /\ ~Declared(id, current_scope)
           \/ mode' = "body"
<1>1. CASE UNCHANGED vars
  BY <1>1 DEF vars, scopeVars, addressVars
<1>2. \A code : Fail(code) => UNCHANGED <<mode, function_info, current_scope, local_address>>
  BY DEF Fail, scopeVars, addressVars
<1>3. ~Body
  BY DEF Body, Running, LocalVariable, LocalInstance, InitializedVariable, UseVariable, UseVector,
     UseAttribute, Assign, Call
<1>4. CASE TopLevel
  <2>1. \/ \E id \in Ids, t \in VarTypes : AddParam(id, t)
        \/ DeclareFunction
    BY <1>4 DEF TopLevel, Running, GlobalVariable, GlobalVector, GlobalInstance,
       GlobalInstanceVector, CreateClassFields, ClassAddField, DeclareClass, CreateParams,
       EndFunction, EndProgram
  <2>2. \A id \in Ids, t \in VarTypes : AddParam(id, t) /\ Declared(id, current_scope) =>
          UNCHANGED <<mode, function_info, current_scope, local_address>>
    BY <1>2 DEF AddParam
  <2>3. DeclareFunction => mode' = "body" \/ UNCHANGED <<mode, function_info, current_scope, local_address>>
    BY <1>2 DEF DeclareFunction
  <2> QED
    BY <2>1, <2>2, <2>3
<1> QED
  BY <1>1, <1>3, <1>4 DEF Next

\* add_param appends the parameter and gives it the next word.
LEMMA AddParamPlaces ==
    ASSUME Names, ParamsPlaced, NEW id \in Ids, NEW t \in VarTypes, AddParam(id, t),
           ~Declared(id, current_scope), [Next]_vars
    PROVE  LET params == function_info'.params
           IN  /\ AtFirstWordsNext(params, current_scope')
               /\ (\A i \in DOMAIN params : params[i].type # "string") =>
                    local_address' = INT_SIZE * Len(params)
<1> DEFINE old == function_info.params
           new == function_info'.params
           param == [id |-> id, type |-> t]
<1>1. /\ mode = "params" /\ current_scope' = current_scope
      /\ function_info' = [function_info EXCEPT !.params = Append(@, param)]
      /\ EnterPrimitive(id, Variable(t), INT_SIZE)
  BY DEF AddParam, Running, scopeVars
<1>2. /\ function_info \in FunctionInfos /\ current_scope \in ScopeIds
      /\ current_scope # GLOBAL_SCOPE /\ local_address \in Int
  BY <1>1, SemanticAssumption DEF Names, ScopeDiscipline, Typed, ScopeIds, GLOBAL_SCOPE
<1>3. param.id = id /\ param.type = t /\ param \in Params
  BY SemanticAssumption DEF Params
<1>4. old \in Seq(Params) /\ new = Append(old, param)
  BY <1>1, <1>2 DEF FunctionInfos
<1>5. /\ AtFirstWords(old, current_scope)
      /\ (\A i \in DOMAIN old : old[i].type # "string") => local_address = INT_SIZE * Len(old)
  BY <1>1 DEF ParamsPlaced
<1>6. AtFirstWordsNext(old, current_scope)
  BY <1>2, <1>4, <1>5, FirstWordsStay
<1>7. t # "string" => /\ type'[id][current_scope] # Undeclared
                      /\ address'[id][current_scope] = local_address
                      /\ local_address' = local_address + INT_SIZE
  <2> SUFFICES ASSUME t # "string"
               PROVE  /\ type'[id][current_scope] # Undeclared
                      /\ address'[id][current_scope] = local_address
                      /\ local_address' = local_address + INT_SIZE
    OBVIOUS
  <2>1. Variable(t).of = t
    BY DeclTypeFacts
  <2>2. Enter(id, Variable(t), INT_SIZE, NULL)
    BY <1>1, <2>1 DEF EnterPrimitive
  <2>3. /\ type' = [type EXCEPT ![id][current_scope] = Variable(t)]
        /\ address' = [address EXCEPT ![id][current_scope] = local_address]
        /\ local_address' = local_address + INT_SIZE
    BY <1>2, <2>2 DEF Enter, NextAddress, Allocate
  <2>4. type'[id][current_scope] = Variable(t) /\ address'[id][current_scope] = local_address
    BY <1>2, <2>3 DEF Names, Typed
  <2> QED
    BY <2>3, <2>4, DeclTypeFacts
<1>8. ASSUME \A i \in DOMAIN new : new[i].type # "string"
      PROVE  /\ \A i \in DOMAIN new : /\ type'[new[i].id][current_scope] # Undeclared
                                      /\ address'[new[i].id][current_scope] = INT_SIZE * (i - 1)
             /\ local_address' = INT_SIZE * Len(new)
  <2> HIDE DEF old, new, param
  <2>1. /\ Len(new) = Len(old) + 1 /\ Len(old) \in Nat
        /\ DOMAIN new = 1 .. Len(old) + 1 /\ DOMAIN old = 1 .. Len(old)
        /\ \A i \in 1 .. Len(old) : new[i] = old[i]
        /\ new[Len(old) + 1] = param
    BY <1>3, <1>4, AppendProperties
  <2>2. \A i \in DOMAIN old : i \in DOMAIN new /\ new[i] = old[i]
    BY <2>1
  <2>3. \A i \in DOMAIN old : old[i].type # "string"
    BY <1>8, <2>2
  <2>4. t # "string"
    <3>1. Len(old) + 1 \in DOMAIN new
      BY <2>1
    <3> QED
      BY <1>3, <1>8, <2>1, <3>1
  <2>5. local_address = INT_SIZE * Len(old)
    BY <1>5, <2>3
  <2>6. local_address' = INT_SIZE * Len(new)
    BY <1>7, <2>1, <2>4, <2>5 DEF INT_SIZE
  <2>7. ASSUME NEW i \in DOMAIN new
        PROVE  /\ type'[new[i].id][current_scope] # Undeclared
               /\ address'[new[i].id][current_scope] = INT_SIZE * (i - 1)
    <3>1. CASE i \in DOMAIN old
      BY <1>6, <2>2, <2>3, <3>1 DEF AtFirstWordsNext
    <3>2. CASE i \notin DOMAIN old
      <4>1. i = Len(old) + 1
        BY <2>1, <3>2
      <4>2. new[i] = param /\ i - 1 = Len(old)
        BY <2>1, <4>1
      <4> QED
        BY <1>3, <1>7, <2>4, <2>5, <4>2
    <3> QED
      BY <3>1, <3>2
  <2> QED
    BY <2>6, <2>7
<1> QED
  BY <1>1, <1>8 DEF AtFirstWordsNext

LEMMA ParamsPlacedStep ==
    ASSUME Names, ParamsPlaced, [Next]_vars
    PROVE  ParamsPlaced'
<1>1. Typed'
  BY TypesNext DEF Names
<1>2. ASSUME NEW f \in Ids, functions'[f] # NULL
      PROVE  AtFirstWordsNext(functions'[f].params, functions'[f].scope)
  <2>1. ASSUME functions[f] # NULL, functions'[f].params = functions[f].params,
               functions'[f].scope = functions[f].scope
        PROVE  AtFirstWordsNext(functions'[f].params, functions'[f].scope)
    <3>1. functions[f] \in FunctionDecls
      BY <2>1 DEF Names, Typed
    <3>2. functions[f].params \in Seq(Params) /\ functions[f].scope \in ScopeIds
      BY <3>1 DEF FunctionDecls
    <3>3. AtFirstWords(functions[f].params, functions[f].scope)
      BY <2>1 DEF ParamsPlaced
    <3> QED
      BY <2>1, <3>2, <3>3, FirstWordsStay
  <2>2. CASE functions' = functions
    BY <1>2, <2>1, <2>2
  <2>3. CASE FunctionNamed
    <3>1. CASE f = function_info.name
      <4>1. /\ functions'[f].params = function_info.params /\ functions'[f].scope = current_scope
            /\ function_info \in FunctionInfos
        BY <2>3, <3>1, FunctionNamedFacts
      <4>2. function_info.params \in Seq(Params) /\ current_scope \in ScopeIds
        BY <4>1 DEF FunctionInfos, Names, Typed
      <4>3. AtFirstWords(function_info.params, current_scope)
        BY <2>3 DEF FunctionNamed, ParamsPlaced
      <4> QED
        BY <4>1, <4>2, <4>3, FirstWordsStay
    <3>2. CASE f # function_info.name
      <4>1. functions'[f] = functions[f]
        BY <2>3, <3>2, FunctionNamedFacts
      <4> QED
        BY <1>2, <2>1, <4>1
    <3> QED
      BY <3>1, <3>2
  <2>4. CASE EndFunction
    <3>1. /\ functions'[f].params = functions[f].params /\ functions'[f].scope = functions[f].scope
          /\ functions[f] # NULL
      BY <1>1, <1>2, <2>4, EndFunctionFacts
    <3> QED
      BY <2>1, <3>1
  <2>5. Quiet \/ PlacedSome \/ ClassNamed \/ Opened => functions' = functions
    BY DEF Quiet, PlacedSome, Placed, PlacedString, ClassNamed, Opened, CreateParams
  <2> QED
    BY <1>1, <2>2, <2>3, <2>4, <2>5, StepShapes
<1>3. ASSUME mode' = "params"
      PROVE  /\ AtFirstWordsNext(function_info'.params, current_scope')
             /\ (\A i \in DOMAIN function_info'.params : function_info'.params[i].type # "string") =>
                  local_address' = INT_SIZE * Len(function_info'.params)
  <2>1. CASE mode = "params"
    <3>1. CASE UNCHANGED <<mode, function_info, current_scope, local_address>>
      <4>1. function_info \in FunctionInfos /\ current_scope \in ScopeIds
        BY <2>1 DEF Names, ScopeDiscipline, Typed
      <4>2. function_info.params \in Seq(Params)
        BY <4>1 DEF FunctionInfos
      <4>3. AtFirstWordsNext(function_info.params, current_scope)
        BY <2>1, <4>1, <4>2, FirstWordsStay DEF ParamsPlaced
      <4> QED
        BY <2>1, <3>1, <4>3 DEF ParamsPlaced
    <3>2. CASE \E id \in Ids, t \in VarTypes : AddParam(id, t) /\ ~Declared(id, current_scope)
      BY <3>2, AddParamPlaces
    <3> QED
      BY <1>3, <2>1, <3>1, <3>2, ParamsSteps
  <2>2. CASE mode # "params"
    <3>1. Opened
      BY <1>1, <1>3, <2>2, StepShapes
         DEF Quiet, PlacedSome, Placed, PlacedString, ClassNamed, FunctionNamed, EndFunction
    <3>2. function_info'.params = <<>> /\ local_address' = 0
      BY <3>1, OpenedFacts
    <3>3. DOMAIN <<>> = {} /\ INT_SIZE * Len(<<>>) = 0
      BY DEF INT_SIZE
    <3> QED
      BY <3>2, <3>3 DEF AtFirstWordsNext
  <2> QED
    BY <2>1, <2>2
<1> QED
  BY <1>2, <1>3 DEF ParamsPlaced, AtFirstWords, AtFirstWordsNext, Declared

\* The i-th word of a callee's frame is its i-th parameter, in any program
\* and whatever the number of parameters, unless one of them is a string.
THEOREM ParametersAreInOrder == Spec => []ParametersInOrder
<1>1. Init => Names /\ ParamsPlaced
  BY InitNames DEF Init, ParamsPlaced
<1>2. Names /\ ParamsPlaced /\ [Next]_vars => Names' /\ ParamsPlaced'
  BY NextNames, ParamsPlacedStep
<1>3. ParamsPlaced => ParametersInOrder
  BY DEF ParamsPlaced, AtFirstWords, ParametersInOrder
<1> QED
  BY <1>1, <1>2, <1>3, PTL DEF Spec

----------------------------------------------------------------------------
\* Attributes.

\* A declared variable keeps its extent and its class, a class its fields.
LEMMA ExtentsStay ==
    ASSUME Names, [Next]_vars
    PROVE  /\ \A id \in Ids, s \in ScopeIds : Declared(id, s) =>
                extent'[id][s] = extent[id][s] /\ class_of'[id][s] = class_of[id][s]
           /\ \A c \in Ids : classes[c] # NULL => classes'[c] = classes[c]
<1>1. Typed'
  BY TypesNext DEF Names
<1>2. CASE Quiet
  BY <1>2 DEF Quiet, declVars
<1>3. ASSUME NEW id \in Ids, NEW t \in DeclTypes, NEW bytes \in Int,
             NEW class \in Ids \cup {NULL}, Placed(id, t, bytes, class)
      PROVE  /\ \A i \in Ids, s \in ScopeIds : Declared(i, s) =>
                  extent'[i][s] = extent[i][s] /\ class_of'[i][s] = class_of[i][s]
             /\ classes' = classes
  <2>1. ~Declared(id, current_scope)
    BY <1>3 DEF Placed
  <2>2. /\ \A i \in Ids, s \in ScopeIds : ~(i = id /\ s = current_scope) =>
             extent'[i][s] = extent[i][s] /\ class_of'[i][s] = class_of[i][s]
        /\ classes' = classes
    BY <1>3, PlacedPointwise
  <2> QED
    BY <2>1, <2>2
<1>4. ASSUME NEW id \in Ids, NEW t \in DeclTypes, PlacedString(id, t)
      PROVE  UNCHANGED <<extent, class_of, classes>>
  BY <1>4, StringPointwise
<1>5. CASE ClassNamed
  <2>1. /\ class_info.class \in Ids /\ Named(class_info.class, DeclClass)
        /\ \A c \in Ids : c # class_info.class => classes'[c] = classes[c]
    BY <1>5, ClassNamedFacts
  <2>2. UNCHANGED <<extent, class_of>> /\ type[class_info.class][GLOBAL_SCOPE] = Undeclared
    BY <2>1, NamedMovesNothing
  <2>3. classes[class_info.class] = NULL
    BY <2>1, <2>2, DeclTypeFacts DEF Names, NamesAreComplete
  <2> QED
    BY <2>1, <2>2, <2>3
<1>6. CASE FunctionNamed
  BY <1>6 DEF FunctionNamed, Named
<1>7. CASE Opened
  BY <1>7, OpenedFacts
<1>8. CASE EndFunction
  BY <1>8 DEF EndFunction, declVars
<1> QED
  BY <1>1, <1>2, <1>3, <1>4, <1>5, <1>6, <1>7, <1>8, StepShapes DEF PlacedSome

\* The class being parsed starts empty, gets one more field, or stays.
LEMMA ClassInfoSteps ==
    ASSUME [Next]_vars
    PROVE  \/ class_info' = class_info
           \/ \E class \in Ids : CreateClassFields(class)
           \/ \E id \in FieldIds, t \in FieldTypes : ClassAddField(id, t)
<1>1. CASE UNCHANGED vars
  BY <1>1 DEF vars
<1>2. \A id, t : Declare(id, t) => class_info' = class_info
  BY DEF Declare, Fail
<1>3. \A class, id : DeclareInstance(class, id) => class_info' = class_info
  BY DEF DeclareInstance, Fail
<1>4. CASE TopLevel
  BY <1>2, <1>3, <1>4 DEF TopLevel, GlobalVariable, GlobalVector, GlobalInstance,
     GlobalInstanceVector, DeclareClass, CreateParams, AddParam, DeclareFunction,
     EndFunction, EndProgram, Fail
<1>5. CASE Body
  <2>1. \A code, used : Use(code, used) => class_info' = class_info
    BY DEF Use, Fail
  <2> QED
    BY <1>2, <1>3, <1>5, <2>1 DEF Body, LocalVariable, LocalInstance, InitializedVariable,
       UseVariable, UseVector, UseAttribute, Assign, Call, Fail
<1> QED
  BY <1>1, <1>4, <1>5 DEF Next

\* class_add_field puts the field behind those there are.
LEMMA FieldGoesBehind ==
    ASSUME NoStringFields, Names, class_info # NULL, class_info.bytes >= 0,
           FieldsInside(class_info.fields, class_info.bytes),
           NEW id \in FieldIds, NEW t \in FieldTypes, ClassAddField(id, t)
    PROVE  FieldsInside(class_info'.fields, class_info'.bytes)
<1> DEFINE old == class_info.fields
           new == class_info'.fields
           bytes == class_info.bytes
           field == [id |-> id, type |-> t, offset |-> bytes]
<1>1. class_info \in ClassInfos
  BY DEF Names, Typed
<1>2. /\ t \in PrimTypes /\ t # "string" /\ id \in Ids
      /\ size_of(t) \in Nat
  BY SemanticAssumption, SizeOfFacts DEF NoStringFields
<1>3. bytes \in Int /\ old \in Seq(Fields)
  BY <1>1 DEF ClassInfos
<1>4. field.type = t /\ field.offset = bytes /\ field \in Fields
  BY <1>2, <1>3 DEF Fields
<1>5. class_info' = [class_info EXCEPT !.fields = Append(old, field), !.bytes = @ + size_of(t)]
  BY DEF ClassAddField
<1> HIDE DEF field
<1>6. new = Append(old, field) /\ class_info'.bytes = bytes + size_of(t)
  <2>1. class_info = [class |-> class_info.class, fields |-> old, bytes |-> bytes]
    BY <1>1 DEF ClassInfos
  <2>2. class_info' = [class |-> class_info.class, fields |-> Append(old, field),
                       bytes |-> bytes + size_of(t)]
    BY <1>5, <2>1
  <2> QED
    BY <2>2
<1> HIDE DEF old, new, bytes
<1>7. /\ DOMAIN new = 1 .. Len(old) + 1 /\ DOMAIN old = 1 .. Len(old)
      /\ \A i \in 1 .. Len(old) : new[i] = old[i]
      /\ new[Len(old) + 1] = field /\ Len(old) \in Nat
  BY <1>3, <1>4, <1>6, AppendProperties
<1>8. ASSUME NEW i \in DOMAIN new
      PROVE  /\ new[i].type # "string"
             /\ 0 <= new[i].offset
             /\ new[i].offset + size_of(new[i].type) <= bytes + size_of(t)
  <2>1. CASE i \in DOMAIN old
    <3>1. old[i] \in Fields
      BY <1>3, <2>1
    <3>2. old[i].offset \in Int /\ old[i].type \in PrimTypes
      BY <3>1 DEF Fields
    <3>3. size_of(old[i].type) \in Int
      BY <3>2, SizeOfFacts
    <3>4. /\ old[i].type # "string" /\ 0 <= old[i].offset
          /\ old[i].offset + size_of(old[i].type) <= bytes
      BY <2>1 DEF FieldsInside, old, bytes
    <3>5. old[i].offset + size_of(old[i].type) <= bytes + size_of(t)
      BY <1>2, <1>3, <3>2, <3>3, <3>4
    <3>6. new[i] = old[i]
      BY <1>7, <2>1
    <3> QED
      BY <3>4, <3>5, <3>6
  <2>2. CASE i \notin DOMAIN old
    <3>1. new[i] = field
      BY <1>7, <2>2
    <3>2. 0 <= bytes
      BY <1>3 DEF bytes
    <3> QED
      BY <1>2, <1>3, <1>4, <3>1, <3>2
  <2> QED
    BY <2>1, <2>2
<1> QED
  BY <1>6, <1>8 DEF FieldsInside, new

LEMMA ClassesLaidOutStep ==
    ASSUME NoStringFields, IInv, ClassesLaidOut, [Next]_vars
    PROVE  ClassesLaidOut'
<1>1. Names /\ Typed'
  BY TypesNext DEF IInv, Names
<1>2. class_info' # NULL => FieldsInside(class_info'.fields, class_info'.bytes)
  <2>1. CASE class_info' = class_info
    BY <2>1 DEF ClassesLaidOut
  <2>2. ASSUME NEW class \in Ids, CreateClassFields(class)
        PROVE  FieldsInside(class_info'.fields, class_info'.bytes)
    BY <2>2 DEF CreateClassFields, FieldsInside
  <2>3. ASSUME NEW id \in FieldIds, NEW t \in FieldTypes, ClassAddField(id, t)
        PROVE  FieldsInside(class_info'.fields, class_info'.bytes)
    <3>1. class_info # NULL
      BY <2>3 DEF ClassAddField, Running, IInv, ScopeDiscipline
    <3> QED
      BY <1>1, <2>3, <3>1, FieldGoesBehind DEF ClassesLaidOut, IInv, SizesAreNatural
  <2> QED
    BY <2>1, <2>2, <2>3, ClassInfoSteps
<1>3. ASSUME NEW c \in Ids, classes'[c] # NULL
      PROVE  FieldsInside(classes'[c].fields, classes'[c].size)
  <2>1. CASE classes'[c] = classes[c]
    BY <1>3, <2>1 DEF ClassesLaidOut
  <2>2. CASE ClassNamed /\ c = class_info.class
    <3>1. /\ class_info # NULL
          /\ classes'[c].fields = class_info.fields /\ classes'[c].size = class_info.bytes
      BY <1>1, <2>2, ClassNamedFacts, SemanticAssumption
    <3> QED
      BY <3>1 DEF ClassesLaidOut
  <2>3. CASE ClassNamed /\ c # class_info.class
    BY <1>1, <2>1, <2>3, ClassNamedFacts
  <2>4. ~ClassNamed => classes' = classes
    BY <1>1, StepShapes DEF Quiet, PlacedSome, Placed, PlacedString, FunctionNamed, Opened,
       CreateParams, EndFunction
  <2> QED
    BY <2>1, <2>2, <2>3, <2>4
<1>4. ASSUME NEW id \in Ids, NEW s \in ScopeIds, type'[id][s] = Variable("ident")
      PROVE  extent'[id][s] = classes'[class_of'[id][s]].size
  <2>1. CASE type[id][s] = Variable("ident")
    <3>1. Declared(id, s)
      BY <2>1, DeclTypeFacts DEF Declared
    <3>2. /\ class_of[id][s] \in Ids /\ classes[class_of[id][s]] # NULL
          /\ extent[id][s] = classes[class_of[id][s]].size
      BY <2>1 DEF IInv, NamesAreComplete, ClassesLaidOut
    <3> QED
      BY <1>1, <3>1, <3>2, ExtentsStay
  <2>2. CASE type[id][s] # Variable("ident")
    <3>1. ~UNCHANGED type
      BY <1>4, <2>2
    <3>2. ASSUME NEW i \in Ids, NEW t \in DeclTypes, NEW bytes \in Int,
                 NEW class \in Ids \cup {NULL}, Placed(i, t, bytes, class)
          PROVE  extent'[id][s] = classes'[class_of'[id][s]].size
      <4>1. i = id /\ s = current_scope
        BY <1>1, <1>4, <2>2, <3>2, PlacedPointwise
      <4>2. /\ type'[id][s] = t /\ class_of'[id][s] = class /\ extent'[id][s] = bytes
            /\ classes' = classes
        BY <1>1, <3>2, <4>1, PlacedPointwise
      <4>3. bytes = classes[class].size
        BY <1>4, <3>2, <4>2 DEF Placed
      <4> QED
        BY <4>2, <4>3
    <3>3. ASSUME NEW i \in Ids, NEW t \in DeclTypes, PlacedString(i, t)
          PROVE  FALSE
      <4>1. t # Variable("ident")
        BY <3>3 DEF PlacedString
      <4> QED
        BY <1>1, <1>4, <2>2, <3>3, <4>1, StringPointwise
    <3>4. \A i \in Ids : \A t \in {DeclClass, DeclFunction} : ~Named(i, t)
      BY <1>1, <1>4, <2>2, NamedMovesNothing, DeclTypeFacts
    <3>5. ~Quiet /\ ~Opened /\ ~EndFunction
      BY <3>1 DEF Quiet, Opened, CreateParams, EndFunction, declVars
    <3>6. ~ClassNamed /\ ~FunctionNamed
      BY <1>1, <3>4, ClassNamedFacts, FunctionNamedFacts
    <3> QED
      BY <1>1, <3>2, <3>3, <3>5, <3>6, StepShapes DEF PlacedSome
  <2> QED
    BY <2>1, <2>2
<1> QED
  BY <1>2, <1>3, <1>4 DEF ClassesLaidOut

\* A node of an attribute that lies in its instance.
Inside(n) ==
    n.kind = "attribute" =>
        /\ address[n.id][n.scope] <= n.address
        /\ n.address + n.bytes <= address[n.id][n.scope] + extent[n.id][n.scope]

\* The field that set_attribute_address stops at lies within the instance.
LEMMA AttributeInside ==
    ASSUME IInv, ClassesLaidOut, NEW id \in Ids, NEW attribute \in Ids,
           AttributeStatus(id, attribute) = "ok"
    PROVE  LET field == classes[class_of[id][Resolve(id)]].fields
                          [CHOOSE i \in FieldHits(id, attribute) :
                               \A j \in FieldHits(id, attribute) : i <= j]
           IN  Inside(Node("attribute", id, Resolve(id), field.offset, size_of(field.type)))
<1> DEFINE s == Resolve(id)
           class == class_of[id][s]
           fields == classes[class].fields
           place == CHOOSE i \in FieldHits(id, attribute) :
                        \A j \in FieldHits(id, attribute) : i <= j
           field == fields[place]
           node == Node("attribute", id, s, field.offset, size_of(field.type))
<1>1. /\ s \in ScopeIds /\ type[id][s] = Variable("ident")
      /\ place \in DOMAIN fields /\ field \in Fields
  BY AttributeFacts DEF IInv
<1>2. /\ class \in Ids /\ classes[class] # NULL /\ classes[class] \in ClassDecls
      /\ extent[id][s] = classes[class].size
  BY <1>1 DEF IInv, NamesAreComplete, ClassesLaidOut, Typed
<1>3. FieldsInside(fields, classes[class].size)
  BY <1>2 DEF ClassesLaidOut
<1>4. /\ address[id][s] \in Int /\ extent[id][s] \in Int
  BY <1>1 DEF IInv, Typed
<1> HIDE DEF s, place
<1>5. field.offset \in Int /\ size_of(field.type) \in Int
  BY <1>1, SizeOfFacts DEF Fields
<1>6. 0 <= field.offset /\ field.offset + size_of(field.type) <= extent[id][s]
  BY <1>1, <1>2, <1>3 DEF FieldsInside
<1>7. /\ node.id = id /\ node.scope = s /\ node.bytes = size_of(field.type)
      /\ node.address = address[id][s] + field.offset
  BY DEF Node
<1> HIDE DEF node, field
<1>8. \A a, o, z, e \in Int : 0 <= o /\ o + z <= e => a <= a + o /\ (a + o) + z <= a + e
  OBVIOUS
<1>9. Inside(node)
  BY <1>4, <1>5, <1>6, <1>7, <1>8 DEF Inside
<1> QED
  BY <1>9 DEF node, field, place, s

\* A step that adds a node of an attribute is UseAttribute.
LEMMA NewAttributes ==
    ASSUME [Next]_vars, NEW n \in nodes', n \notin nodes, n.kind = "attribute"
    PROVE  \E id \in Ids, attribute \in Ids : UseAttribute(id, attribute)
<1>1. nodes' # nodes
  OBVIOUS
<1>2. ~UNCHANGED vars
  BY <1>1 DEF vars, useVars
<1>3. ~TopLevel
  BY <1>1 DEF TopLevel, GlobalVariable, GlobalVector, GlobalInstance, GlobalInstanceVector,
     CreateClassFields, ClassAddField, DeclareClass, CreateParams, AddParam, DeclareFunction,
     EndFunction, EndProgram, Declare, DeclareInstance, Fail, useVars
<1>4. \A id : /\ \A t : ~LocalVariable(id, t)
              /\ \A class : ~LocalInstance(class, id)
              /\ \A args : ~Call(id, args)
  BY <1>1 DEF LocalVariable, LocalInstance, Call, Declare, DeclareInstance, Fail, useVars
<1>5. \A code, m : Use(code, {m}) => n = m
  BY <1>1 DEF Use, Fail, useVars
<1>6. \A id, s, offset, bytes : Node("variable", id, s, offset, bytes).kind = "variable"
                                /\ Node("vector", id, s, offset, bytes).kind = "vector"
  BY DEF Node
<1>7. \A id : ~UseVariable(id)
  <2>1. \A id : UseVariable(id) => n = Node("variable", id, Resolve(id), 0, INT_SIZE)
    BY <1>5 DEF UseVariable
  <2> QED
    BY <1>6, <2>1
<1>8. \A id : ~UseVector(id)
  <2>1. \A id : UseVector(id) => n = Node("vector", id, Resolve(id), 0, INT_SIZE)
    BY <1>5 DEF UseVector
  <2> QED
    BY <1>6, <2>1
<1>9. \A id, value : ~Assign(id, value)
  <2>1. \A id, value : Assign(id, value) => n = Node("variable", id, Resolve(id), 0, INT_SIZE)
    BY <1>5 DEF Assign
  <2> QED
    BY <1>6, <2>1
<1>10. \A id, t, source : ~InitializedVariable(id, t, source)
  <2> SUFFICES ASSUME NEW id, NEW t, NEW source, InitializedVariable(id, t, source)
               PROVE  FALSE
    OBVIOUS
  <2>1. VariableStatus(source) = "ok" /\ ~Declared(id, current_scope)
    BY <1>1 DEF InitializedVariable, Fail, useVars
  <2>2. \/ n = Node("variable", source, Resolve(source), 0, INT_SIZE)
        \/ n = [kind |-> "variable", id |-> id, at |-> current_scope, scope |-> current_scope,
                address |-> address'[id][current_scope], bytes |-> INT_SIZE]
    BY <2>1 DEF InitializedVariable
  <2>3. n.kind = "variable"
    BY <1>6, <2>2
  <2> QED
    BY <2>3
<1> QED
  BY <1>2, <1>3, <1>4, <1>7, <1>8, <1>9, <1>10 DEF Next, Body

LEMMA AttributesStep ==
    ASSUME IInv, AnnotationsCurrent, ClassesLaidOut, AttributesInside, [Next]_vars
    PROVE  AttributesInside'
<1>1. SUFFICES ASSUME NEW n \in nodes', n.kind = "attribute"
               PROVE  /\ address'[n.id][n.scope] <= n.address
                      /\ n.address + n.bytes <= address'[n.id][n.scope] + extent'[n.id][n.scope]
  BY DEF AttributesInside
<1>2. Names
  BY DEF IInv, Names
<1>3. CASE n \in nodes
  <2>1. n.id \in Ids /\ n.scope \in ScopeIds /\ Declared(n.id, n.scope)
    BY <1>3 DEF AnnotationsCurrent, IInv, Typed, Nodes
  <2>2. address'[n.id][n.scope] = address[n.id][n.scope]
    BY <1>2, <2>1, StepIsFinal DEF Final
  <2>3. extent'[n.id][n.scope] = extent[n.id][n.scope]
    BY <1>2, <2>1, ExtentsStay
  <2> QED
    BY <1>1, <1>3, <2>2, <2>3 DEF AttributesInside
<1>4. CASE n \notin nodes
  <2>1. PICK id \in Ids, attribute \in Ids : UseAttribute(id, attribute)
    BY <1>1, <1>4, NewAttributes
  <2> DEFINE field == classes[class_of[id][Resolve(id)]].fields
                        [CHOOSE i \in FieldHits(id, attribute) :
                             \A j \in FieldHits(id, attribute) : i <= j]
             node == Node("attribute", id, Resolve(id), field.offset, size_of(field.type))
  <2>2. Use(AttributeStatus(id, attribute), {node})
    BY <2>1 DEF UseAttribute
  <2> HIDE DEF node, field
  <2>3. /\ AttributeStatus(id, attribute) = "ok" /\ n = node
        /\ UNCHANGED <<address, extent>>
    BY <1>4, <2>2 DEF Use, Fail, useVars, declVars
  <2>4. Inside(node)
    BY <2>3, AttributeInside DEF node, field
  <2> QED
    BY <1>1, <2>3, <2>4 DEF Inside
<1> QED
  BY <1>3, <1>4

\* An attribute that the code generator reads lies in the bytes of its
\* instance: for any program whose classes have no string fields.
THEOREM AttributesAreInside ==
    ASSUME NoStringFields
    PROVE  Spec => []AttributesInside
<1> DEFINE Inv == IInv /\ AnnotationsCurrent /\ ClassesLaidOut /\ AttributesInside
<1>1. Init => Inv
  <2>1. Init => ClassesLaidOut
    BY DeclTypeFacts DEF Init, ClassesLaidOut
  <2> QED
    BY <2>1, InitIInv DEF Init, AnnotationsCurrent, AttributesInside
<1>2. Inv /\ [Next]_vars => Inv'
  <2>1. IInv => Names
    BY DEF IInv, Names
  <2> QED
    BY <2>1, NextIInv, AnnotationsStep, ClassesLaidOutStep, AttributesStep
<1>3. Inv => AttributesInside
  OBVIOUS
<1> QED
  BY <1>1, <1>2, <1>3, PTL DEF Spec
=============================================================================
