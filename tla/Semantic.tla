------------------------------ MODULE Semantic ------------------------------
(***************************************************************************)
(* The semantic analysis of src/src/cc_semantic.c, driven by the actions   *)
(* of src/parser.y: scopes, declarations, the addresses of variables, and  *)
(* the checks that resolve a use of an identifier and annotate its node.   *)
(* There is one scope for the globals and one for each function, blocks    *)
(* open none; scope numbers index the arrays of every identifier.          *)
(* A check that fails ends the program with an IKS_ERROR status.           *)
(***************************************************************************)
EXTENDS Integers, Sequences, FiniteSets

CONSTANTS Ids,          \* the identifiers: symbol_t of token POA_IDENT
          NULL,
          VarTypes,     \* the words of `tipo' the source uses for variables and parameters
          ReturnTypes,  \* ... for the values of functions
          FieldTypes,   \* ... and for the fields of classes
          FieldIds,     \* the identifiers used as names of fields
          VectorSizes,  \* the literals in brackets
          Expressions,  \* what an argument or an assigned value can be
          MainId,       \* the identifier `main'
          MaxScopes,    \* bound on the functions, under SCOPE_SIZE
          MaxParams,    \* bound on parameters, PARAM_SIZE
          MaxFields,    \* bound on fields, FIELD_SIZE
          MaxDeclared,  \* bound on declarations in a program
          MaxNodes      \* bound on checked uses in a program

PrimTypes == {"int", "float", "char", "string", "bool"}

GLOBAL_SCOPE == 0
ScopeIds == 0 .. MaxScopes
INT_SIZE == 4

\* class_info_t and function_info_t, while they are parsed and once declared.
Fields == [id : Ids, type : PrimTypes, offset : Int]
Params == [id : Ids, type : PrimTypes]
ClassInfos == [class : Ids, fields : Seq(Fields), bytes : Int]
ClassDecls == [fields : Seq(Fields), size : Int]
FunctionInfos == [name : Ids, type : PrimTypes, params : Seq(Params)]
FunctionDecls == [type : PrimTypes, params : Seq(Params), scope : ScopeIds, local_var_size : Int]

ASSUME SemanticAssumption ==
    /\ VarTypes \subseteq PrimTypes /\ FieldTypes \subseteq PrimTypes
    /\ ReturnTypes \subseteq PrimTypes /\ FieldIds \subseteq Ids
    /\ VectorSizes \subseteq Nat
    /\ MaxScopes \in Nat /\ MaxParams \in Nat /\ MaxFields \in Nat
    /\ MaxDeclared \in Nat /\ MaxNodes \in Nat
    /\ NULL \notin Ids /\ NULL \notin ClassDecls /\ NULL \notin FunctionDecls
    /\ NULL \notin ClassInfos /\ NULL \notin FunctionInfos

VARIABLES scope_stack, current_scope, scope_counter,
          type,            \* value->type[scope] of each identifier
          address,         \* value->address[scope]
          class_of,        \* value->decl_info[scope] of an instance: its class
          extent,          \* the bytes the declaration asked for (history)
          classes,         \* decl_info[0] and size of each class
          functions,       \* decl_info[0] of each function
          class_info,      \* the class being parsed
          function_info,   \* the function being parsed
          global_address, local_address,
          mode,            \* the production the parser is in
          nodes, calls,    \* the uses that passed their checks
          main_scope,
          status           \* "ok", or how the program ended

scopeVars == <<scope_stack, current_scope, scope_counter>>
declVars == <<type, address, class_of, extent>>
addressVars == <<global_address, local_address>>
useVars == <<nodes, calls>>
vars == <<scopeVars, declVars, classes, functions, class_info, function_info,
          addressVars, mode, useVars, main_scope, status>>

----------------------------------------------------------------------------
\* The values of type[]: UNDECLARED, DECL_CLASS, DECL_FUNCTION, and
\* decl_variable(t), decl_vector(t) of a primitive type or of POA_IDENT.
Undeclared == [kind |-> "undeclared", of |-> "none"]
DeclClass == [kind |-> "class", of |-> "none"]
DeclFunction == [kind |-> "function", of |-> "none"]
Variable(t) == [kind |-> "variable", of |-> t]
Vector(t) == [kind |-> "vector", of |-> t]

DeclTypes == {Undeclared, DeclClass, DeclFunction}
             \cup {Variable(t) : t \in PrimTypes \cup {"ident"}}
             \cup {Vector(t) : t \in PrimTypes \cup {"ident"}}

\* size_of, with its -1 for strings.
size_of(t) ==
    CASE t \in {"int", "float"} -> 4
      [] t \in {"char", "bool"} -> 1
      [] t = "string" -> -1

Declared(id, s) == type[id][s] # Undeclared

Declarations == {d \in Ids \X ScopeIds : Declared(d[1], d[2])}

\* The walk every check makes, from the top of the scope stack down: the
\* innermost open scope that declares the identifier, or -1.
Resolve(id) ==
    LET hits == {i \in DOMAIN scope_stack : Declared(id, scope_stack[i])}
    IN  IF hits = {} THEN -1
        ELSE scope_stack[CHOOSE i \in hits : \A j \in hits : j <= i]

Fail(code) ==
    /\ status' = code
    /\ UNCHANGED <<scopeVars, declVars, classes, functions, class_info, function_info,
                   addressVars, mode, useVars, main_scope>>

Running(m) == status = "ok" /\ mode = m
Room == Cardinality(Declarations) < MaxDeclared
MoreUses == Cardinality(nodes) + Cardinality(calls) < MaxNodes

Init ==
    /\ scope_stack = <<GLOBAL_SCOPE>> /\ current_scope = GLOBAL_SCOPE /\ scope_counter = 0
    /\ type = [id \in Ids |-> [s \in ScopeIds |-> Undeclared]]
    /\ address = [id \in Ids |-> [s \in ScopeIds |-> 0]]
    /\ class_of = [id \in Ids |-> [s \in ScopeIds |-> NULL]]
    /\ extent = [id \in Ids |-> [s \in ScopeIds |-> 0]]
    /\ classes = [id \in Ids |-> NULL]
    /\ functions = [id \in Ids |-> NULL]
    /\ class_info = NULL /\ function_info = NULL
    /\ global_address = 0 /\ local_address = 0
    /\ mode = "top"
    /\ nodes = {} /\ calls = {}
    /\ main_scope = 0
    /\ status = "ok"

----------------------------------------------------------------------------
\* An allocator that hands out single words.
AllocateWord(bytes) ==
    IF current_scope = GLOBAL_SCOPE
    THEN global_address' = global_address + INT_SIZE /\ UNCHANGED local_address
    ELSE local_address' = local_address + INT_SIZE /\ UNCHANGED global_address

\* get_global_address or get_local_address of so many bytes, by the scope
\* the parser is in.
Allocate(bytes) ==
    IF current_scope = GLOBAL_SCOPE
    THEN global_address' = global_address + bytes /\ UNCHANGED local_address
    ELSE local_address' = local_address + bytes /\ UNCHANGED global_address

NextAddress == IF current_scope = GLOBAL_SCOPE THEN global_address ELSE local_address

\* The common tail of the declare functions: the identifier gets its type,
\* its class and the next free address.
Enter(id, t, bytes, class) ==
    /\ type' = [type EXCEPT ![id][current_scope] = t]
    /\ class_of' = [class_of EXCEPT ![id][current_scope] = class]
    /\ extent' = [extent EXCEPT ![id][current_scope] = bytes]
    /\ address' = [address EXCEPT ![id][current_scope] = NextAddress]
    /\ Allocate(bytes)

\* A string has no place in memory.
EnterString(id, t) ==
    /\ type' = [type EXCEPT ![id][current_scope] = t]
    /\ address' = [address EXCEPT ![id][current_scope] = -1]
    /\ UNCHANGED <<class_of, extent, addressVars>>

\* declare and declare_vector, past their check.
EnterPrimitive(id, t, bytes) ==
    IF t.of = "string" THEN EnterString(id, t) ELSE Enter(id, t, bytes, NULL)

\* declare: one variable of a primitive type, four bytes whatever the type.
Declare(id, t) ==
    IF Declared(id, current_scope)
    THEN Fail("DECLARED")
    ELSE /\ EnterPrimitive(id, Variable(t), INT_SIZE)
         /\ UNCHANGED <<scopeVars, classes, functions, class_info, function_info,
                        mode, useVars, main_scope, status>>

\* var_global, the primitive types.
GlobalVariable(id, t) == Running("top") /\ Room /\ Declare(id, t)

\* var_global with a size: declare_vector.
GlobalVector(id, t, n) ==
    /\ Running("top") /\ Room
    /\ IF Declared(id, current_scope)
       THEN Fail("DECLARED")
       ELSE /\ EnterPrimitive(id, Vector(t), n * INT_SIZE)
            /\ UNCHANGED <<scopeVars, classes, functions, class_info, function_info,
                           mode, useVars, main_scope, status>>

\* The status check_declared and then check_usage_class end the program with,
\* or "ok": a class must be visible from here and be a class globally.
ClassStatus(class) ==
    CASE Resolve(class) = -1 -> "UNDECLARED"
      [] type[class][GLOBAL_SCOPE] = DeclClass -> "ok"
      [] type[class][GLOBAL_SCOPE] = Undeclared -> "CLASS_UNDECLARED"
      [] OTHER -> "CLASS"

\* declare_non_primitive: an instance takes the bytes of its class.
DeclareInstance(class, id) ==
    IF ClassStatus(class) # "ok" THEN Fail(ClassStatus(class))
    ELSE IF Declared(id, current_scope) THEN Fail("DECLARED")
    ELSE /\ Enter(id, Variable("ident"), classes[class].size, class)
         /\ UNCHANGED <<scopeVars, classes, functions, class_info, function_info,
                        mode, useVars, main_scope, status>>

GlobalInstance(class, id) == Running("top") /\ Room /\ DeclareInstance(class, id)

\* declare_vector_non_primitive: value->size of the first identifier, zero
\* when it is not a class, which nothing here checks.
GlobalInstanceVector(class, id, n) ==
    LET size == IF classes[class] = NULL THEN 0 ELSE classes[class].size
    IN  /\ Running("top") /\ Room
        /\ IF Resolve(class) = -1 THEN Fail("UNDECLARED")
           ELSE IF Declared(id, current_scope) THEN Fail("DECLARED")
           ELSE /\ Enter(id, Vector("ident"), n * size, NULL)
                /\ UNCHANGED <<scopeVars, classes, functions, class_info, function_info,
                               mode, useVars, main_scope, status>>

----------------------------------------------------------------------------
\* novo_tipo: create_class_fields.
CreateClassFields(class) ==
    /\ Running("top") /\ Room
    /\ mode' = "fields"
    /\ class_info' = [class |-> class, fields |-> <<>>, bytes |-> 0]
    /\ UNCHANGED <<scopeVars, declVars, classes, functions, function_info,
                   addressVars, useVars, main_scope, status>>

\* class_add_field, called from the last field of the text to the first.  The
\* running sum `bytes' and the offsets are those that declare_class and
\* set_attribute_address add up over the fields.
ClassAddField(id, t) ==
    /\ Running("fields") /\ Len(class_info.fields) < MaxFields
    /\ class_info' = [class_info EXCEPT
                        !.fields = Append(@, [id |-> id, type |-> t, offset |-> class_info.bytes]),
                        !.bytes = @ + size_of(t)]
    /\ UNCHANGED <<scopeVars, declVars, classes, functions, function_info,
                   addressVars, mode, useVars, main_scope, status>>

\* declare_class, with the loop that sums the sizes of the fields.
DeclareClass ==
    LET class == class_info.class
    IN  /\ Running("fields") /\ class_info.fields # <<>>
        /\ IF Declared(class, GLOBAL_SCOPE)
           THEN Fail("DECLARED")
           ELSE /\ type' = [type EXCEPT ![class][GLOBAL_SCOPE] = DeclClass]
                /\ classes' = [classes EXCEPT
                                 ![class] = [fields |-> class_info.fields, size |-> class_info.bytes]]
                /\ mode' = "top"
                /\ UNCHANGED <<scopeVars, address, class_of, extent, functions, class_info,
                               function_info, addressVars, useVars, main_scope, status>>

----------------------------------------------------------------------------
\* A start_scope that names scopes by their depth, so that the second function
\* gets the scope of the first.
CreateParamsReuse(f, t) ==
    /\ Running("top") /\ Room /\ scope_counter < MaxScopes
    /\ mode' = "params"
    /\ function_info' = [name |-> f, type |-> t, params |-> <<>>]
    /\ scope_counter' = Len(scope_stack)
    /\ scope_stack' = Append(scope_stack, scope_counter')
    /\ current_scope' = scope_counter'
    /\ UNCHANGED <<declVars, classes, functions, class_info, addressVars, useVars,
                   main_scope, status>>

\* funcao, before the parameters: create_params and start_scope.
CreateParams(f, t) ==
    /\ Running("top") /\ Room /\ scope_counter < MaxScopes
    /\ mode' = "params"
    /\ function_info' = [name |-> f, type |-> t, params |-> <<>>]
    /\ scope_counter' = scope_counter + 1
    /\ scope_stack' = Append(scope_stack, scope_counter')
    /\ current_scope' = scope_counter'
    /\ UNCHANGED <<declVars, classes, functions, class_info, addressVars, useVars,
                   main_scope, status>>

\* add_param: the parameter is listed and declared as a local variable.
AddParam(id, t) ==
    /\ Running("params") /\ Room /\ Len(function_info.params) < MaxParams
    /\ IF Declared(id, current_scope)
       THEN Fail("DECLARED")
       ELSE /\ function_info' = [function_info EXCEPT !.params = Append(@, [id |-> id, type |-> t])]
            /\ EnterPrimitive(id, Variable(t), INT_SIZE)
            /\ UNCHANGED <<scopeVars, classes, functions, class_info, mode, useVars,
                           main_scope, status>>

\* A declare_function that accepts a name that is taken.
DeclareFunctionUnchecked ==
    LET f == function_info.name
    IN  /\ Running("params")
        /\ type' = [type EXCEPT ![f][GLOBAL_SCOPE] = DeclFunction]
        /\ functions' = [functions EXCEPT
                           ![f] = [type |-> function_info.type, params |-> function_info.params,
                                   scope |-> current_scope, local_var_size |-> 0]]
        /\ mode' = "body"
        /\ UNCHANGED <<scopeVars, address, class_of, extent, classes, class_info,
                       function_info, addressVars, useVars, main_scope, status>>

\* declare_function: the name is global and carries function_info.  The scope
\* is noted for the properties only.
DeclareFunction ==
    LET f == function_info.name
    IN  /\ Running("params")
        /\ IF Declared(f, GLOBAL_SCOPE)
           THEN Fail("DECLARED")
           ELSE /\ type' = [type EXCEPT ![f][GLOBAL_SCOPE] = DeclFunction]
                /\ functions' = [functions EXCEPT
                                   ![f] = [type |-> function_info.type,
                                           params |-> function_info.params,
                                           scope |-> current_scope, local_var_size |-> 0]]
                /\ mode' = "body"
                /\ UNCHANGED <<scopeVars, address, class_of, extent, classes, class_info,
                               function_info, addressVars, useVars, main_scope, status>>

\* An end_function that keeps the local counter running.
EndFunctionNoReset ==
    /\ Running("body")
    /\ main_scope' = IF function_info.name = MainId THEN current_scope ELSE main_scope
    /\ scope_stack' = SubSeq(scope_stack, 1, Len(scope_stack) - 1)
    /\ current_scope' = scope_stack'[Len(scope_stack')]
    /\ functions' = [functions EXCEPT ![function_info.name].local_var_size = local_address]
    /\ mode' = "top"
    /\ UNCHANGED <<scope_counter, declVars, classes, class_info, function_info,
                   addressVars, useVars, status>>

\* An end of funcao without its end_scope.
EndFunctionKeepsScope ==
    /\ Running("body")
    /\ main_scope' = IF function_info.name = MainId THEN current_scope ELSE main_scope
    /\ functions' = [functions EXCEPT ![function_info.name].local_var_size = local_address]
    /\ local_address' = 0
    /\ mode' = "top"
    /\ UNCHANGED <<scopeVars, declVars, classes, class_info, function_info,
                   global_address, useVars, status>>

\* An end_scope that reads the scope below the new top of the stack.
EndFunctionBelowTop ==
    /\ Running("body")
    /\ main_scope' = IF function_info.name = MainId THEN current_scope ELSE main_scope
    /\ scope_stack' = SubSeq(scope_stack, 1, Len(scope_stack) - 1)
    /\ current_scope' = Len(scope_stack') - 2
    /\ functions' = [functions EXCEPT ![function_info.name].local_var_size = local_address]
    /\ local_address' = 0
    /\ mode' = "top"
    /\ UNCHANGED <<scope_counter, declVars, classes, class_info, function_info,
                   global_address, useVars, status>>

\* The end of funcao: set_main_scope, end_scope, and end_function, which keeps
\* the bytes of the locals with the function and restarts their counter.
EndFunction ==
    /\ Running("body")
    /\ main_scope' = IF function_info.name = MainId THEN current_scope ELSE main_scope
    /\ scope_stack' = SubSeq(scope_stack, 1, Len(scope_stack) - 1)
    /\ current_scope' = scope_stack'[Len(scope_stack')]
    /\ functions' = [functions EXCEPT ![function_info.name].local_var_size = local_address]
    /\ local_address' = 0
    /\ mode' = "top"
    /\ UNCHANGED <<scope_counter, declVars, classes, class_info, function_info,
                   global_address, useVars, status>>

----------------------------------------------------------------------------
\* The annotation of a node: the scope a check found and the address there.
Node(kind, id, s, offset, bytes) ==
    [kind |-> kind, id |-> id, at |-> current_scope, scope |-> s,
     address |-> address[id][s] + offset, bytes |-> bytes]

\* check_usage_variable; it lets a vector of instances pass.
VariableStatus(id) ==
    LET t == type[id][Resolve(id)]
    IN  CASE Resolve(id) = -1 -> "UNDECLARED"
          [] t.kind = "vector" /\ t.of # "ident" -> "VECTOR"
          [] t.kind = "function" -> "FUNCTION"
          [] t.kind = "class" -> "CLASS"
          [] OTHER -> "ok"

\* check_usage_vector.
VectorStatus(id) ==
    LET t == type[id][Resolve(id)]
    IN  CASE Resolve(id) = -1 -> "UNDECLARED"
          [] t.kind = "variable" -> "VARIABLE"
          [] t.kind = "function" -> "FUNCTION"
          [] t.kind = "class" -> "CLASS"
          [] OTHER -> "ok"

\* The fields of an instance's class that have the name of an attribute.
FieldHits(id, attribute) ==
    LET fields == classes[class_of[id][Resolve(id)]].fields
    IN  {i \in DOMAIN fields : fields[i].id = attribute}

\* check_usage_attribute; the description of a vector of instances aborts.
AttributeStatus(id, attribute) ==
    LET t == type[id][Resolve(id)]
    IN  CASE Resolve(id) = -1 -> "UNDECLARED"
          [] t = Vector("ident") -> "crash"
          [] t # Variable("ident") -> "WRONG_TYPE"
          [] FieldHits(id, attribute) = {} -> "ATTRIBUTE_UNDECLARED"
          [] OTHER -> "ok"

\* What a checked use does: it fails the program or annotates its nodes.
Use(code, used) ==
    IF code # "ok"
    THEN Fail(code)
    ELSE /\ nodes' = nodes \cup used
         /\ UNCHANGED <<scopeVars, declVars, classes, functions, class_info, function_info,
                        addressVars, mode, calls, main_scope, status>>

\* The declarations of a body: var_declaracao_primitiva and id.
LocalVariable(id, t) == Running("body") /\ Room /\ Declare(id, t)
LocalInstance(class, id) == Running("body") /\ Room /\ DeclareInstance(class, id)

\* var_declaracao_primitiva with the value of a variable: the value is checked
\* before the variable exists, the variable after it was declared.  A literal has
\* no check of its own, and then the step declares as LocalVariable does.
InitializedVariable(id, t, source) ==
    /\ Running("body") /\ Room /\ MoreUses
    /\ IF VariableStatus(source) # "ok" THEN Fail(VariableStatus(source))
       ELSE IF Declared(id, current_scope) THEN Fail("DECLARED")
       ELSE /\ EnterPrimitive(id, Variable(t), INT_SIZE)
            /\ nodes' = nodes \cup
                 {Node("variable", source, Resolve(source), 0, INT_SIZE),
                  [kind |-> "variable", id |-> id, at |-> current_scope, scope |-> current_scope,
                   address |-> address'[id][current_scope], bytes |-> INT_SIZE]}
            /\ UNCHANGED <<scopeVars, classes, functions, class_info, function_info,
                           mode, calls, main_scope, status>>

UseVariable(id) ==
    /\ Running("body") /\ MoreUses
    /\ Use(VariableStatus(id), {Node("variable", id, Resolve(id), 0, INT_SIZE)})

UseVector(id) ==
    /\ Running("body") /\ MoreUses
    /\ Use(VectorStatus(id), {Node("vector", id, Resolve(id), 0, INT_SIZE)})

\* A set_attribute_address that adds the size of the field it looks for.
UseAttributePast(id, attribute) ==
    LET field == classes[class_of[id][Resolve(id)]].fields
                   [CHOOSE i \in FieldHits(id, attribute) :
                        \A j \in FieldHits(id, attribute) : i <= j]
    IN  /\ Running("body") /\ MoreUses
        /\ Use(AttributeStatus(id, attribute),
               {Node("attribute", id, Resolve(id), field.offset + size_of(field.type),
                     size_of(field.type))})

\* check_usage_attribute and set_attribute_address: the offset of the first
\* field of that name.
UseAttribute(id, attribute) ==
    LET field == classes[class_of[id][Resolve(id)]].fields
                   [CHOOSE i \in FieldHits(id, attribute) :
                        \A j \in FieldHits(id, attribute) : i <= j]
    IN  /\ Running("body") /\ MoreUses
        /\ Use(AttributeStatus(id, attribute),
               {Node("attribute", id, Resolve(id), field.offset, size_of(field.type))})

\* atribuicao to a variable: when the types differ in more than being a vector,
\* check_var_assignment reads the first child of a node that has none.
Assign(id, value) ==
    LET differs == type[id][Resolve(id)].of # value.type.of
        code == VariableStatus(id)
    IN  /\ Running("body") /\ MoreUses
        /\ Use(IF code = "ok" /\ differs THEN "crash" ELSE code,
               {Node("variable", id, Resolve(id), 0, INT_SIZE)})

\* One comparison of check_usage_function, with wrong_type_args_error: an int
\* or a float passes as anything, but the warning that it becomes the other of
\* the two, as the error about any other type, reads the symbol of the
\* argument, NULL for an operator, an indexed vector or an attribute; the
\* description of an instance aborts.
ArgumentStatus(t, arg) ==
    LET numeric == arg.type \in {Variable("int"), Variable("float")}
    IN  CASE arg.type = Variable(t) -> "ok"
          [] numeric /\ (arg.symbol \/ t \notin {"int", "float"}) -> "ok"
          [] ~numeric /\ arg.symbol /\ arg.type.of # "ident" -> "WRONG_TYPE_ARGS"
          [] OTHER -> "crash"

\* get_func_type and check_usage_function: only the global scope is asked, and
\* the arguments are compared from the last to the first.
CallStatus(f, args) ==
    LET params == functions[f].params
        wrong == {i \in DOMAIN args : ArgumentStatus(params[i].type, args[i]) # "ok"}
        last == CHOOSE i \in wrong : \A j \in wrong : j <= i
    IN  CASE type[f][GLOBAL_SCOPE] = Undeclared -> "UNDECLARED"
          [] type[f][GLOBAL_SCOPE] # DeclFunction -> "FUNCTION"
          [] Len(args) < Len(params) -> "MISSING_ARGS"
          [] Len(args) > Len(params) -> "EXCESS_ARGS"
          [] wrong = {} -> "ok"
          [] OTHER -> ArgumentStatus(params[last].type, args[last])

\* chamada_funcao.
Call(f, args) ==
    /\ Running("body") /\ MoreUses
    /\ IF CallStatus(f, args) # "ok"
       THEN Fail(CallStatus(f, args))
       ELSE /\ calls' = calls \cup {[function |-> f, args |-> args, at |-> current_scope]}
            /\ UNCHANGED <<scopeVars, declVars, classes, functions, class_info, function_info,
                           addressVars, mode, nodes, main_scope, status>>

\* programa is reduced: the source ends between two top-level commands.
EndProgram ==
    /\ Running("top")
    /\ mode' = "done"
    /\ UNCHANGED <<scopeVars, declVars, classes, functions, class_info, function_info,
                   addressVars, useVars, main_scope, status>>

Arguments == UNION {[1 .. n -> Expressions] : n \in 0 .. MaxParams + 1}

TopLevel ==
    \/ \E id \in Ids, t \in VarTypes : GlobalVariable(id, t)
    \/ \E id \in Ids, t \in VarTypes, n \in VectorSizes : GlobalVector(id, t, n)
    \/ \E class, id \in Ids : GlobalInstance(class, id)
    \/ \E class, id \in Ids, n \in VectorSizes : GlobalInstanceVector(class, id, n)
    \/ \E class \in Ids : CreateClassFields(class)
    \/ \E id \in FieldIds, t \in FieldTypes : ClassAddField(id, t)
    \/ DeclareClass
    \/ \E f \in Ids, t \in ReturnTypes : CreateParams(f, t)
    \/ \E id \in Ids, t \in VarTypes : AddParam(id, t)
    \/ DeclareFunction
    \/ EndFunction
    \/ EndProgram

Body ==
    \/ \E id \in Ids, t \in VarTypes : LocalVariable(id, t)
    \/ \E class, id \in Ids : LocalInstance(class, id)
    \/ \E id, source \in Ids, t \in VarTypes : InitializedVariable(id, t, source)
    \/ \E id \in Ids : UseVariable(id)
    \/ \E id \in Ids : UseVector(id)
    \/ \E id, attribute \in Ids : UseAttribute(id, attribute)
    \/ \E id \in Ids, value \in Expressions : Assign(id, value)
    \/ \E f \in Ids, args \in Arguments : Call(f, args)

Next == TopLevel \/ Body

Spec == Init /\ [][Next]_vars

----------------------------------------------------------------------------
Statuses == {"ok", "crash", "UNDECLARED", "DECLARED", "VARIABLE", "VECTOR", "FUNCTION", "CLASS",
             "CLASS_UNDECLARED", "ATTRIBUTE_UNDECLARED", "WRONG_TYPE", "MISSING_ARGS",
             "EXCESS_ARGS", "WRONG_TYPE_ARGS"}

Nodes == [kind : {"variable", "vector", "attribute"}, id : Ids, at : ScopeIds,
          scope : ScopeIds, address : Int, bytes : Int]

\* Types of the analysis, scope by scope and identifier by identifier.
Typed ==
    /\ scope_stack \in Seq(ScopeIds) /\ current_scope \in ScopeIds /\ scope_counter \in ScopeIds
    /\ type \in [Ids -> [ScopeIds -> DeclTypes]]
    /\ address \in [Ids -> [ScopeIds -> Int]] /\ extent \in [Ids -> [ScopeIds -> Int]]
    /\ class_of \in [Ids -> [ScopeIds -> Ids \cup {NULL}]]
    /\ classes \in [Ids -> ClassDecls \cup {NULL}]
    /\ functions \in [Ids -> FunctionDecls \cup {NULL}]
    /\ class_info \in ClassInfos \cup {NULL}
    /\ function_info \in FunctionInfos \cup {NULL}
    /\ global_address \in Int /\ local_address \in Int
    /\ mode \in {"top", "fields", "params", "body", "done"}
    /\ nodes \subseteq Nodes
    /\ main_scope \in ScopeIds
    /\ status \in Statuses

\* Types of the analysis: every scope on the stack was opened by start_scope or
\* scope_init, and the newest one is the current one.
TypeOK ==
    /\ Typed
    /\ scope_stack \in Seq(0 .. scope_counter) /\ scope_stack # <<>>
    /\ current_scope = scope_stack[Len(scope_stack)]

\* A declaration with a place in memory.
Stored(id, s) == Declared(id, s) /\ extent[id][s] > 0

\* Two variables of one frame never share a byte, whatever the order of
\* vectors, instances and primitive variables in it.
SlotsDisjoint ==
    \A s \in ScopeIds : \A a, b \in Ids :
        (a # b /\ Stored(a, s) /\ Stored(b, s)) =>
            \/ address[a][s] + extent[a][s] <= address[b][s]
            \/ address[b][s] + extent[b][s] <= address[a][s]

\* The bytes reserved for a scope so far: local_var_size once its function
\* is complete.
FrameSize(s) ==
    IF s = GLOBAL_SCOPE THEN global_address
    ELSE IF s = current_scope THEN local_address
    ELSE LET f == CHOOSE f \in Ids : functions[f] # NULL /\ functions[f].scope = s
         IN  functions[f].local_var_size

\* Every variable lies inside its frame: call_sequence and call_epilogue compute
\* where saved registers and the next frame come from local_var_size alone.
FramesHoldLocals ==
    \A s \in ScopeIds : \A id \in Ids :
        Stored(id, s) => /\ 0 <= address[id][s]
                         /\ address[id][s] + extent[id][s] <= FrameSize(s)

\* An attribute that was used lies inside the instance it belongs to.
AttributesInside ==
    \A n \in nodes : n.kind = "attribute" =>
        /\ address[n.id][n.scope] <= n.address
        /\ n.address + n.bytes <= address[n.id][n.scope] + extent[n.id][n.scope]

\* The code generator reads the annotations after the whole source was
\* parsed: a node belongs to the globals or to the function it was used in,
\* and its address is still that of its declaration.
AnnotationsCurrent ==
    \A n \in nodes :
        /\ n.scope \in {GLOBAL_SCOPE, n.at}
        /\ Declared(n.id, n.scope)
        /\ n.kind # "attribute" => n.address = address[n.id][n.scope]

\* A call passes argument i at the i-th word of the callee's frame: that is
\* where parameter i lives when no parameter is a string.
ParametersInOrder ==
    \A f \in Ids : functions[f] # NULL =>
        LET params == functions[f].params
        IN  (\A i \in DOMAIN params : params[i].type # "string") =>
                \A i \in DOMAIN params :
                    address[params[i].id][functions[f].scope] = INT_SIZE * (i - 1)

\* A declaration is final, and only the globals or the function being parsed
\* receive new ones: a closed scope is never written again.
DeclarationsFinal ==
    [][\A id \in Ids, s \in ScopeIds :
          IF Declared(id, s)
          THEN type'[id][s] = type[id][s] /\ address'[id][s] = address[id][s]
          ELSE Declared(id, s)' => s \in {GLOBAL_SCOPE, current_scope}]_vars

\* The rule quoted in tests/e4/input/qwe21: the types of the language are
\* compatible as in C, with implicit conversions.  An assignment of a numeric
\* value to a numeric variable is not an error.
NumericAssignmentsAccepted ==
    [][\A id \in Ids, value \in Expressions :
          (/\ Resolve(id) # -1 /\ Assign(id, value)
           /\ {type[id][Resolve(id)], value.type} \subseteq {Variable("int"), Variable("float")})
          => status' = "ok"]_vars
=============================================================================
