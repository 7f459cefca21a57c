-------------------------------- MODULE Iloc --------------------------------
(***************************************************************************)
(* The machine the tests run the generated code on, the simulator          *)
(* src/tests/scripts/ilocsim: it loads a list of instructions, resolves    *)
(* the labels and executes one instruction at a time.                      *)
(***************************************************************************)
EXTENDS Integers, Sequences, FiniteSetsExt, TLC

CONSTANTS None,                     \* an operand or a label that is missing
          rbss, rarp, rsp, rpc,     \* the special registers
          Strict, Data, Stack       \* the options -x, --data and --stack

ASSUME IlocAssumption == Strict \in BOOLEAN /\ Data \in Nat /\ Stack \in Nat

VARIABLES code, ip, regs, mem,
          touched,        \* special registers updated before, in strict mode
          writes, tests   \* the stores made, in order, and the number of cbr
machine == <<code, ip, regs, mem, touched, writes, tests>>

Instruction(type, op1, op2, op3) ==
    [type |-> type, op1 |-> op1, op2 |-> op2, op3 |-> op3, label |-> None]

Immediate == {"addI", "rsubI", "multI", "lshiftI", "rshiftI", "loadAI"}
Compare == {"cmp_LT", "cmp_LE", "cmp_EQ", "cmp_GE", "cmp_GT", "cmp_NE"}
Binary == {"add", "sub", "mult", "div", "loadAO"} \cup Compare
Store == {"storeAI", "storeAO"}
Valued == Immediate \cup Binary \cup {"loadI", "i2i"}

\* The operands the pattern of an instruction asks for, the ones of them that
\* are labels and the registers it reads.
Operands(type) ==
    CASE type \in {"nop", "halt"} -> {}
      [] type \in {"jumpI", "jump"} -> {"op3"}
      [] type \in {"loadI", "i2i"} -> {"op1", "op3"}
      [] OTHER -> {"op1", "op2", "op3"}
Targets(type) ==
    CASE type = "jumpI" -> {"op3"} [] type = "cbr" -> {"op2", "op3"} [] OTHER -> {}
ReadBy(i) ==
    CASE i.type \in Immediate \cup {"i2i", "cbr"} -> {i.op1}
      [] i.type \in Binary \cup {"storeAI"} -> {i.op1, i.op2}
      [] i.type = "storeAO" -> {i.op1, i.op2, i.op3}
      [] i.type = "jump" -> {i.op3}
      [] OTHER -> {}

\* program_load: each instruction matches its pattern and each label it names
\* labels one; a label becomes the index of the last instruction that has it.
LabelsOf(list) == {list[i].label : i \in DOMAIN list} \ {None}
Loads(list) ==
    \A i \in DOMAIN list :
        /\ \A op \in Operands(list[i].type) : list[i][op] # None
        /\ \A op \in Targets(list[i].type) : list[i][op] \in LabelsOf(list)
Resolved(list) ==
    LET where == [l \in LabelsOf(list) |-> Max({i \in DOMAIN list : list[i].label = l}) - 1]
    IN  [i \in DOMAIN list |->
           [field \in DOMAIN list[i] |->
              IF field \in Targets(list[i].type) THEN where[list[i][field]] ELSE list[i][field]]]

MachineInit ==
    /\ code = <<>> /\ ip = 0 /\ mem = <<>> /\ touched = {} /\ writes = <<>> /\ tests = 0
    /\ regs = (rbss :> Data @@ rarp :> Stack @@ rsp :> Stack @@ rpc :> 0)

----------------------------------------------------------------------------
\* One step: rpc is the index of the instruction, then the instruction works
\* on the registers.
Fetched == code[ip + 1]
Current == (rpc :> ip) @@ regs
Read(r) == IF r \in DOMAIN Current THEN Current[r] ELSE 0
Memory(a) == IF a \in DOMAIN mem THEN mem[a] ELSE 0

\* Strict mode ignores every update of rbss and the first of rarp and of rsp.
Ignored(r) == Strict /\ (r = rbss \/ r \in {rarp, rsp} \ touched)

Result(i) ==
    CASE i.type = "loadI" -> i.op1
      [] i.type = "i2i" -> Read(i.op1)
      [] i.type = "loadAI" -> Memory(Read(i.op1) + i.op2)
      [] i.type = "loadAO" -> Memory(Read(i.op1) + Read(i.op2))
      [] i.type = "add" -> Read(i.op1) + Read(i.op2)
      [] i.type = "sub" -> Read(i.op1) - Read(i.op2)
      [] i.type = "mult" -> Read(i.op1) * Read(i.op2)
      [] i.type = "div" -> Read(i.op1) \div Read(i.op2)
      [] i.type = "addI" -> Read(i.op1) + i.op2
      [] i.type = "rsubI" -> i.op2 - Read(i.op1)
      [] i.type = "multI" -> Read(i.op1) * i.op2
      [] i.type = "lshiftI" -> Read(i.op1) * 2 ^ i.op2
      [] i.type = "rshiftI" -> Read(i.op1) \div 2 ^ i.op2
      [] i.type = "cmp_LT" -> IF Read(i.op1) < Read(i.op2) THEN 1 ELSE 0
      [] i.type = "cmp_LE" -> IF Read(i.op1) <= Read(i.op2) THEN 1 ELSE 0
      [] i.type = "cmp_EQ" -> IF Read(i.op1) = Read(i.op2) THEN 1 ELSE 0
      [] i.type = "cmp_GE" -> IF Read(i.op1) >= Read(i.op2) THEN 1 ELSE 0
      [] i.type = "cmp_GT" -> IF Read(i.op1) > Read(i.op2) THEN 1 ELSE 0
      [] i.type = "cmp_NE" -> IF Read(i.op1) # Read(i.op2) THEN 1 ELSE 0

\* An instruction that computes a value into its last operand.
StepValue ==
    /\ Fetched.type \in Valued
    /\ regs' = IF Ignored(Fetched.op3) THEN Current ELSE (Fetched.op3 :> Result(Fetched)) @@ Current
    /\ touched' = IF Strict THEN touched \cup ({Fetched.op3} \cap {rarp, rsp}) ELSE touched
    /\ ip' = ip + 1
    /\ UNCHANGED <<code, mem, writes, tests>>

StepStore ==
    /\ Fetched.type \in Store
    /\ LET a == Read(Fetched.op2) + IF Fetched.type = "storeAI" THEN Fetched.op3 ELSE Read(Fetched.op3)
           v == Read(Fetched.op1)
       IN  mem' = (a :> v) @@ mem /\ writes' = Append(writes, [address |-> a, value |-> v])
    /\ regs' = Current
    /\ ip' = ip + 1
    /\ UNCHANGED <<code, touched, tests>>

StepJump ==
    /\ Fetched.type \notin Valued \cup Store
    /\ ip' = CASE Fetched.type = "nop" -> ip + 1
               [] Fetched.type = "halt" -> Len(code) + 1
               [] Fetched.type = "jumpI" -> Fetched.op3
               [] Fetched.type = "jump" -> Read(Fetched.op3)
               [] Fetched.type = "cbr" -> IF Read(Fetched.op1) # 0 THEN Fetched.op2 ELSE Fetched.op3
    /\ tests' = IF Fetched.type = "cbr" THEN tests + 1 ELSE tests
    /\ regs' = Current
    /\ UNCHANGED <<code, mem, touched, writes>>
=============================================================================
