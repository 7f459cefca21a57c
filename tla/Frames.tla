------------------------------- MODULE Frames -------------------------------
(***************************************************************************)
(* The calling convention of the code src/src/cc_code.c generates, run by  *)
(* the ILOC machine: where a call saves its registers, its frame and its   *)
(* arguments, and what a return finds there.  Addresses count words of     *)
(* four bytes.  A word of memory and a register hold not a value but a     *)
(* Datum, the name of what was stored last, so that an overwritten word    *)
(* can be told from an intact one.                                         *)
(***************************************************************************)
EXTENDS Integers, Sequences, FiniteSets

CONSTANTS Funcs, Main,
          Words,     \* local_var_size of each function, in words
          Params,    \* how many of these words are its parameters
          Calls,     \* the pairs of a caller and a callee
          Nested,    \* an argument may itself be a call
          MaxRegs,   \* bound on the registers of a function
          MaxStart,  \* bound on the registers that precede a statement's
          MaxDepth,  \* bound on the calls in progress
          MaxCalls   \* bound on the calls begun

ASSUME FramesAssumption ==
    /\ Main \in Funcs
    /\ Words \in [Funcs -> Nat] /\ Params \in [Funcs -> Nat]
    /\ \A f \in Funcs : Params[f] <= Words[f]
    /\ Calls \subseteq Funcs \X (Funcs \ {Main})
    /\ Nested \in BOOLEAN
    /\ MaxRegs \in Nat /\ MaxStart \in 0 .. MaxRegs /\ MaxDepth \in Nat \ {0} /\ MaxCalls \in Nat

RA_SIZE == 4                    \* the words of return address, rsp, rarp and result
Registers == 0 .. MaxRegs + 1   \* two more for the return address and the result

VARIABLES mem,      \* the data memory: a function on the words written so far
          regs,     \* the registers of each function; no two functions share a name
          rsp, rarp,
          frames,   \* the calls in progress (history), main first
          calls     \* the calls begun (history)

vars == <<mem, regs, rsp, rarp, frames, calls>>

Datum(kind, depth, level, i) == [kind |-> kind, depth |-> depth, level |-> level, i |-> i]
Junk == Datum("junk", 0, 0, 0)

\* What an instruction reads from a word nobody wrote.
Load(a) == IF a \in DOMAIN mem THEN mem[a] ELSE Junk

\* The memory after stores at the addresses of a function.
Stored(at) == [a \in DOMAIN mem \cup DOMAIN at |-> IF a \in DOMAIN at THEN at[a] ELSE mem[a]]

----------------------------------------------------------------------------
\* A frame: its function, rarp and rsp while it runs, the next register its
\* code creates, the registers whose data are still needed, the locals it has
\* assigned, and the calls it has begun, an argument's inside its call's.
NewFrame(f, base, sp) ==
    [fn |-> f, base |-> base, sp |-> sp, next |-> 0, held |-> <<>>, assigned |-> {},
     pending |-> <<>>]

Depth == Len(frames)
Top == frames[Depth]
Level == Len(Top.pending)
InCall == Level > 0
ThisCall == Top.pending[Level]

\* A call begun: the registers it saves, the arguments stored so far, and the
\* register the next one starts at.
NewCall(g, n) == [callee |-> g, saved |-> n, args |-> 0, from |-> Top.next, returned |-> FALSE]

RemainingArguments == Params[ThisCall.callee] - ThisCall.args

SetTop(frame) == frames' = [frames EXCEPT ![Depth] = frame]

\* get_char_address: the word of a local; main has no header before its own.
LocalAddress(frame, i) == frame.base + i + (IF frame.fn = Main THEN 0 ELSE RA_SIZE)

\* A call_sequence that forgets var_scope_size in the place of a register.
SaveAddressFlat(frame, i) == rsp + RA_SIZE + i

\* The word that saves register i: RA_SIZE + var_scope_size + i*4 after rsp,
\* where var_scope_size is local_var_size*INT_SIZE, four bytes for every byte.
SaveAddress(frame, i) == rsp + RA_SIZE + 4 * Words[frame.fn] + i

\* The program starts with rarp and rsp at 1024, and main reserves its locals.
Init ==
    /\ mem = <<>>
    /\ regs = [f \in Funcs |-> [r \in Registers |-> Junk]]
    /\ rarp = 256
    /\ rsp = 256 + Words[Main]
    /\ frames = <<NewFrame(Main, 256, 256 + Words[Main])>>
    /\ calls = 0

\* The call being built still has arguments to store.
Building == InCall => ~ThisCall.returned

\* A call of g that saves n registers fits here.  An argument is one register
\* or a call, whose registers are saved with the rest.
Fits(g, n) ==
    /\ Top.next + Params[g] <= n
    /\ (Nested /\ Params[g] > 0) \/ n = Top.next + Params[g]
    /\ InCall => n + 2 + RemainingArguments - 1 <= ThisCall.saved

----------------------------------------------------------------------------
\* An instruction puts a datum in the next register.
Compute ==
    /\ ~InCall /\ Top.next < MaxRegs
    /\ LET datum == Datum("value", Depth, 0, Top.next)
       IN  /\ regs' = [regs EXCEPT ![Top.fn][Top.next] = datum]
           /\ SetTop([Top EXCEPT !.next = @ + 1,
                                 !.held = [r \in DOMAIN @ \cup {Top.next} |->
                                             IF r = Top.next THEN datum ELSE @[r]]])
    /\ UNCHANGED <<mem, rsp, rarp, calls>>

\* A statement ends, and another one begins, whose registers are numbered
\* from wherever it is in the text of the function.
Statement(n) ==
    /\ ~InCall
    /\ SetTop([Top EXCEPT !.next = n, !.held = <<>>])
    /\ UNCHANGED <<mem, regs, rsp, rarp, calls>>

\* A statement ends with the assignment of its value to a local variable.
AssignLocal(i, n) ==
    /\ ~InCall
    /\ mem' = Stored([a \in {LocalAddress(Top, i)} |-> Datum("local", Depth, 0, i)])
    /\ SetTop([Top EXCEPT !.next = n, !.held = <<>>, !.assigned = @ \cup {i}])
    /\ UNCHANGED <<regs, rsp, rarp, calls>>

\* The first instructions of call_sequence: store_registers, store_rsp and
\* store_rarp.  reg_list holds the registers of the function so far in its
\* text, those of the arguments, which are evaluated after this, included.
BeginCall(g, n) ==
    /\ Depth < MaxDepth /\ calls < MaxCalls
    /\ Building /\ <<Top.fn, g>> \in Calls /\ Fits(g, n)
    /\ InCall => Nested /\ RemainingArguments > 0 /\ Top.next = ThisCall.from
    /\ LET saves == [a \in {SaveAddress(Top, i) : i \in 0 .. n - 1} |->
                        regs[Top.fn][a - SaveAddress(Top, 0)]]
           links == [a \in {rsp + 1, rsp + 2} |->
                        IF a = rsp + 1 THEN Datum("rsp", Depth, 0, rsp)
                                       ELSE Datum("rarp", Depth, 0, rarp)]
       IN  mem' = [a \in DOMAIN mem \cup DOMAIN saves \cup DOMAIN links |->
                      IF a \in DOMAIN links THEN links[a]
                      ELSE IF a \in DOMAIN saves THEN saves[a] ELSE mem[a]]
    /\ SetTop([Top EXCEPT !.pending = Append(@, NewCall(g, n))])
    /\ calls' = calls + 1
    /\ UNCHANGED <<regs, rsp, rarp>>

\* A store_param that forgets the header.
StoreParamNoHeader(n) ==
    /\ InCall /\ Building /\ RemainingArguments > 0
    /\ n = IF Top.next = ThisCall.from THEN Top.next + 1 ELSE Top.next
    /\ n + RemainingArguments - 1 <= ThisCall.saved
    /\ RemainingArguments = 1 => n = ThisCall.saved
    /\ regs' = [regs EXCEPT ![Top.fn] =
                  [r \in Registers |-> IF r \in Top.next .. n - 1
                                       THEN Datum("value", Depth, Level, r) ELSE @[r]]]
    /\ mem' = Stored([a \in {rsp + ThisCall.args} |->
                         Datum("param", Depth, Level, ThisCall.args)])
    /\ SetTop([Top EXCEPT !.next = n,
                          !.pending[Level].args = @ + 1, !.pending[Level].from = n])
    /\ UNCHANGED <<rsp, rarp, calls>>

\* store_param: the code of an argument, which ends with the result of a call
\* or puts a datum in a register, and its store after the header of the frame
\* to be.  reg_list ends with the registers of the last argument.
StoreParam(n) ==
    /\ InCall /\ Building /\ RemainingArguments > 0
    /\ n = IF Top.next = ThisCall.from THEN Top.next + 1 ELSE Top.next
    /\ n + RemainingArguments - 1 <= ThisCall.saved
    /\ RemainingArguments = 1 => n = ThisCall.saved
    /\ regs' = [regs EXCEPT ![Top.fn] =
                  [r \in Registers |-> IF r \in Top.next .. n - 1
                                       THEN Datum("value", Depth, Level, r) ELSE @[r]]]
    /\ mem' = Stored([a \in {rsp + RA_SIZE + ThisCall.args} |->
                         Datum("param", Depth, Level, ThisCall.args)])
    /\ SetTop([Top EXCEPT !.next = n,
                          !.pending[Level].args = @ + 1, !.pending[Level].from = n])
    /\ UNCHANGED <<rsp, rarp, calls>>

\* A call_epilogue without update_rsp.
JumpNoReserve ==
    /\ InCall /\ Building /\ ThisCall.args = Params[ThisCall.callee]
    /\ mem' = Stored([a \in {rsp} |-> Datum("return", Depth, 0, 0)])
    /\ rarp' = rsp
    /\ frames' = Append(frames, NewFrame(ThisCall.callee, rarp', rsp))
    /\ UNCHANGED <<regs, rsp, calls>>

\* The return address is stored, call_epilogue sets rarp to rsp and reserves
\* the frame of the callee, and the jump.  No function is in
\* function_registers_dict while one that calls it is translated, so the
\* registers counted are those of the caller, with the two of the call itself.
Jump ==
    /\ InCall /\ Building /\ ThisCall.args = Params[ThisCall.callee]
    /\ mem' = Stored([a \in {rsp} |-> Datum("return", Depth, 0, 0)])
    /\ rarp' = rsp
    /\ rsp' = rsp + 4 * Words[ThisCall.callee] + RA_SIZE + ThisCall.saved + 2
    /\ frames' = Append(frames, NewFrame(ThisCall.callee, rarp', rsp'))
    /\ UNCHANGED <<regs, calls>>

\* A return_sequence that leaves rarp where the callee had it.
ReturnKeepsRarp ==
    /\ Depth > 1 /\ ~InCall
    /\ mem' = Stored([a \in {rarp + 3} |-> Datum("result", Depth, 0, 0)])
    /\ rsp' = Load(rarp + 1).i
    /\ LET caller == frames[Depth - 1]
           level == Len(caller.pending)
       IN  frames' = [SubSeq(frames, 1, Depth - 1) EXCEPT
                        ![Depth - 1].pending[level].returned = TRUE]
    /\ UNCHANGED <<regs, rarp, calls>>

\* return_sequence: the result is stored, rsp and rarp are those of the
\* caller, and the jump to the return address.
Return ==
    /\ Depth > 1 /\ ~InCall
    /\ mem' = Stored([a \in {rarp + 3} |-> Datum("result", Depth, 0, 0)])
    /\ rsp' = Load(rarp + 1).i
    /\ rarp' = Load(rarp + 2).i
    /\ LET caller == frames[Depth - 1]
           level == Len(caller.pending)
       IN  frames' = [SubSeq(frames, 1, Depth - 1) EXCEPT
                        ![Depth - 1].pending[level].returned = TRUE]
    /\ UNCHANGED <<regs, calls>>

\* A call_sequence that counts the register of the result twice.
RestoreCountsTwice ==
    /\ InCall /\ ThisCall.returned
    /\ LET n == ThisCall.saved
           result == Datum("result", Depth + 1, 0, 0)
       IN  /\ regs' = [regs EXCEPT ![Top.fn] =
                         [r \in Registers |-> IF r < n THEN Load(SaveAddress(Top, r))
                                              ELSE IF r = n + 1 THEN Load(rsp + 3) ELSE @[r]]]
           /\ SetTop([Top EXCEPT
                        !.next = n + 3,
                        !.held = IF Level > 1 THEN @
                                 ELSE [r \in DOMAIN @ \cup {n + 1} |->
                                         IF r = n + 1 THEN result ELSE @[r]],
                        !.pending = SubSeq(@, 1, Level - 1)])
    /\ UNCHANGED <<mem, rsp, rarp, calls>>

\* restore_registers and load_result.
Restore ==
    /\ InCall /\ ThisCall.returned
    /\ LET n == ThisCall.saved
           result == Datum("result", Depth + 1, 0, 0)
       IN  /\ regs' = [regs EXCEPT ![Top.fn] =
                         [r \in Registers |-> IF r < n THEN Load(SaveAddress(Top, r))
                                              ELSE IF r = n + 1 THEN Load(rsp + 3) ELSE @[r]]]
           /\ SetTop([Top EXCEPT
                        !.next = n + 2,
                        !.held = IF Level > 1 THEN @
                                 ELSE [r \in DOMAIN @ \cup {n + 1} |->
                                         IF r = n + 1 THEN result ELSE @[r]],
                        !.pending = SubSeq(@, 1, Level - 1)])
    /\ UNCHANGED <<mem, rsp, rarp, calls>>

Next ==
    \/ Compute
    \/ \E n \in 0 .. MaxStart : Statement(n)
    \/ \E i \in 0 .. Words[Top.fn] - 1, n \in 0 .. MaxStart : AssignLocal(i, n)
    \/ \E g \in Funcs, n \in 0 .. MaxRegs : BeginCall(g, n)
    \/ \E n \in 0 .. MaxRegs + 2 : StoreParam(n)
    \/ Jump
    \/ Return
    \/ Restore

Spec == Init /\ [][Next]_vars

----------------------------------------------------------------------------
Data == [kind : {"junk", "value", "local", "rsp", "rarp", "param", "return", "result"},
         depth : Nat, level : Nat, i : Nat]

\* Types of the machine.
TypeOK ==
    /\ DOMAIN mem \subseteq Nat /\ \A a \in DOMAIN mem : mem[a] \in Data
    /\ regs \in [Funcs -> [Registers -> Data]]
    /\ rsp \in Nat /\ rarp \in Nat
    /\ Depth \in 1 .. MaxDepth
    /\ \A d \in 1 .. Depth :
         /\ frames[d].fn \in Funcs /\ frames[d].base \in Nat /\ frames[d].sp \in Nat
         /\ frames[d].next \in 0 .. MaxRegs + 2
         /\ DOMAIN frames[d].held \subseteq Registers
         /\ frames[d].assigned \subseteq 0 .. Words[frames[d].fn] - 1

\* A local variable keeps what its function assigned to it, whatever the
\* calls in progress save, pass and store above it.
LocalsHold ==
    \A d \in 1 .. Depth : \A i \in frames[d].assigned :
        Load(LocalAddress(frames[d], i)) = Datum("local", d, 0, i)

\* The comment of call_sequence, "saves and restores the registers": between
\* two calls, the function that runs finds in every register it still needs
\* what it put there, recursion included.
RegistersHold ==
    Building => \A r \in DOMAIN Top.held : regs[Top.fn][r] = Top.held[r]

\* A return always finds the rsp and the rarp of its caller.
LinksHold ==
    /\ rarp = Top.base /\ rsp = Top.sp
    /\ \A d \in 2 .. Depth :
         /\ frames[d].base = frames[d - 1].sp
         /\ Load(frames[d].base) = Datum("return", d - 1, 0, 0)
         /\ Load(frames[d].base + 1).i = frames[d - 1].sp
         /\ Load(frames[d].base + 2).i = frames[d - 1].base

\* The comment of call_sequence on its stack of parameters: a function that
\* starts finds in each parameter the argument of its own call.
ArgumentsArrive ==
    \A d \in 2 .. Depth : \A i \in 0 .. Params[frames[d].fn] - 1 :
        i \notin frames[d].assigned =>
            Load(LocalAddress(frames[d], i)) =
                Datum("param", d - 1, Len(frames[d - 1].pending), i)
=============================================================================
