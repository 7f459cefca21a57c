--------------------------- MODULE Frames_proofs ---------------------------
(***************************************************************************)
(* Proofs about Frames for every set of functions, every call graph and    *)
(* every number of variables, registers and nested calls.  The locals of a *)
(* function and the links of its frame hold for all of them; the registers *)
(* hold when the sizes of the frames fit the layout, and the arguments     *)
(* arrive when no argument is itself a call.                               *)
(***************************************************************************)
EXTENDS Frames, TLAPS

\* The records of Frames, as sets.
Held == UNION {[S -> Data] : S \in SUBSET Registers}
Calling == [callee : Funcs \ {Main}, saved : 0 .. MaxRegs, args : Nat, from : 0 .. MaxRegs + 2,
            returned : BOOLEAN]
Frame == [fn : Funcs, base : Nat, sp : Nat, next : 0 .. MaxRegs + 2, held : Held,
          assigned : SUBSET Nat, pending : Seq(Calling)]

\* The machine's types, in the form the steps preserve.
Typed ==
    /\ \E S \in SUBSET Nat : mem \in [S -> Data]
    /\ regs \in [Funcs -> [Registers -> Data]]
    /\ rsp \in Nat /\ rarp \in Nat
    /\ frames \in Seq(Frame)
    /\ Depth \in 1 .. MaxDepth
    /\ \A d \in 1 .. Depth : frames[d].assigned \subseteq 0 .. Words[frames[d].fn] - 1

\* The frames lie one above the other, main's the lowest, and each is large
\* enough for its locals and the header of the next one.
Ordered ==
    /\ frames[1].fn = Main
    /\ frames[1].base + Words[Main] <= frames[1].sp
    /\ \A d \in 2 .. Depth :
         /\ frames[d].fn # Main
         /\ frames[d].base = frames[d - 1].sp
         /\ frames[d].base + 4 * Words[frames[d].fn] + RA_SIZE + 2 <= frames[d].sp
    /\ \A d, e \in 1 .. Depth : d < e => frames[d].sp <= frames[e].base

\* Every frame but the newest waits for its innermost call, which has not
\* returned; a frame that waits is not the last one there may be.
Waiting ==
    /\ \A d \in 1 .. Depth : frames[d].pending # <<>> => d < MaxDepth
    /\ \A d \in 2 .. Depth : frames[d - 1].pending # <<>>

\* What an instruction reads from a memory m.
At(m, a) == IF a \in DOMAIN m THEN m[a] ELSE Junk

\* The words that take a return back are intact: the return address of every
\* frame, and the caller's rsp and rarp from the time a call begins.
Linked ==
    /\ rarp = Top.base /\ rsp = Top.sp
    /\ \A d \in 2 .. Depth : At(mem, frames[d].base) = Datum("return", d - 1, 0, 0)
    /\ \A d \in 1 .. Depth :
         frames[d].pending # <<>> =>
            /\ At(mem, frames[d].sp + 1).i = frames[d].sp
            /\ At(mem, frames[d].sp + 2).i = frames[d].base

\* LocalsHold, read with At.
LocalsKept ==
    \A d \in 1 .. Depth : \A i \in frames[d].assigned :
        At(mem, LocalAddress(frames[d], i)) = Datum("local", d, 0, i)

IInv == Typed /\ Ordered /\ Waiting /\ Linked /\ LocalsKept

----------------------------------------------------------------------------
(* Functions, memory and the stack of frames. *)

LEMMA HeldFacts ==
    /\ <<>> \in Held
    /\ \A h \in Held : DOMAIN h \subseteq Registers /\ \A r \in DOMAIN h : h[r] \in Data
    /\ \A h \in Held, r \in Registers, v \in Data :
          [x \in DOMAIN h \cup {r} |-> IF x = r THEN v ELSE h[x]] \in Held
<1>1. <<>> \in [{} -> Data]
  OBVIOUS
<1>2. ASSUME NEW h \in Held
      PROVE  DOMAIN h \subseteq Registers /\ \A r \in DOMAIN h : h[r] \in Data
  BY DEF Held
<1>3. ASSUME NEW h \in Held, NEW r \in Registers, NEW v \in Data
      PROVE  [x \in DOMAIN h \cup {r} |-> IF x = r THEN v ELSE h[x]] \in Held
  <2>1. [x \in DOMAIN h \cup {r} |-> IF x = r THEN v ELSE h[x]] \in [DOMAIN h \cup {r} -> Data]
    BY <1>2
  <2>2. DOMAIN h \cup {r} \in SUBSET Registers
    BY <1>2
  <2> QED
    BY <2>1, <2>2 DEF Held
<1> QED
  BY <1>1, <1>2, <1>3 DEF Held

\* What is read after stores.
LEMMA StoredAt ==
    ASSUME NEW at, mem' = Stored(at)
    PROVE  \A a : At(mem', a) = IF a \in DOMAIN at THEN at[a] ELSE At(mem, a)
  BY DEF Stored, At

LEMMA LoadIsAt == \A a : Load(a) = At(mem, a)
  BY DEF Load, At

\* Stores of data at words leave a memory of data.
LEMMA StoredTyped ==
    ASSUME NEW S \in SUBSET Nat, mem \in [S -> Data],
           NEW T \in SUBSET Nat, NEW at \in [T -> Data], mem' = Stored(at)
    PROVE  \E R \in SUBSET Nat : mem' \in [R -> Data]
<1>1. mem' \in [S \cup T -> Data]
  BY DEF Stored
<1> QED
  BY <1>1

LEMMA AtTyped ==
    ASSUME Typed
    PROVE  \A a : At(mem, a) \in Data
<1>1. PICK S \in SUBSET Nat : mem \in [S -> Data]
  BY DEF Typed
<1>2. Junk \in Data
  BY DEF Junk, Datum, Data
<1> QED
  BY <1>1, <1>2 DEF At

LEMMA SetTopFacts ==
    ASSUME Typed, NEW frame \in Frame, SetTop(frame)
    PROVE  /\ frames' \in Seq(Frame) /\ Depth' = Depth /\ Top' = frame
           /\ \A d \in 1 .. Depth - 1 : frames'[d] = frames[d]
  BY DEF Typed, SetTop, Depth, Top

LEMMA FrameFacts ==
    ASSUME Typed, NEW d \in 1 .. Depth
    PROVE  /\ frames[d] \in Frame /\ frames[d].fn \in Funcs
           /\ frames[d].base \in Nat /\ frames[d].sp \in Nat /\ frames[d].held \in Held
           /\ frames[d].pending \in Seq(Calling)
           /\ Words[frames[d].fn] \in Nat /\ Params[frames[d].fn] \in Nat
           /\ Params[frames[d].fn] <= Words[frames[d].fn]
<1>1. frames[d] \in Frame
  BY DEF Typed, Depth
<1> QED
  BY <1>1, FramesAssumption DEF Frame

LEMMA FrameRoom ==
    ASSUME Typed, Ordered, NEW d \in 1 .. Depth
    PROVE  /\ frames[d].base <= frames[d].sp
           /\ d > 1 => frames[d].base + Words[frames[d].fn] + RA_SIZE < frames[d].sp
<1>1. CASE d = 1
  BY <1>1, FrameFacts DEF Ordered
<1>2. CASE d # 1
  <2>1. d \in 2 .. Depth
    BY <1>2 DEF Typed
  <2>2. frames[d].base + 4 * Words[frames[d].fn] + RA_SIZE + 2 <= frames[d].sp
    BY <2>1 DEF Ordered
  <2>3. frames[d].base \in Nat /\ frames[d].sp \in Nat /\ Words[frames[d].fn] \in Nat
    BY FrameFacts
  <2>4. \A b, p, w \in Nat : b + 4 * w + RA_SIZE + 2 <= p => b <= p /\ b + w + RA_SIZE < p
    BY DEF RA_SIZE
  <2> QED
    BY <2>2, <2>3, <2>4
<1> QED
  BY <1>1, <1>2

\* Where the words of a frame are: a local is above the header, and below what
\* the function stores for its calls.
LEMMA LocalPlace ==
    ASSUME Typed, Ordered, NEW d \in 1 .. Depth, NEW i \in 0 .. Words[frames[d].fn] - 1
    PROVE  /\ LocalAddress(frames[d], i) \in Nat
           /\ LocalAddress(frames[d], i) < frames[d].sp
           /\ d > 1 => LocalAddress(frames[d], i) = frames[d].base + RA_SIZE + i
           /\ \A j \in 0 .. Words[frames[d].fn] - 1 :
                 LocalAddress(frames[d], j) = LocalAddress(frames[d], i) => j = i
<1>1. frames[d] \in Frame /\ Words[frames[d].fn] \in Nat /\ frames[d].base \in Nat /\ frames[d].sp \in Nat
  BY FrameFacts
<1>2. CASE d = 1
  BY <1>1, <1>2 DEF Ordered, LocalAddress
<1>3. CASE d # 1
  <2>1. d \in 2 .. Depth
    BY <1>3 DEF Typed
  <2> QED
    BY <1>1, <1>3, <2>1 DEF Ordered, LocalAddress, RA_SIZE
<1> QED
  BY <1>2, <1>3

LEMMA TopFacts ==
    ASSUME Typed
    PROVE  /\ Depth \in Nat \ {0} /\ Depth = Len(frames)
           /\ Top \in Frame /\ Top = frames[Depth] /\ Level = Len(Top.pending)
           /\ Level \in Nat /\ (InCall <=> Top.pending # <<>>)
           /\ InCall => Level \in 1 .. Len(Top.pending) /\ ThisCall \in Calling
<1>1. Depth \in Nat \ {0} /\ Top \in Frame
  BY FramesAssumption DEF Typed, Depth, Top
<1>2. Top.pending \in Seq(Calling)
  BY <1>1 DEF Frame
<1> QED
  BY <1>1, <1>2 DEF Depth, Top, Level, InCall, ThisCall

\* A step of the function that runs: no call or return, and what lies below
\* the header of the next frame stays.
SameStack ==
    /\ frames' \in Seq(Frame) /\ Depth' = Depth
    /\ \A d \in 1 .. Depth - 1 : frames'[d] = frames[d]
    /\ Top'.fn = Top.fn /\ Top'.base = Top.base /\ Top'.sp = Top.sp
    /\ rsp' = rsp /\ rarp' = rarp
    /\ Typed'

LEMMA SameStackOrdered ==
    ASSUME Typed, Ordered, SameStack
    PROVE  Ordered'
<1>1. \A d \in 1 .. Depth : /\ frames'[d].fn = frames[d].fn
                            /\ frames'[d].base = frames[d].base
                            /\ frames'[d].sp = frames[d].sp
  BY TopFacts DEF SameStack, Top
<1> QED
  BY SMTT(30), <1>1, TopFacts DEF Ordered, SameStack

\* What it must do itself: leave the lower frames alone, and keep the links and
\* the locals of its own frame.
LEMMA SameStackKeeps ==
    ASSUME IInv, SameStack,
           Depth > 1 => \A a \in Nat : a < Top.base + 3 => At(mem', a) = At(mem, a),
           Top'.pending # <<>> => /\ Depth < MaxDepth
                                  /\ At(mem', rsp + 1).i = rsp /\ At(mem', rsp + 2).i = rarp,
           \A i \in Top'.assigned : At(mem', LocalAddress(Top, i)) = Datum("local", Depth, 0, i)
    PROVE  IInv'
<1>1. Ordered'
  BY SameStackOrdered DEF IInv
<1>2. /\ Top = frames[Depth] /\ Top' = frames'[Depth] /\ Depth \in Nat \ {0}
      /\ \A d \in 1 .. Depth : frames[d] \in Frame /\ frames[d].base \in Nat /\ frames[d].sp \in Nat
  BY TopFacts, FrameFacts DEF IInv, SameStack, Top
<1>3. \A d \in 1 .. Depth : /\ frames'[d].fn = frames[d].fn
                            /\ frames'[d].base = frames[d].base
                            /\ frames'[d].sp = frames[d].sp
  BY <1>2 DEF SameStack
<1>4. \A d \in 1 .. Depth - 1 : Depth > 1 /\ frames[d].sp <= Top.base
  BY <1>2 DEF IInv, Ordered
<1>5. Waiting'
  BY <1>2, <1>3 DEF IInv, Waiting, SameStack
<1>6. Linked'
  <2>1. rarp' = Top'.base /\ rsp' = Top'.sp
    BY DEF IInv, Linked, SameStack
  <2>2. ASSUME NEW d \in 2 .. Depth PROVE At(mem', frames'[d].base) = Datum("return", d - 1, 0, 0)
    <3>1. frames[d].base <= Top.base
      <4>1. CASE d = Depth
        BY <1>2, <4>1
      <4>2. CASE d # Depth
        <5>1. d \in 1 .. Depth - 1 /\ frames[d].base <= frames[d].sp
          BY <1>2, <4>2, FrameRoom DEF IInv
        <5> QED
          BY <1>2, <1>4, <5>1
      <4> QED
        BY <4>1, <4>2
    <3>2. At(mem', frames[d].base) = At(mem, frames[d].base)
      BY <1>2, <3>1
    <3> QED
      BY <1>3, <3>2 DEF IInv, Linked
  <2>3. ASSUME NEW d \in 1 .. Depth, frames'[d].pending # <<>>
        PROVE  At(mem', frames'[d].sp + 1).i = frames'[d].sp /\ At(mem', frames'[d].sp + 2).i = frames'[d].base
    <3>1. CASE d = Depth
      BY <1>2, <1>3, <2>1, <2>3, <3>1 DEF SameStack
    <3>2. CASE d # Depth
      <4>1. d \in 1 .. Depth - 1
        BY <1>2, <3>2
      <4>2. At(mem', frames[d].sp + 1) = At(mem, frames[d].sp + 1) /\ At(mem', frames[d].sp + 2) = At(mem, frames[d].sp + 2)
        BY SMTT(30), <1>2, <1>4, <4>1
      <4> QED
        BY <1>3, <2>3, <4>1, <4>2 DEF IInv, Linked, SameStack
    <3> QED
      BY <3>1, <3>2
  <2> QED
    BY <2>1, <2>2, <2>3 DEF Linked, SameStack
<1>7. LocalsKept'
  <2> SUFFICES ASSUME NEW d \in 1 .. Depth, NEW i \in frames'[d].assigned
               PROVE  At(mem', LocalAddress(frames'[d], i)) = Datum("local", d, 0, i)
    BY DEF LocalsKept, SameStack
  <2>1. LocalAddress(frames'[d], i) = LocalAddress(frames[d], i)
    BY <1>3 DEF LocalAddress
  <2>2. CASE d = Depth
    BY <1>2, <2>1, <2>2
  <2>3. CASE d # Depth
    <3>1. d \in 1 .. Depth - 1 /\ i \in frames[d].assigned /\ i \in 0 .. Words[frames[d].fn] - 1
      BY <1>2, <2>3 DEF SameStack, IInv, Typed
    <3>2. LocalAddress(frames[d], i) \in Nat /\ LocalAddress(frames[d], i) < Top.base + 3
      BY <1>2, <1>4, <3>1, LocalPlace DEF IInv
    <3>3. At(mem', LocalAddress(frames[d], i)) = At(mem, LocalAddress(frames[d], i))
      BY <1>4, <3>1, <3>2
    <3> QED
      BY <2>1, <3>1, <3>3 DEF IInv, LocalsKept
  <2> QED
    BY <2>2, <2>3
<1> QED
  BY <1>1, <1>5, <1>6, <1>7 DEF IInv, SameStack

LEMMA SetTopStep ==
    ASSUME IInv, NEW frame \in Frame, SetTop(frame),
           frame.fn = Top.fn, frame.base = Top.base, frame.sp = Top.sp,
           frame.assigned \subseteq 0 .. Words[Top.fn] - 1,
           rsp' = rsp, rarp' = rarp,
           \E S \in SUBSET Nat : mem' \in [S -> Data],
           regs' \in [Funcs -> [Registers -> Data]]
    PROVE  SameStack /\ Top' = frame
<1>1. /\ frames' \in Seq(Frame) /\ Depth' = Depth /\ Top' = frame
      /\ \A d \in 1 .. Depth - 1 : frames'[d] = frames[d]
  BY SetTopFacts DEF IInv
<1>2. \A d \in 1 .. Depth : frames'[d].assigned \subseteq 0 .. Words[frames'[d].fn] - 1
  <2>1. frames'[Depth] = frame /\ Depth \in Nat
    BY <1>1, TopFacts DEF IInv, Top
  <2>2. ASSUME NEW d \in 1 .. Depth, d # Depth
        PROVE  frames'[d].assigned \subseteq 0 .. Words[frames'[d].fn] - 1
    <3>1. frames'[d] = frames[d]
      BY <1>1, <2>1, <2>2
    <3>2. frames[d].assigned \subseteq 0 .. Words[frames[d].fn] - 1
      BY DEF IInv, Typed
    <3> QED
      BY <3>1, <3>2
  <2> QED
    BY <2>1, <2>2
<1>3. Typed'
  BY <1>1, <1>2 DEF IInv, Typed
<1> QED
  BY <1>1, <1>3 DEF SameStack

\* A step that stores nothing below the header of the next frame and assigns
\* no local.
LEMMA AboveKeeps ==
    ASSUME IInv, SameStack, Top'.assigned = Top.assigned,
           \A a \in Nat : a < rsp => At(mem', a) = At(mem, a),
           Top'.pending # <<>> => /\ Depth < MaxDepth
                                  /\ At(mem', rsp + 1).i = rsp /\ At(mem', rsp + 2).i = rarp
    PROVE  IInv'
<1>1. rsp = Top.sp /\ rarp = Top.base /\ Top = frames[Depth] /\ Depth \in 1 .. Depth
  BY TopFacts DEF IInv, Linked
<1>2. Depth > 1 => \A a \in Nat : a < Top.base + 3 => At(mem', a) = At(mem, a)
  <2> SUFFICES ASSUME Depth > 1 PROVE Top.base + 3 < rsp
    BY <1>1, FrameFacts DEF IInv
  <2>1. /\ Top.base + Words[Top.fn] + RA_SIZE < rsp
        /\ Words[Top.fn] \in Nat /\ Top.base \in Nat /\ rsp \in Nat
    BY <1>1, FrameRoom, FrameFacts DEF IInv
  <2> QED
    BY <2>1 DEF RA_SIZE
<1>3. \A i \in Top.assigned : At(mem', LocalAddress(Top, i)) = Datum("local", Depth, 0, i)
  <2> SUFFICES ASSUME NEW i \in Top.assigned
               PROVE  At(mem', LocalAddress(Top, i)) = Datum("local", Depth, 0, i)
    OBVIOUS
  <2>1. i \in 0 .. Words[frames[Depth].fn] - 1
    BY <1>1 DEF IInv, Typed
  <2>2. LocalAddress(Top, i) \in Nat /\ LocalAddress(Top, i) < rsp
    BY <1>1, <2>1, LocalPlace DEF IInv
  <2>3. At(mem, LocalAddress(Top, i)) = Datum("local", Depth, 0, i)
    BY <1>1 DEF IInv, LocalsKept
  <2> QED
    BY <2>2, <2>3
<1> QED
  BY <1>2, <1>3, SameStackKeeps

LEMMA DatumTyped ==
    \A depth, level, i \in Nat :
        \A kind \in {"junk", "value", "local", "rsp", "rarp", "param", "return", "result"} :
            /\ Datum(kind, depth, level, i) \in Data
            /\ Datum(kind, depth, level, i).i = i
  BY DEF Datum, Data

\* The registers a function computes are among those it has.
LEMMA ComputeStack ==
    ASSUME IInv, Compute
    PROVE  /\ SameStack /\ ~InCall /\ mem' = mem
           /\ Top'.pending = <<>> /\ Top'.assigned = Top.assigned /\ Top'.next = Top.next + 1
           /\ Top.next \in Registers /\ Top.next \in Nat
           /\ Top'.held = [r \in DOMAIN Top.held \cup {Top.next} |->
                            IF r = Top.next THEN Datum("value", Depth, 0, Top.next)
                                            ELSE Top.held[r]]
           /\ \A r \in Registers : regs'[Top.fn][r] =
                 IF r = Top.next THEN Datum("value", Depth, 0, Top.next) ELSE regs[Top.fn][r]
<1> DEFINE datum == Datum("value", Depth, 0, Top.next)
           frame == [Top EXCEPT !.next = @ + 1,
                                !.held = [r \in DOMAIN @ \cup {Top.next} |->
                                            IF r = Top.next THEN datum ELSE @[r]]]
<1>1. /\ ~InCall /\ Top.next < MaxRegs /\ SetTop(frame)
      /\ regs' = [regs EXCEPT ![Top.fn][Top.next] = datum]
      /\ mem' = mem /\ rsp' = rsp /\ rarp' = rarp
  BY DEF Compute
<1>2. Top \in Frame /\ Top = frames[Depth] /\ Depth \in Nat /\ Depth \in 1 .. Depth
  BY TopFacts DEF IInv
<1>3. Top.next \in Registers /\ Top.next \in Nat /\ datum \in Data
  <2>1. Top.next \in 0 .. MaxRegs + 2 /\ MaxRegs \in Nat
    BY <1>2, FramesAssumption DEF Frame
  <2>2. Top.next \in Nat /\ Top.next \in Registers
    BY <1>1, <2>1 DEF Registers
  <2> QED
    BY <1>2, <2>2, DatumTyped
<1>4. [r \in DOMAIN Top.held \cup {Top.next} |-> IF r = Top.next THEN datum ELSE Top.held[r]] \in Held
  BY <1>2, <1>3, HeldFacts DEF Frame
<1> HIDE DEF datum
<1>5. frame \in Frame
  <2>1. Top.next + 1 \in 0 .. MaxRegs + 2
    <3>1. Top.next \in Nat /\ Top.next < MaxRegs /\ MaxRegs \in Nat
      BY <1>1, <1>3, FramesAssumption
    <3> QED
      BY <3>1
  <2> QED
    BY <1>2, <1>4, <2>1 DEF Frame
<1>6. /\ frame.fn = Top.fn /\ frame.base = Top.base /\ frame.sp = Top.sp
      /\ frame.assigned = Top.assigned /\ frame.pending = Top.pending
      /\ frame.next = Top.next + 1
      /\ frame.held = [r \in DOMAIN Top.held \cup {Top.next} |->
                         IF r = Top.next THEN datum ELSE Top.held[r]]
  BY <1>2 DEF Frame
<1>7. frame.assigned \subseteq 0 .. Words[Top.fn] - 1
  BY <1>2, <1>6 DEF IInv, Typed
<1>8. regs' \in [Funcs -> [Registers -> Data]]
  BY <1>1, <1>2, <1>3 DEF IInv, Typed, Frame
<1>9. SameStack /\ Top' = frame
  <2> HIDE DEF frame
  <2> QED
    BY <1>1, <1>5, <1>6, <1>7, <1>8, SetTopStep DEF IInv, Typed
<1>10. Top.pending = <<>>
  BY <1>1, TopFacts DEF IInv
<1>11. \A r \in Registers : regs'[Top.fn][r] = IF r = Top.next THEN datum ELSE regs[Top.fn][r]
  BY <1>1, <1>2, <1>3 DEF IInv, Typed, Frame
<1> HIDE DEF frame
<1> QED
  BY <1>1, <1>3, <1>6, <1>9, <1>10, <1>11 DEF datum

LEMMA ComputeKeeps ==
    ASSUME IInv, Compute
    PROVE  IInv'
  BY ComputeStack, AboveKeeps

LEMMA StatementStack ==
    ASSUME IInv, NEW n \in 0 .. MaxStart, Statement(n)
    PROVE  /\ SameStack /\ ~InCall /\ mem' = mem /\ Top'.held = <<>>
           /\ Top'.pending = <<>> /\ Top'.assigned = Top.assigned
<1> DEFINE frame == [Top EXCEPT !.next = n, !.held = <<>>]
<1>1. ~InCall /\ SetTop(frame) /\ mem' = mem /\ regs' = regs /\ rsp' = rsp /\ rarp' = rarp
  BY DEF Statement
<1>2. Top \in Frame /\ Top = frames[Depth] /\ Depth \in 1 .. Depth
  BY TopFacts DEF IInv
<1>3. frame \in Frame
  <2>1. n \in 0 .. MaxRegs + 2
    BY FramesAssumption
  <2> QED
    BY <1>2, <2>1, HeldFacts DEF Frame
<1>4. /\ frame.fn = Top.fn /\ frame.base = Top.base /\ frame.sp = Top.sp
      /\ frame.assigned = Top.assigned /\ frame.pending = Top.pending /\ frame.held = <<>>
  BY <1>2 DEF Frame
<1>5. frame.assigned \subseteq 0 .. Words[Top.fn] - 1
  BY <1>2, <1>4 DEF IInv, Typed
<1>6. SameStack /\ Top' = frame
  <2> HIDE DEF frame
  <2> QED
    BY <1>1, <1>3, <1>4, <1>5, SetTopStep DEF IInv, Typed
<1>7. Top.pending = <<>>
  BY <1>1, TopFacts DEF IInv
<1> HIDE DEF frame
<1> QED
  BY <1>1, <1>4, <1>6, <1>7

LEMMA StatementKeeps ==
    ASSUME IInv, NEW n \in 0 .. MaxStart, Statement(n)
    PROVE  IInv'
  BY StatementStack, AboveKeeps

\* An assignment writes one word of the frame, above its header.
LEMMA AssignLocalStack ==
    ASSUME IInv, NEW i \in 0 .. Words[Top.fn] - 1, NEW n \in 0 .. MaxStart, AssignLocal(i, n)
    PROVE  /\ SameStack /\ ~InCall /\ Top'.held = <<>> /\ Top'.pending = <<>>
           /\ Top'.assigned = Top.assigned \cup {i}
           /\ LocalAddress(Top, i) \in Nat
           /\ Depth > 1 => LocalAddress(Top, i) = Top.base + RA_SIZE + i
           /\ \A j \in 0 .. Words[Top.fn] - 1 : LocalAddress(Top, j) = LocalAddress(Top, i) => j = i
           /\ \A a : At(mem', a) = IF a = LocalAddress(Top, i) THEN Datum("local", Depth, 0, i)
                                  ELSE At(mem, a)
<1> DEFINE frame == [Top EXCEPT !.next = n, !.held = <<>>, !.assigned = @ \cup {i}]
           at == [a \in {LocalAddress(Top, i)} |-> Datum("local", Depth, 0, i)]
<1>1. ~InCall /\ SetTop(frame) /\ mem' = Stored(at) /\ regs' = regs /\ rsp' = rsp /\ rarp' = rarp
  BY DEF AssignLocal
<1>2. Top \in Frame /\ Top = frames[Depth] /\ Depth \in 1 .. Depth /\ Depth \in Nat
  BY TopFacts DEF IInv
<1>3. i \in Nat /\ Words[Top.fn] \in Nat /\ Top.base \in Nat
  BY <1>2, FrameFacts DEF IInv
<1>4. frame \in Frame
  <2>1. n \in 0 .. MaxRegs + 2
    BY FramesAssumption
  <2> QED
    BY <1>2, <1>3, <2>1, HeldFacts DEF Frame
<1>5. /\ frame.fn = Top.fn /\ frame.base = Top.base /\ frame.sp = Top.sp
      /\ frame.assigned = Top.assigned \cup {i} /\ frame.pending = Top.pending
      /\ frame.held = <<>>
  BY <1>2 DEF Frame
<1>6. frame.assigned \subseteq 0 .. Words[Top.fn] - 1
  BY <1>2, <1>5 DEF IInv, Typed
<1>7. /\ LocalAddress(Top, i) \in Nat
      /\ Depth > 1 => LocalAddress(Top, i) = Top.base + RA_SIZE + i
      /\ \A j \in 0 .. Words[Top.fn] - 1 : LocalAddress(Top, j) = LocalAddress(Top, i) => j = i
  BY <1>2, LocalPlace DEF IInv
<1>8. \E S \in SUBSET Nat : mem' \in [S -> Data]
  <2>1. {LocalAddress(Top, i)} \in SUBSET Nat /\ at \in [{LocalAddress(Top, i)} -> Data]
    BY <1>2, <1>3, <1>7, DatumTyped
  <2>2. PICK S \in SUBSET Nat : mem \in [S -> Data]
    BY DEF IInv, Typed
  <2> HIDE DEF at
  <2> QED
    BY <1>1, <2>1, <2>2, StoredTyped
<1>9. SameStack /\ Top' = frame
  <2> HIDE DEF frame
  <2> QED
    BY <1>1, <1>4, <1>5, <1>6, <1>8, SetTopStep DEF IInv, Typed
<1>10. \A a : At(mem', a) = IF a = LocalAddress(Top, i) THEN Datum("local", Depth, 0, i) ELSE At(mem, a)
  BY <1>1, StoredAt
<1>11. Top.pending = <<>>
  BY <1>1, TopFacts DEF IInv
<1> HIDE DEF frame
<1> QED
  BY <1>1, <1>5, <1>7, <1>9, <1>10, <1>11

LEMMA AssignLocalKeeps ==
    ASSUME IInv, NEW i \in 0 .. Words[Top.fn] - 1, NEW n \in 0 .. MaxStart, AssignLocal(i, n)
    PROVE  IInv'
<1>1. /\ Top.base \in Nat /\ i \in Nat /\ Top = frames[Depth] /\ Depth \in 1 .. Depth
      /\ Words[Top.fn] \in Nat
  BY TopFacts, FrameFacts DEF IInv
<1>2. Depth > 1 => \A a \in Nat : a < Top.base + 3 => At(mem', a) = At(mem, a)
  BY SMTT(30), <1>1, AssignLocalStack DEF RA_SIZE
<1>3. \A j \in Top'.assigned : At(mem', LocalAddress(Top, j)) = Datum("local", Depth, 0, j)
  <2> SUFFICES ASSUME NEW j \in Top.assigned, j # i
               PROVE  At(mem', LocalAddress(Top, j)) = Datum("local", Depth, 0, j)
    BY AssignLocalStack
  <2>1. j \in 0 .. Words[Top.fn] - 1
    BY <1>1 DEF IInv, Typed
  <2>2. LocalAddress(Top, j) # LocalAddress(Top, i)
    BY <2>1, AssignLocalStack
  <2> QED
    BY <1>1, <2>2, AssignLocalStack DEF IInv, LocalsKept
<1> QED
  BY <1>2, <1>3, AssignLocalStack, SameStackKeeps

----------------------------------------------------------------------------
(* Calls. *)

\* The stores that begin a call: the links, and the registers above them.
LEMMA BeginCallStores ==
    ASSUME Typed, NEW g \in Funcs, NEW n \in 0 .. MaxRegs, BeginCall(g, n)
    PROVE  /\ \E S \in SUBSET Nat : mem' \in [S -> Data]
           /\ At(mem', rsp + 1) = Datum("rsp", Depth, 0, rsp)
           /\ At(mem', rsp + 2) = Datum("rarp", Depth, 0, rarp)
           /\ \A i \in 0 .. n - 1 : At(mem', SaveAddress(Top, i)) = regs[Top.fn][i]
           /\ \A a \in Nat : a <= rsp \/ a = rsp + 3 => At(mem', a) = At(mem, a)
<1> DEFINE saves == [a \in {SaveAddress(Top, i) : i \in 0 .. n - 1} |->
                        regs[Top.fn][a - SaveAddress(Top, 0)]]
           links == [a \in {rsp + 1, rsp + 2} |->
                        IF a = rsp + 1 THEN Datum("rsp", Depth, 0, rsp)
                                       ELSE Datum("rarp", Depth, 0, rarp)]
<1>1. mem' = [a \in DOMAIN mem \cup DOMAIN saves \cup DOMAIN links |->
                IF a \in DOMAIN links THEN links[a]
                ELSE IF a \in DOMAIN saves THEN saves[a] ELSE mem[a]]
  BY DEF BeginCall
<1>2. /\ Top \in Frame /\ Top.fn \in Funcs /\ Words[Top.fn] \in Nat /\ Depth \in Nat
      /\ rsp \in Nat /\ rarp \in Nat /\ MaxRegs \in Nat
  BY TopFacts, FramesAssumption DEF Frame, Typed
<1> DEFINE low == rsp + RA_SIZE + 4 * Words[Top.fn]
<1>3. low \in Nat /\ rsp + 3 < low /\ \A i \in 0 .. n - 1 : SaveAddress(Top, i) = low + i
  BY <1>2 DEF SaveAddress, RA_SIZE
<1>4. DOMAIN saves = {low + i : i \in 0 .. n - 1}
  BY <1>3
<1>5. \A i \in 0 .. n - 1 : saves[low + i] = regs[Top.fn][i]
  <2>1. SaveAddress(Top, 0) = low
    BY <1>2 DEF SaveAddress, RA_SIZE
  <2> HIDE DEF low
  <2>2. \A i \in 0 .. n - 1 : low + i \in DOMAIN saves /\ (low + i) - low = i
    BY <1>3, <1>4
  <2> QED
    BY <2>1, <2>2
<1>6. \A i \in 0 .. n - 1 : regs[Top.fn][i] \in Data
  <2>1. \A i \in 0 .. n - 1 : i \in Registers
    BY <1>2 DEF Registers
  <2> QED
    BY <1>2, <2>1 DEF Typed
<1>7. saves \in [DOMAIN saves -> Data] /\ DOMAIN saves \in SUBSET Nat
  <2> HIDE DEF low
  <2>1. ASSUME NEW a \in DOMAIN saves PROVE a \in Nat /\ saves[a] \in Data
    BY <1>3, <1>4, <1>5, <1>6
  <2> QED
    BY <2>1
<1>8. links \in [{rsp + 1, rsp + 2} -> Data] /\ {rsp + 1, rsp + 2} \in SUBSET Nat
  <2>1. Datum("rsp", Depth, 0, rsp) \in Data /\ Datum("rarp", Depth, 0, rarp) \in Data
    BY <1>2 DEF Datum, Data
  <2> QED
    BY <1>2, <2>1
<1>9. \E S \in SUBSET Nat : mem' \in [S -> Data]
  <2>1. PICK S \in SUBSET Nat : mem \in [S -> Data]
    BY DEF Typed
  <2> HIDE DEF saves, links
  <2>2. mem' \in [S \cup DOMAIN saves \cup DOMAIN links -> Data]
    BY <1>1, <1>7, <1>8, <2>1
  <2> QED
    BY <1>7, <1>8, <2>1, <2>2
<1>10. \A a : At(mem', a) = IF a \in DOMAIN links THEN links[a]
                            ELSE IF a \in DOMAIN saves THEN saves[a] ELSE At(mem, a)
  <2> HIDE DEF saves, links
  <2> QED
    BY <1>1 DEF At
<1>11. DOMAIN links = {rsp + 1, rsp + 2}
  OBVIOUS
<1>12. At(mem', rsp + 1) = Datum("rsp", Depth, 0, rsp)
       /\ At(mem', rsp + 2) = Datum("rarp", Depth, 0, rarp)
  <2> HIDE DEF saves
  <2>1. rsp + 1 # rsp + 2 /\ rsp + 1 \in DOMAIN links /\ rsp + 2 \in DOMAIN links
    BY <1>2, <1>11
  <2>2. links[rsp + 1] = Datum("rsp", Depth, 0, rsp) /\ links[rsp + 2] = Datum("rarp", Depth, 0, rarp)
    BY <2>1
  <2> QED
    BY <1>10, <2>1, <2>2
<1>13. \A i \in 0 .. n - 1 : At(mem', SaveAddress(Top, i)) = regs[Top.fn][i]
  <2> HIDE DEF saves, links, low
  <2> SUFFICES ASSUME NEW i \in 0 .. n - 1 PROVE At(mem', low + i) = regs[Top.fn][i]
    BY <1>3
  <2>1. low + i \in DOMAIN saves /\ low + i \notin DOMAIN links
    BY <1>2, <1>3, <1>4, <1>11
  <2> QED
    BY <1>5, <1>10, <2>1
<1>14. ASSUME NEW a \in Nat, a <= rsp \/ a = rsp + 3
       PROVE  At(mem', a) = At(mem, a)
  <2> HIDE DEF saves, links, low
  <2>1. a \notin DOMAIN saves /\ a \notin DOMAIN links
    BY <1>2, <1>3, <1>4, <1>11, <1>14
  <2> QED
    BY <1>10, <2>1
<1> QED
  BY <1>9, <1>12, <1>13, <1>14

\* The call is added to those the function has begun.
LEMMA BeginCallStack ==
    ASSUME IInv, NEW g \in Funcs, NEW n \in 0 .. MaxRegs, BeginCall(g, n)
    PROVE  /\ SameStack /\ Depth < MaxDepth /\ Building
           /\ <<Top.fn, g>> \in Calls /\ Fits(g, n)
           /\ InCall => Nested /\ RemainingArguments > 0
           /\ NewCall(g, n) \in Calling
           /\ Top'.pending = Append(Top.pending, NewCall(g, n))
           /\ Top'.assigned = Top.assigned /\ Top'.held = Top.held /\ Top'.next = Top.next
           /\ regs' = regs
<1> DEFINE frame == [Top EXCEPT !.pending = Append(@, NewCall(g, n))]
<1>1. /\ Depth < MaxDepth /\ Building /\ <<Top.fn, g>> \in Calls /\ Fits(g, n) /\ SetTop(frame)
      /\ InCall => Nested /\ RemainingArguments > 0
      /\ regs' = regs /\ rsp' = rsp /\ rarp' = rarp
  BY DEF BeginCall
<1>2. Top \in Frame /\ Top = frames[Depth] /\ Depth \in 1 .. Depth
  BY TopFacts DEF IInv
<1>3. NewCall(g, n) \in Calling
  <2>1. g \in Funcs \ {Main} /\ Top.next \in 0 .. MaxRegs + 2
    BY <1>1, <1>2, FramesAssumption DEF Frame
  <2> QED
    BY <2>1 DEF NewCall, Calling
<1>4. Append(Top.pending, NewCall(g, n)) \in Seq(Calling)
  BY <1>2, <1>3 DEF Frame
<1>5. frame \in Frame
  BY <1>2, <1>4 DEF Frame
<1>6. /\ frame.fn = Top.fn /\ frame.base = Top.base /\ frame.sp = Top.sp
      /\ frame.assigned = Top.assigned /\ frame.held = Top.held /\ frame.next = Top.next
      /\ frame.pending = Append(Top.pending, NewCall(g, n))
  BY <1>2 DEF Frame
<1>7. frame.assigned \subseteq 0 .. Words[Top.fn] - 1
  BY <1>2, <1>6 DEF IInv, Typed
<1>8. SameStack /\ Top' = frame
  <2> HIDE DEF frame
  <2> QED
    BY <1>1, <1>5, <1>6, <1>7, SetTopStep, BeginCallStores DEF IInv, Typed
<1> QED
  BY <1>1, <1>3, <1>6, <1>8

LEMMA BeginCallKeeps ==
    ASSUME IInv, NEW g \in Funcs, NEW n \in 0 .. MaxRegs, BeginCall(g, n)
    PROVE  IInv'
<1>1. rsp \in Nat /\ rarp \in Nat /\ Depth \in Nat
  BY TopFacts DEF IInv, Typed
<1>2. At(mem', rsp + 1).i = rsp /\ At(mem', rsp + 2).i = rarp
  BY <1>1, BeginCallStores DEF IInv, Datum
<1>3. \A a \in Nat : a < rsp => At(mem', a) = At(mem, a)
  BY <1>1, BeginCallStores DEF IInv
<1> QED
  BY <1>2, <1>3, BeginCallStack, AboveKeeps

\* An argument is one more datum in the frame to be, above its header.
LEMMA StoreParamFacts ==
    ASSUME IInv, NEW n \in 0 .. MaxRegs + 2, StoreParam(n)
    PROVE  /\ SameStack /\ InCall /\ Building
           /\ ThisCall.args < Params[ThisCall.callee]
           /\ n \in {Top.next, Top.next + 1}
           /\ Top'.assigned = Top.assigned /\ Top'.held = Top.held /\ Top'.next = n
           /\ Len(Top'.pending) = Level
           /\ \A l \in 1 .. Level : /\ Top'.pending[l].callee = Top.pending[l].callee
                                    /\ Top'.pending[l].saved = Top.pending[l].saved
                                    /\ Top'.pending[l].returned = Top.pending[l].returned
           /\ Top'.pending[Level].args = ThisCall.args + 1
           /\ \A r \in Registers : r < Top.next => regs'[Top.fn][r] = regs[Top.fn][r]
           /\ \A a : At(mem', a) = IF a = rsp + RA_SIZE + ThisCall.args
                                   THEN Datum("param", Depth, Level, ThisCall.args) ELSE At(mem, a)
<1> DEFINE frame == [Top EXCEPT !.next = n,
                                !.pending[Level].args = @ + 1, !.pending[Level].from = n]
           at == [a \in {rsp + RA_SIZE + ThisCall.args} |->
                     Datum("param", Depth, Level, ThisCall.args)]
<1>1. /\ InCall /\ Building /\ RemainingArguments > 0 /\ SetTop(frame)
      /\ n = IF Top.next = ThisCall.from THEN Top.next + 1 ELSE Top.next
      /\ regs' = [regs EXCEPT ![Top.fn] =
                    [r \in Registers |-> IF r \in Top.next .. n - 1
                                         THEN Datum("value", Depth, Level, r) ELSE @[r]]]
      /\ mem' = Stored(at) /\ rsp' = rsp /\ rarp' = rarp
  BY DEF StoreParam
<1>2. Top \in Frame /\ Top = frames[Depth] /\ Depth \in 1 .. Depth /\ Depth \in Nat /\ rsp \in Nat
  BY TopFacts DEF IInv, Typed
<1>3. /\ Level \in 1 .. Len(Top.pending) /\ Level = Len(Top.pending) /\ Level \in Nat
      /\ ThisCall \in Calling /\ Top.pending[Level] = ThisCall /\ Top.pending \in Seq(Calling)
  BY <1>1, TopFacts DEF IInv, ThisCall, Frame
<1>4. ThisCall.args \in Nat /\ ThisCall.args < Params[ThisCall.callee]
  <2>1. ThisCall.args \in Nat /\ Params[ThisCall.callee] \in Nat
    BY <1>3, FramesAssumption DEF Calling
  <2> QED
    BY <1>1, <2>1 DEF RemainingArguments
<1> DEFINE call == [ThisCall EXCEPT !.args = @ + 1, !.from = n]
           pending == [Top.pending EXCEPT ![Level] = call]
<1>5. call \in Calling
  <2>1. ThisCall.args + 1 \in Nat
    BY <1>4
  <2>2. ThisCall.returned \in BOOLEAN
    BY <1>3 DEF Calling
  <2> QED
    BY <1>3, <2>1, <2>2 DEF Calling
<1>5a. call.callee = ThisCall.callee /\ call.saved = ThisCall.saved
      /\ call.returned = ThisCall.returned /\ call.args = ThisCall.args + 1
  BY <1>3 DEF Calling
<1>6. /\ pending \in Seq(Calling) /\ Len(pending) = Level /\ pending[Level] = call
      /\ \A l \in 1 .. Level : l # Level => pending[l] = Top.pending[l]
  <2> HIDE DEF call
  <2> QED
    BY <1>3, <1>5
<1>7. frame = [Top EXCEPT !.next = n, !.pending = pending]
  <2>1. [Top.pending EXCEPT ![Level].args = @ + 1, ![Level].from = n] = pending
    BY <1>3
  <2> QED
    BY <2>1
<1>8. frame \in Frame /\ frame.fn = Top.fn /\ frame.base = Top.base /\ frame.sp = Top.sp
      /\ frame.assigned = Top.assigned /\ frame.held = Top.held /\ frame.next = n
      /\ frame.pending = pending
  <2> HIDE DEF pending, frame
  <2> QED
    BY <1>2, <1>6, <1>7 DEF Frame
<1>9. frame.assigned \subseteq 0 .. Words[Top.fn] - 1
  BY <1>2, <1>8 DEF IInv, Typed
<1>10. \E S \in SUBSET Nat : mem' \in [S -> Data]
  <2>1. Datum("param", Depth, Level, ThisCall.args) \in Data
    BY <1>2, <1>3, <1>4 DEF Datum, Data
  <2>2. /\ {rsp + RA_SIZE + ThisCall.args} \in SUBSET Nat
        /\ at \in [{rsp + RA_SIZE + ThisCall.args} -> Data]
    BY <1>2, <1>4, <2>1 DEF RA_SIZE
  <2>3. PICK S \in SUBSET Nat : mem \in [S -> Data]
    BY DEF IInv, Typed
  <2> HIDE DEF at
  <2> QED
    BY <1>1, <2>2, <2>3, StoredTyped
<1>11. regs' \in [Funcs -> [Registers -> Data]]
       /\ \A r \in Registers : r < Top.next => regs'[Top.fn][r] = regs[Top.fn][r]
  <2>1. \A r \in Registers : Datum("value", Depth, Level, r) \in Data /\ r \in Nat
    BY <1>2, <1>3, FramesAssumption DEF Datum, Data, Registers
  <2>2. Top.fn \in Funcs /\ Top.next \in Nat
    BY <1>2 DEF Frame
  <2>3. regs'[Top.fn] = [r \in Registers |-> IF r \in Top.next .. n - 1
                           THEN Datum("value", Depth, Level, r) ELSE regs[Top.fn][r]]
    BY <1>1, <2>2 DEF IInv, Typed
  <2>4. regs'[Top.fn] \in [Registers -> Data]
    BY <2>1, <2>2, <2>3 DEF IInv, Typed
  <2>5. regs' \in [Funcs -> [Registers -> Data]]
    BY <1>1, <2>2, <2>3, <2>4 DEF IInv, Typed
  <2> QED
    BY <2>1, <2>2, <2>3, <2>5
<1>12. SameStack /\ Top' = frame
  <2> HIDE DEF frame
  <2> QED
    BY <1>1, <1>8, <1>9, <1>10, <1>11, SetTopStep
<1>13. \A a : At(mem', a) = IF a = rsp + RA_SIZE + ThisCall.args
                            THEN Datum("param", Depth, Level, ThisCall.args) ELSE At(mem, a)
  BY <1>1, StoredAt
<1>14. \A l \in 1 .. Level : /\ pending[l].callee = Top.pending[l].callee
                             /\ pending[l].saved = Top.pending[l].saved
                             /\ pending[l].returned = Top.pending[l].returned
  <2> HIDE DEF pending, call
  <2> QED
    BY <1>3, <1>5a, <1>6
<1> HIDE DEF frame, pending, call
<1> QED
  BY <1>1, <1>4, <1>5a, <1>6, <1>8, <1>11, <1>12, <1>13, <1>14

LEMMA StoreParamKeeps ==
    ASSUME IInv, NEW n \in 0 .. MaxRegs + 2, StoreParam(n)
    PROVE  IInv'
<1>1. /\ rsp \in Nat /\ Top = frames[Depth] /\ Depth \in 1 .. Depth
      /\ rsp = Top.sp /\ rarp = Top.base
  BY TopFacts DEF IInv, Typed, Linked
<1>2. ThisCall.args \in Nat /\ Top.pending # <<>>
  BY StoreParamFacts, TopFacts DEF IInv, Calling
<1>3. \A a \in Nat : a < rsp + RA_SIZE => At(mem', a) = At(mem, a)
  BY SMTT(30), <1>1, <1>2, StoreParamFacts DEF RA_SIZE
<1>4. At(mem', rsp + 1).i = rsp /\ At(mem', rsp + 2).i = rarp
  <2>1. At(mem', rsp + 1) = At(mem, rsp + 1) /\ At(mem', rsp + 2) = At(mem, rsp + 2)
    BY <1>1, <1>3 DEF RA_SIZE
  <2> QED
    BY <1>1, <1>2, <2>1 DEF IInv, Linked
<1>5. Depth < MaxDepth
  BY <1>1, <1>2 DEF IInv, Waiting
<1>6. \A a \in Nat : a < rsp => At(mem', a) = At(mem, a)
  BY <1>1, <1>3 DEF RA_SIZE
<1> QED
  BY <1>4, <1>5, <1>6, StoreParamFacts, AboveKeeps

\* The jump puts a frame on top of the caller's.
LEMMA JumpFacts ==
    ASSUME IInv, Jump
    PROVE  /\ InCall /\ Building /\ ThisCall.args = Params[ThisCall.callee]
           /\ ThisCall \in Calling /\ Words[ThisCall.callee] \in Nat
           /\ Depth < MaxDepth /\ Depth' = Depth + 1
           /\ rarp' = rsp
           /\ rsp' = rsp + 4 * Words[ThisCall.callee] + RA_SIZE + ThisCall.saved + 2
           /\ \A d \in 1 .. Depth : frames'[d] = frames[d]
           /\ frames'[Depth + 1] = NewFrame(ThisCall.callee, rsp, rsp')
           /\ regs' = regs
           /\ \A a : At(mem', a) = IF a = rsp THEN Datum("return", Depth, 0, 0) ELSE At(mem, a)
           /\ Typed'
<1> DEFINE at == [a \in {rsp} |-> Datum("return", Depth, 0, 0)]
           new == NewFrame(ThisCall.callee, rsp, rsp')
<1>1. /\ InCall /\ Building /\ ThisCall.args = Params[ThisCall.callee]
      /\ mem' = Stored(at) /\ rarp' = rsp /\ regs' = regs
      /\ rsp' = rsp + 4 * Words[ThisCall.callee] + RA_SIZE + ThisCall.saved + 2
      /\ frames' = Append(frames, new)
  BY DEF Jump
<1>2. /\ Top = frames[Depth] /\ Depth \in 1 .. Depth /\ Depth \in Nat /\ Depth = Len(frames)
      /\ rsp \in Nat /\ ThisCall \in Calling /\ Top.pending # <<>>
  BY <1>1, TopFacts DEF IInv, Typed
<1>3. ThisCall.callee \in Funcs /\ Words[ThisCall.callee] \in Nat /\ ThisCall.saved \in Nat
  BY <1>2, FramesAssumption DEF Calling
<1>4. rsp' \in Nat
  BY SMTT(30), <1>1, <1>2, <1>3 DEF RA_SIZE
<1>5. new \in Frame
  <2>1. 0 \in 0 .. MaxRegs + 2
    BY FramesAssumption
  <2>2. <<>> \in Seq(Calling) /\ {} \in SUBSET Nat
    OBVIOUS
  <2> QED
    BY <1>2, <1>3, <1>4, <2>1, <2>2, HeldFacts DEF Frame, NewFrame
<1>6. Depth < MaxDepth
  BY <1>2 DEF IInv, Waiting
<1>7. /\ frames' \in Seq(Frame) /\ Depth' = Depth + 1 /\ frames'[Depth + 1] = new
      /\ \A d \in 1 .. Depth : frames'[d] = frames[d]
  <2> HIDE DEF new
  <2> QED
    BY <1>1, <1>2, <1>5 DEF IInv, Typed, Depth
<1>8. \E S \in SUBSET Nat : mem' \in [S -> Data]
  <2>1. Datum("return", Depth, 0, 0) \in Data
    BY <1>2 DEF Datum, Data
  <2>2. {rsp} \in SUBSET Nat /\ at \in [{rsp} -> Data]
    BY <1>2, <2>1
  <2>3. PICK S \in SUBSET Nat : mem \in [S -> Data]
    BY DEF IInv, Typed
  <2> HIDE DEF at
  <2> QED
    BY <1>1, <2>2, <2>3, StoredTyped
<1>9. \A d \in 1 .. Depth' : frames'[d].assigned \subseteq 0 .. Words[frames'[d].fn] - 1
  <2>1. new.assigned = {}
    BY DEF NewFrame
  <2> HIDE DEF new
  <2>2. ASSUME NEW d \in 1 .. Depth', d # Depth + 1
        PROVE  frames'[d].assigned \subseteq 0 .. Words[frames'[d].fn] - 1
    <3>1. d \in 1 .. Depth /\ frames'[d] = frames[d]
      BY <1>2, <1>7, <2>2
    <3> QED
      BY <3>1 DEF IInv, Typed
  <2> QED
    BY <1>7, <2>1, <2>2
<1>10. Typed'
  <2> HIDE DEF new
  <2>1. Depth' \in 1 .. MaxDepth
    BY <1>2, <1>6, <1>7, FramesAssumption
  <2> QED
    BY <1>1, <1>2, <1>4, <1>7, <1>8, <1>9, <2>1 DEF IInv, Typed
<1>11. \A a : At(mem', a) = IF a = rsp THEN Datum("return", Depth, 0, 0) ELSE At(mem, a)
  BY <1>1, StoredAt
<1> HIDE DEF new
<1> QED
  BY <1>1, <1>2, <1>3, <1>6, <1>7, <1>10, <1>11 DEF new

\* A word a frame needs after the calls it waits for is below the newest one.
LEMMA SpBelow ==
    ASSUME Typed, Ordered, NEW d \in 1 .. Depth
    PROVE  frames[d].sp <= frames[Depth].sp /\ (d < Depth => frames[d].sp <= frames[Depth].base)
<1>1. Depth \in 1 .. Depth
  BY TopFacts
<1>2. CASE d = Depth
  BY <1>1, <1>2, FrameFacts
<1>3. CASE d # Depth
  <2>1. frames[d].sp <= frames[Depth].base /\ frames[Depth].base <= frames[Depth].sp
    BY <1>1, <1>3, FrameRoom DEF Ordered
  <2> QED
    BY <1>1, <2>1, FrameFacts
<1> QED
  BY <1>2, <1>3

LEMMA JumpKeeps ==
    ASSUME IInv, Jump
    PROVE  IInv'
<1>1. /\ Top = frames[Depth] /\ Depth \in 1 .. Depth /\ Depth \in Nat \ {0} /\ rsp \in Nat
      /\ rsp = frames[Depth].sp /\ rarp = Top.base /\ Top.pending # <<>>
  BY SMTT(30), JumpFacts, TopFacts DEF IInv, Typed, Linked
<1>2. PICK g, n : /\ g = ThisCall.callee /\ n = ThisCall.saved
                  /\ g \in Funcs /\ g # Main /\ Words[g] \in Nat /\ n \in Nat
  BY JumpFacts, FramesAssumption DEF Calling
<1>3. /\ Depth' = Depth + 1 /\ rarp' = rsp /\ rsp' = rsp + 4 * Words[g] + RA_SIZE + n + 2
      /\ \A d \in 1 .. Depth : frames'[d] = frames[d]
      /\ frames'[Depth + 1] = NewFrame(g, rsp, rsp')
      /\ \A a : At(mem', a) = IF a = rsp THEN Datum("return", Depth, 0, 0) ELSE At(mem, a)
      /\ Typed'
  BY <1>2, JumpFacts
<1>4. /\ frames'[Depth + 1].fn = g /\ frames'[Depth + 1].base = rsp /\ frames'[Depth + 1].sp = rsp'
      /\ frames'[Depth + 1].pending = <<>> /\ frames'[Depth + 1].assigned = {}
  BY <1>3 DEF NewFrame
<1>5. Top' = frames'[Depth + 1]
  BY <1>3 DEF Top
<1>6. \A d \in 1 .. Depth : /\ frames[d].sp <= rsp /\ frames[d].sp \in Nat /\ frames[d].base \in Nat
                            /\ frames[d].base <= frames[d].sp
  BY <1>1, SpBelow, FrameFacts, FrameRoom DEF IInv
<1>7. Ordered'
  <2>1. frames'[1] = frames[1]
    BY <1>1, <1>3
  <2>2. ASSUME NEW d \in 2 .. Depth'
        PROVE  /\ frames'[d].fn # Main /\ frames'[d].base = frames'[d - 1].sp
               /\ frames'[d].base + 4 * Words[frames'[d].fn] + RA_SIZE + 2 <= frames'[d].sp
    <3>1. CASE d = Depth + 1
      <4>1. d - 1 = Depth /\ frames'[d - 1] = frames[Depth]
        BY <1>1, <1>3, <3>1
      <4>2. rsp + 4 * Words[g] + RA_SIZE + 2 <= rsp'
        <5>1. rsp' = rsp + 4 * Words[g] + RA_SIZE + n + 2 /\ Words[g] \in Nat /\ n \in Nat
              /\ rsp \in Nat
          BY <1>1, <1>2, <1>3
        <5> QED
          BY <5>1 DEF RA_SIZE
      <4> QED
        BY <1>1, <1>2, <1>4, <3>1, <4>1, <4>2
    <3>2. CASE d # Depth + 1
      <4>1. d \in 2 .. Depth /\ d - 1 \in 1 .. Depth /\ d \in 1 .. Depth
        BY <1>1, <1>3, <3>2
      <4>2. frames'[d] = frames[d] /\ frames'[d - 1] = frames[d - 1]
        BY <1>3, <4>1
      <4> QED
        BY <4>1, <4>2 DEF IInv, Ordered
    <3> QED
      BY <3>1, <3>2
  <2>3. ASSUME NEW d \in 1 .. Depth', NEW e \in 1 .. Depth', d < e
        PROVE  frames'[d].sp <= frames'[e].base
    <3>1. d \in 1 .. Depth
      BY <1>1, <1>3, <2>3
    <3>2. CASE e = Depth + 1
      BY <1>3, <1>4, <1>6, <3>1, <3>2
    <3>3. CASE e # Depth + 1
      <4>1. e \in 1 .. Depth
        BY <1>1, <1>3, <3>3
      <4> QED
        BY <1>3, <2>3, <3>1, <4>1 DEF IInv, Ordered
    <3> QED
      BY <3>2, <3>3
  <2> QED
    BY <2>1, <2>2, <2>3 DEF IInv, Ordered
<1>8. Waiting'
  <2>1. ASSUME NEW d \in 1 .. Depth', frames'[d].pending # <<>> PROVE d < MaxDepth
    <3>1. d \in 1 .. Depth
      BY <1>1, <1>3, <1>4, <2>1
    <3> QED
      BY <1>3, <2>1, <3>1 DEF IInv, Waiting
  <2>2. ASSUME NEW d \in 2 .. Depth' PROVE frames'[d - 1].pending # <<>>
    <3>1. CASE d = Depth + 1
      BY <1>1, <1>3, <3>1
    <3>2. CASE d # Depth + 1
      <4>1. d \in 2 .. Depth /\ d - 1 \in 1 .. Depth
        BY <1>1, <1>3, <3>2
      <4> QED
        BY <1>3, <4>1 DEF IInv, Waiting
    <3> QED
      BY <3>1, <3>2
  <2> QED
    BY <2>1, <2>2 DEF Waiting
<1>9. Linked'
  <2>1. rarp' = Top'.base /\ rsp' = Top'.sp
    BY <1>3, <1>4, <1>5
  <2>2. ASSUME NEW d \in 2 .. Depth' PROVE At(mem', frames'[d].base) = Datum("return", d - 1, 0, 0)
    <3>1. CASE d = Depth + 1
      BY <1>1, <1>3, <1>4, <3>1
    <3>2. CASE d # Depth + 1
      <4>1. d \in 2 .. Depth /\ d \in 1 .. Depth /\ d > 1
        BY <1>1, <1>3, <3>2
      <4>2. frames[d].base # rsp
        <5>1. frames[d].base + Words[frames[d].fn] + RA_SIZE < frames[d].sp
          BY <4>1, FrameRoom DEF IInv
        <5>2. Words[frames[d].fn] \in Nat
          BY <4>1, FrameFacts DEF IInv
        <5> QED
          BY <1>1, <1>6, <4>1, <5>1, <5>2 DEF RA_SIZE
      <4> QED
        BY <1>3, <4>1, <4>2 DEF IInv, Linked
    <3> QED
      BY <3>1, <3>2
  <2>3. ASSUME NEW d \in 1 .. Depth', frames'[d].pending # <<>>
        PROVE  /\ At(mem', frames'[d].sp + 1).i = frames'[d].sp
               /\ At(mem', frames'[d].sp + 2).i = frames'[d].base
    <3>1. d \in 1 .. Depth /\ frames'[d] = frames[d]
      BY <1>1, <1>3, <1>4, <2>3
    <3>2. frames[d].sp + 1 # rsp /\ frames[d].sp + 2 # rsp
      <4>1. CASE d = Depth
        BY <1>1, <4>1
      <4>2. CASE d # Depth
        <5>1. d < Depth /\ Depth > 1 /\ frames[d].sp <= frames[Depth].base
          BY <1>1, <3>1, <4>2, SpBelow DEF IInv
        <5>2. frames[Depth].base + RA_SIZE < rsp
          <6>1. frames[Depth].base + Words[frames[Depth].fn] + RA_SIZE < frames[Depth].sp
            BY <1>1, <5>1, FrameRoom DEF IInv
          <6>2. Words[frames[Depth].fn] \in Nat /\ frames[Depth].base \in Nat
            BY <1>1, FrameFacts DEF IInv
          <6> QED
            BY <1>1, <6>1, <6>2 DEF RA_SIZE
        <5> QED
          BY SMTT(30), <1>1, <1>6, <3>1, <5>1, <5>2 DEF RA_SIZE
      <4> QED
        BY <4>1, <4>2
    <3> QED
      BY <1>3, <2>3, <3>1, <3>2 DEF IInv, Linked
  <2> QED
    BY <2>1, <2>2, <2>3 DEF Linked
<1>10. LocalsKept'
  <2> SUFFICES ASSUME NEW d \in 1 .. Depth', NEW i \in frames'[d].assigned
               PROVE  At(mem', LocalAddress(frames'[d], i)) = Datum("local", d, 0, i)
    BY DEF LocalsKept
  <2>1. d \in 1 .. Depth /\ frames'[d] = frames[d]
    BY <1>1, <1>3, <1>4
  <2>2. i \in 0 .. Words[frames[d].fn] - 1
    BY <2>1 DEF IInv, Typed
  <2>3. LocalAddress(frames[d], i) \in Nat /\ LocalAddress(frames[d], i) < rsp
    BY <1>1, <1>6, <2>1, <2>2, LocalPlace DEF IInv
  <2> QED
    BY <1>1, <1>3, <2>1, <2>3 DEF IInv, LocalsKept
<1> QED
  BY <1>3, <1>7, <1>8, <1>9, <1>10 DEF IInv

\* The return takes the newest frame away and gives its caller back what the
\* links say.
LEMMA ReturnFacts ==
    ASSUME IInv, Return
    PROVE  /\ Depth > 1 /\ ~InCall /\ Depth' = Depth - 1
           /\ rsp' = frames[Depth - 1].sp /\ rarp' = frames[Depth - 1].base
           /\ \A d \in 1 .. Depth - 2 : frames'[d] = frames[d]
           /\ Top' = frames'[Depth - 1]
           /\ Top'.fn = frames[Depth - 1].fn /\ Top'.base = frames[Depth - 1].base
           /\ Top'.sp = frames[Depth - 1].sp /\ Top'.held = frames[Depth - 1].held
           /\ Top'.assigned = frames[Depth - 1].assigned /\ Top'.next = frames[Depth - 1].next
           /\ Len(Top'.pending) = Len(frames[Depth - 1].pending) /\ Top'.pending # <<>>
           /\ \A l \in 1 .. Len(Top'.pending) :
                 /\ Top'.pending[l].callee = frames[Depth - 1].pending[l].callee
                 /\ Top'.pending[l].saved = frames[Depth - 1].pending[l].saved
                 /\ Top'.pending[l].args = frames[Depth - 1].pending[l].args
                 /\ l < Len(Top'.pending) =>
                      Top'.pending[l].returned = frames[Depth - 1].pending[l].returned
           /\ Top'.pending[Len(Top'.pending)].returned
           /\ regs' = regs
           /\ \A a : At(mem', a) = IF a = rarp + 3 THEN Datum("result", Depth, 0, 0) ELSE At(mem, a)
           /\ Typed'
<1> DEFINE at == [a \in {rarp + 3} |-> Datum("result", Depth, 0, 0)]
           low == SubSeq(frames, 1, Depth - 1)
           caller == frames[Depth - 1]
           level == Len(caller.pending)
           call == [caller.pending[level] EXCEPT !.returned = TRUE]
           pending == [caller.pending EXCEPT ![level] = call]
           frame == [caller EXCEPT !.pending = pending]
<1>1. /\ Depth > 1 /\ ~InCall /\ regs' = regs
      /\ mem' = Stored(at) /\ rsp' = Load(rarp + 1).i /\ rarp' = Load(rarp + 2).i
      /\ frames' = [low EXCEPT ![Depth - 1].pending[level].returned = TRUE]
  BY DEF Return
<1>2. /\ Depth \in Nat /\ Depth = Len(frames) /\ Depth - 1 \in 1 .. Depth /\ Depth \in 2 .. Depth
      /\ Depth - 1 \in Nat /\ rarp \in Nat /\ frames \in Seq(Frame)
      /\ Top = frames[Depth] /\ rarp = Top.base
  <2>1. Depth \in Nat \ {0} /\ Depth = Len(frames) /\ Top = frames[Depth]
    BY TopFacts DEF IInv
  <2>2. rarp \in Nat /\ frames \in Seq(Frame) /\ rarp = Top.base
    BY DEF IInv, Typed, Linked
  <2> QED
    BY <1>1, <2>1, <2>2
<1>3. /\ caller \in Frame /\ caller.pending \in Seq(Calling) /\ caller.pending # <<>>
      /\ level \in 1 .. Len(caller.pending) /\ caller.sp \in Nat /\ caller.base \in Nat
  <2>1. caller \in Frame /\ caller.pending \in Seq(Calling) /\ caller.pending # <<>>
        /\ caller.sp \in Nat /\ caller.base \in Nat
    BY <1>2, FrameFacts DEF IInv, Waiting
  <2> HIDE DEF caller
  <2> QED
    BY <2>1
<1>4. rsp' = caller.sp /\ rarp' = caller.base
  <2>1. Top.base = caller.sp
    BY <1>2 DEF IInv, Ordered
  <2>2. At(mem, caller.sp + 1).i = caller.sp /\ At(mem, caller.sp + 2).i = caller.base
    BY <1>2, <1>3 DEF IInv, Linked
  <2> QED
    BY <1>1, <1>2, <2>1, <2>2, LoadIsAt
<1>5. call \in Calling /\ call.returned
  <2>1. caller.pending[level] \in Calling
    BY <1>3
  <2> QED
    BY <2>1 DEF Calling
<1>6. call.callee = caller.pending[level].callee /\ call.saved = caller.pending[level].saved
      /\ call.args = caller.pending[level].args
  <2>1. caller.pending[level] \in Calling
    BY <1>3
  <2> QED
    BY <2>1 DEF Calling
<1>7. /\ pending \in Seq(Calling) /\ Len(pending) = level /\ pending[level] = call
      /\ \A l \in 1 .. level : l # level => pending[l] = caller.pending[l]
  <2> HIDE DEF call, caller
  <2> QED
    BY <1>3, <1>5
<1>8. /\ frame \in Frame /\ frame.fn = caller.fn /\ frame.base = caller.base /\ frame.sp = caller.sp
      /\ frame.held = caller.held /\ frame.assigned = caller.assigned /\ frame.next = caller.next
      /\ frame.pending = pending
  <2> HIDE DEF pending, caller
  <2> QED
    BY <1>3, <1>7 DEF Frame
<1>9. /\ low \in Seq(Frame) /\ Len(low) = Depth - 1 /\ low[Depth - 1] = caller
      /\ \A d \in 1 .. Depth - 1 : low[d] = frames[d]
  BY <1>2
<1>10. frames' = [low EXCEPT ![Depth - 1] = frame]
  BY <1>1, <1>2, <1>3, <1>9
<1>11. /\ frames' \in Seq(Frame) /\ Depth' = Depth - 1 /\ frames'[Depth - 1] = frame
       /\ \A d \in 1 .. Depth - 2 : frames'[d] = frames[d]
  <2> HIDE DEF low, frame
  <2>1. frames' \in Seq(Frame) /\ Len(frames') = Depth - 1 /\ frames'[Depth - 1] = frame
        /\ \A d \in 1 .. Depth - 2 : frames'[d] = low[d]
    BY <1>2, <1>8, <1>9, <1>10
  <2> QED
    <3>1. \A d \in 1 .. Depth - 2 : d \in 1 .. Depth - 1
      BY <1>2
    <3>2. Depth' = Len(frames')
      BY DEF Depth
    <3> QED
      BY <1>9, <2>1, <3>1, <3>2
<1>12. \E S \in SUBSET Nat : mem' \in [S -> Data]
  <2>1. Datum("result", Depth, 0, 0) \in Data
    BY <1>2 DEF Datum, Data
  <2>2. {rarp + 3} \in SUBSET Nat /\ at \in [{rarp + 3} -> Data]
    BY <1>2, <2>1
  <2>3. PICK S \in SUBSET Nat : mem \in [S -> Data]
    BY DEF IInv, Typed
  <2> HIDE DEF at
  <2> QED
    BY <1>1, <2>2, <2>3, StoredTyped
<1>13. \A d \in 1 .. Depth' : frames'[d].assigned \subseteq 0 .. Words[frames'[d].fn] - 1
  <2>1. caller.assigned \subseteq 0 .. Words[caller.fn] - 1
    BY <1>2 DEF IInv, Typed
  <2> HIDE DEF frame, caller
  <2>2. ASSUME NEW d \in 1 .. Depth', d # Depth - 1
        PROVE  frames'[d].assigned \subseteq 0 .. Words[frames'[d].fn] - 1
    <3>1. d \in 1 .. Depth - 2 /\ d \in 1 .. Depth
      BY <1>2, <1>11, <2>2
    <3>2. frames'[d] = frames[d]
      BY <1>11, <3>1
    <3> QED
      BY <3>1, <3>2 DEF IInv, Typed
  <2> QED
    BY <1>8, <1>11, <2>1, <2>2
<1>14. Typed'
  <2> HIDE DEF frame, caller
  <2>1. Depth' \in 1 .. MaxDepth
    <3>1. Depth \in 1 .. MaxDepth /\ MaxDepth \in Nat
      BY FramesAssumption DEF IInv, Typed
    <3> QED
      BY <1>1, <1>2, <1>11, <3>1
  <2> QED
    BY <1>1, <1>3, <1>4, <1>11, <1>12, <1>13, <2>1 DEF IInv, Typed
<1>15. \A a : At(mem', a) = IF a = rarp + 3 THEN Datum("result", Depth, 0, 0) ELSE At(mem, a)
  <2>1. mem' = Stored(at) /\ DOMAIN at = {rarp + 3} /\ at[rarp + 3] = Datum("result", Depth, 0, 0)
    BY <1>1
  <2> HIDE DEF at
  <2> QED
    BY <2>1, StoredAt
<1>16. Top' = frame
  BY <1>11 DEF Top
<1>17. \A l \in 1 .. level : /\ pending[l].callee = caller.pending[l].callee
                             /\ pending[l].saved = caller.pending[l].saved
                             /\ pending[l].args = caller.pending[l].args
                             /\ l < level => pending[l].returned = caller.pending[l].returned
  <2> HIDE DEF pending, call, caller
  <2> QED
    BY <1>3, <1>6, <1>7
<1>18. pending # <<>> /\ pending[level].returned
  <2> HIDE DEF pending, call, caller
  <2> QED
    BY <1>3, <1>5, <1>7
<1> HIDE DEF frame, pending, call
<1> QED
  <2>1. /\ Top'.fn = caller.fn /\ Top'.base = caller.base /\ Top'.sp = caller.sp
        /\ Top'.held = caller.held /\ Top'.assigned = caller.assigned /\ Top'.next = caller.next
        /\ Top'.pending = pending /\ Len(pending) = level
    BY <1>7, <1>8, <1>16
  <2>2. Top' = frames'[Depth - 1] /\ Depth' = Depth - 1
        /\ \A d \in 1 .. Depth - 2 : frames'[d] = frames[d]
    BY <1>11, <1>16
  <2> HIDE DEF caller, level
  <2>3. \A l \in 1 .. level :
           /\ Top'.pending[l].callee = caller.pending[l].callee
           /\ Top'.pending[l].saved = caller.pending[l].saved
           /\ Top'.pending[l].args = caller.pending[l].args
           /\ l < level => Top'.pending[l].returned = caller.pending[l].returned
    BY <1>17, <2>1
  <2>4. Top'.pending # <<>> /\ Top'.pending[level].returned
    BY <1>18, <2>1
  <2> QED
    BY <1>1, <1>4, <1>14, <1>15, <2>1, <2>2, <2>3, <2>4 DEF caller, level

LEMMA ReturnKeeps ==
    ASSUME IInv, Return
    PROVE  IInv'
<1>1. /\ Depth \in Nat /\ Depth > 1 /\ Depth \in 1 .. Depth /\ Depth - 1 \in 1 .. Depth
      /\ Top = frames[Depth] /\ rarp = frames[Depth].base /\ rarp \in Nat
      /\ rarp = frames[Depth - 1].sp
  <2>1. /\ Depth \in Nat /\ Depth > 1 /\ Top = frames[Depth] /\ rarp = Top.base /\ rarp \in Nat
    BY ReturnFacts, TopFacts DEF IInv, Typed, Linked
  <2> QED
    BY <2>1 DEF IInv, Ordered
<1>2. Depth' = Depth - 1
  BY ReturnFacts
<1>3. \A d \in 1 .. Depth' : /\ frames'[d].fn = frames[d].fn /\ frames'[d].base = frames[d].base
                             /\ frames'[d].sp = frames[d].sp
                             /\ frames'[d].assigned = frames[d].assigned
                             /\ frames'[d].pending # <<>> <=> frames[d].pending # <<>>
  <2> SUFFICES ASSUME NEW d \in 1 .. Depth'
               PROVE  /\ frames'[d].fn = frames[d].fn /\ frames'[d].base = frames[d].base
                      /\ frames'[d].sp = frames[d].sp
                      /\ frames'[d].assigned = frames[d].assigned
                      /\ frames'[d].pending # <<>> <=> frames[d].pending # <<>>
    OBVIOUS
  <2>1. CASE d = Depth - 1
    <3>1. frames[Depth - 1].pending # <<>>
      BY <1>1 DEF IInv, Waiting
    <3> QED
      BY <2>1, <3>1, ReturnFacts
  <2>2. CASE d # Depth - 1
    <3>1. d \in 1 .. Depth - 2
      BY <1>1, <1>2, <2>2
    <3> QED
      BY <3>1, ReturnFacts
  <2> QED
    BY <2>1, <2>2
<1>4. \A d \in 1 .. Depth' : /\ d \in 1 .. Depth /\ frames[d].sp \in Nat /\ frames[d].base \in Nat
                             /\ frames[d].sp <= rarp /\ frames[d].base <= frames[d].sp
  <2> SUFFICES ASSUME NEW d \in 1 .. Depth'
               PROVE  /\ d \in 1 .. Depth /\ frames[d].sp \in Nat /\ frames[d].base \in Nat
                      /\ frames[d].sp <= rarp /\ frames[d].base <= frames[d].sp
    OBVIOUS
  <2>1. d \in 1 .. Depth /\ d < Depth
    BY <1>1, <1>2
  <2> QED
    BY <1>1, <2>1, FrameFacts, FrameRoom, SpBelow DEF IInv
<1>5. \A a \in Nat : a < rarp + 3 => At(mem', a) = At(mem, a)
  BY <1>1, ReturnFacts
<1>6. Ordered'
  <2>1. 1 \in 1 .. Depth'
    BY <1>1, <1>2
  <2>2. \A d \in 2 .. Depth' : d \in 2 .. Depth /\ d - 1 \in 1 .. Depth' /\ d \in 1 .. Depth'
    BY <1>1, <1>2
  <2> QED
    BY SMTT(30), <1>3, <1>4, <2>1, <2>2 DEF IInv, Ordered
<1>7. Waiting'
  <2>1. \A d \in 2 .. Depth' : d \in 2 .. Depth /\ d - 1 \in 1 .. Depth'
    BY <1>1, <1>2
  <2> QED
    BY <1>3, <1>4, <2>1 DEF IInv, Waiting
<1>8. Linked'
  <2>1. rarp' = Top'.base /\ rsp' = Top'.sp
    BY ReturnFacts
  <2>2. ASSUME NEW d \in 2 .. Depth' PROVE At(mem', frames'[d].base) = Datum("return", d - 1, 0, 0)
    <3>1. d \in 2 .. Depth /\ d \in 1 .. Depth'
      BY <1>1, <1>2
    <3>2. frames[d].base < rarp + 3
      BY <1>1, <1>4, <3>1
    <3> QED
      BY <1>3, <1>4, <1>5, <3>1, <3>2 DEF IInv, Linked
  <2>3. ASSUME NEW d \in 1 .. Depth', frames'[d].pending # <<>>
        PROVE  /\ At(mem', frames'[d].sp + 1).i = frames'[d].sp
               /\ At(mem', frames'[d].sp + 2).i = frames'[d].base
    <3>1. frames[d].pending # <<>> /\ d \in 1 .. Depth
      BY <1>3, <1>4, <2>3
    <3>2. At(mem', frames[d].sp + 1) = At(mem, frames[d].sp + 1)
          /\ At(mem', frames[d].sp + 2) = At(mem, frames[d].sp + 2)
      BY <1>1, <1>4, <1>5
    <3> QED
      BY <1>3, <3>1, <3>2 DEF IInv, Linked
  <2> QED
    BY <2>1, <2>2, <2>3 DEF Linked
<1>9. LocalsKept'
  <2> SUFFICES ASSUME NEW d \in 1 .. Depth', NEW i \in frames'[d].assigned
               PROVE  At(mem', LocalAddress(frames'[d], i)) = Datum("local", d, 0, i)
    BY DEF LocalsKept
  <2>1. LocalAddress(frames'[d], i) = LocalAddress(frames[d], i) /\ i \in frames[d].assigned
        /\ d \in 1 .. Depth
    BY <1>3, <1>4 DEF LocalAddress
  <2>2. i \in 0 .. Words[frames[d].fn] - 1
    BY <2>1 DEF IInv, Typed
  <2>3. LocalAddress(frames[d], i) \in Nat /\ LocalAddress(frames[d], i) < rarp + 3
    BY <1>1, <1>4, <2>1, <2>2, LocalPlace DEF IInv
  <2> QED
    BY <1>5, <2>1, <2>3 DEF IInv, LocalsKept
<1> QED
  BY <1>6, <1>7, <1>8, <1>9, ReturnFacts DEF IInv

\* The registers are read back, and the call is no longer pending.
LEMMA RestoreFacts ==
    ASSUME IInv, Restore
    PROVE  /\ SameStack /\ InCall /\ ThisCall.returned
           /\ Top'.assigned = Top.assigned /\ Top'.next = ThisCall.saved + 2
           /\ Top'.held = IF Level > 1 THEN Top.held
                          ELSE [r \in DOMAIN Top.held \cup {ThisCall.saved + 1} |->
                                  IF r = ThisCall.saved + 1 THEN Datum("result", Depth + 1, 0, 0)
                                  ELSE Top.held[r]]
           /\ Top'.pending = SubSeq(Top.pending, 1, Level - 1)
           /\ Len(Top'.pending) = Level - 1
           /\ \A l \in 1 .. Level - 1 : Top'.pending[l] = Top.pending[l]
           /\ mem' = mem
           /\ \A r \in Registers :
                 regs'[Top.fn][r] = IF r < ThisCall.saved THEN At(mem, SaveAddress(Top, r))
                                    ELSE IF r = ThisCall.saved + 1 THEN At(mem, rsp + 3)
                                    ELSE regs[Top.fn][r]
<1> DEFINE n == ThisCall.saved
           result == Datum("result", Depth + 1, 0, 0)
           held == IF Level > 1 THEN Top.held
                   ELSE [r \in DOMAIN Top.held \cup {n + 1} |-> IF r = n + 1 THEN result ELSE Top.held[r]]
           pending == SubSeq(Top.pending, 1, Level - 1)
           frame == [Top EXCEPT !.next = n + 2, !.held = held, !.pending = pending]
           bank == [r \in Registers |-> IF r < n THEN At(mem, SaveAddress(Top, r))
                                        ELSE IF r = n + 1 THEN At(mem, rsp + 3) ELSE regs[Top.fn][r]]
<1>1. InCall /\ ThisCall.returned /\ mem' = mem /\ rsp' = rsp /\ rarp' = rarp
  BY DEF Restore
<1>2. Top \in Frame /\ Top.fn \in Funcs /\ Top.held \in Held /\ Depth \in Nat
      /\ Top = frames[Depth] /\ Depth \in 1 .. Depth
  BY TopFacts DEF IInv, Frame
<1>3. /\ Level \in 1 .. Len(Top.pending) /\ Level = Len(Top.pending) /\ Level \in Nat
      /\ ThisCall \in Calling /\ Top.pending \in Seq(Calling)
  BY <1>1, TopFacts DEF IInv, Frame
<1>4. n \in 0 .. MaxRegs /\ n \in Nat /\ MaxRegs \in Nat
  BY <1>3, FramesAssumption DEF Calling
<1>5. regs' = [regs EXCEPT ![Top.fn] = bank]
  BY <1>2, LoadIsAt DEF Restore, IInv, Typed
<1>6. SetTop(frame)
  <2>1. [Top EXCEPT !.next = n + 2,
                    !.held = IF Level > 1 THEN @
                             ELSE [r \in DOMAIN @ \cup {n + 1} |->
                                     IF r = n + 1 THEN result ELSE @[r]],
                    !.pending = SubSeq(@, 1, Level - 1)] = frame
    BY <1>2 DEF Frame
  <2> HIDE DEF frame
  <2> QED
    BY <2>1 DEF Restore
<1>7. n + 1 \in Registers /\ n + 2 \in 0 .. MaxRegs + 2
  BY <1>4 DEF Registers
<1>8. held \in Held
  <2>1. result \in Data
    BY <1>2 DEF Datum, Data
  <2> HIDE DEF result, n
  <2> QED
    BY <1>2, <1>7, <2>1, HeldFacts
<1>9. /\ pending \in Seq(Calling) /\ Len(pending) = Level - 1
      /\ \A l \in 1 .. Level - 1 : pending[l] = Top.pending[l]
  BY <1>3
<1>10. /\ frame \in Frame /\ frame.fn = Top.fn /\ frame.base = Top.base /\ frame.sp = Top.sp
       /\ frame.assigned = Top.assigned /\ frame.held = held /\ frame.next = n + 2
       /\ frame.pending = pending
  <2> HIDE DEF held, pending, n
  <2> QED
    BY <1>2, <1>7, <1>8, <1>9 DEF Frame
<1>11. frame.assigned \subseteq 0 .. Words[Top.fn] - 1
  BY <1>2, <1>10 DEF IInv, Typed
<1>12. bank \in [Registers -> Data]
  <2>1. \A a : At(mem, a) \in Data
    BY AtTyped DEF IInv
  <2>2. \A r \in Registers : regs[Top.fn][r] \in Data
    BY <1>2 DEF IInv, Typed
  <2> HIDE DEF n
  <2> QED
    BY <2>1, <2>2
<1>13. regs' \in [Funcs -> [Registers -> Data]] /\ regs'[Top.fn] = bank
  <2> HIDE DEF bank
  <2> QED
    BY <1>2, <1>5, <1>12 DEF IInv, Typed
<1>14. SameStack /\ Top' = frame
  <2> HIDE DEF frame
  <2> QED
    BY <1>1, <1>6, <1>10, <1>11, <1>13, SetTopStep DEF IInv, Typed
<1>15. \A r \in Registers : regs'[Top.fn][r] =
          IF r < n THEN At(mem, SaveAddress(Top, r))
          ELSE IF r = n + 1 THEN At(mem, rsp + 3) ELSE regs[Top.fn][r]
  BY <1>13
<1> HIDE DEF frame, bank
<1> QED
  BY <1>1, <1>9, <1>10, <1>14, <1>15

LEMMA RestoreKeeps ==
    ASSUME IInv, Restore
    PROVE  IInv'
<1>1. /\ Top = frames[Depth] /\ Depth \in 1 .. Depth /\ Top.pending # <<>>
      /\ rsp = Top.sp /\ rarp = Top.base
  BY RestoreFacts, TopFacts DEF IInv, Linked
<1>2. Depth < MaxDepth /\ At(mem, rsp + 1).i = rsp /\ At(mem, rsp + 2).i = rarp
  BY <1>1 DEF IInv, Waiting, Linked
<1> QED
  BY <1>2, RestoreFacts, AboveKeeps

----------------------------------------------------------------------------
(* The invariant, and what it gives. *)

LEMMA InitIInv ==
    ASSUME Init
    PROVE  IInv
<1> DEFINE frame == NewFrame(Main, 256, 256 + Words[Main])
<1>1. Words[Main] \in Nat /\ MaxDepth \in Nat \ {0} /\ MaxRegs \in Nat /\ Main \in Funcs
  BY FramesAssumption
<1>2. frame \in Frame /\ frame.fn = Main /\ frame.base = 256 /\ frame.sp = 256 + Words[Main]
      /\ frame.pending = <<>> /\ frame.assigned = {}
  <2>1. 0 \in 0 .. MaxRegs + 2 /\ <<>> \in Seq(Calling) /\ {} \in SUBSET Nat
    BY <1>1
  <2> QED
    BY <1>1, <2>1, HeldFacts DEF Frame, NewFrame
<1>3. /\ frames = <<frame>> /\ mem = <<>> /\ rarp = 256 /\ rsp = 256 + Words[Main]
      /\ regs = [f \in Funcs |-> [r \in Registers |-> Junk]]
  BY DEF Init
<1> HIDE DEF frame
<1>4. frames \in Seq(Frame) /\ Depth = 1 /\ frames[1] = frame /\ Top = frame
  BY <1>2, <1>3 DEF Depth, Top
<1>5. mem \in [{} -> Data] /\ {} \in SUBSET Nat
  BY <1>3
<1>6. regs \in [Funcs -> [Registers -> Data]]
  BY <1>3 DEF Junk, Datum, Data
<1>7. Typed
  <2>1. \E S \in SUBSET Nat : mem \in [S -> Data]
    BY <1>5
  <2>2. \A d \in 1 .. Depth : frames[d].assigned \subseteq 0 .. Words[frames[d].fn] - 1
    BY <1>2, <1>4
  <2>3. Depth \in 1 .. MaxDepth
    BY <1>1, <1>4
  <2>4. rsp \in Nat /\ rarp \in Nat
    BY <1>1, <1>3
  <2> QED
    BY <1>4, <1>6, <2>1, <2>2, <2>3, <2>4 DEF Typed
<1>8. Ordered /\ Waiting
  BY <1>1, <1>2, <1>4 DEF Ordered, Waiting
<1>9. Linked /\ LocalsKept
  BY <1>2, <1>3, <1>4 DEF Linked, LocalsKept
<1> QED
  BY <1>7, <1>8, <1>9 DEF IInv

LEMMA StutterKeeps ==
    ASSUME IInv, UNCHANGED vars
    PROVE  IInv'
  BY DEF vars, IInv, Typed, Ordered, Waiting, Linked, LocalsKept, Depth, Top, LocalAddress

LEMMA NextIInv ==
    ASSUME IInv, [Next]_vars
    PROVE  IInv'
<1>1. ASSUME NEW n \in 0 .. MaxRegs + 2, StoreParam(n) PROVE IInv'
  BY <1>1, StoreParamKeeps
<1> QED
  BY <1>1, ComputeKeeps, StatementKeeps, AssignLocalKeeps, BeginCallKeeps, JumpKeeps, ReturnKeeps,
     RestoreKeeps, StutterKeeps DEF Next

\* The machine's types, whatever the program of calls.
THEOREM MachineTyped == Spec => []TypeOK
<1>1. IInv => TypeOK
  <2> SUFFICES ASSUME IInv PROVE TypeOK
    OBVIOUS
  <2>1. DOMAIN mem \subseteq Nat /\ \A a \in DOMAIN mem : mem[a] \in Data
    BY DEF IInv, Typed
  <2>2. ASSUME NEW d \in 1 .. Depth
        PROVE  /\ frames[d].fn \in Funcs /\ frames[d].base \in Nat /\ frames[d].sp \in Nat
               /\ frames[d].next \in 0 .. MaxRegs + 2 /\ DOMAIN frames[d].held \subseteq Registers
    <3>1. frames[d] \in Frame
      BY FrameFacts DEF IInv
    <3> QED
      BY <3>1, HeldFacts DEF Frame
  <2> QED
    BY <2>1, <2>2 DEF TypeOK, IInv, Typed
<1> QED
  BY <1>1, InitIInv, NextIInv, PTL DEF Spec

\* For every call graph, a return finds the rsp, the rarp and the return
\* address of its caller, however many calls were begun, nested and finished
\* since: call_sequence and return_sequence agree on the header of a frame.
THEOREM ReturnsFindTheirCaller == Spec => []LinksHold
<1>1. IInv => LinksHold
  <2> SUFFICES ASSUME IInv PROVE LinksHold
    OBVIOUS
  <2>1. rarp = Top.base /\ rsp = Top.sp
    BY DEF IInv, Linked
  <2>2. ASSUME NEW d \in 2 .. Depth
        PROVE  /\ frames[d].base = frames[d - 1].sp
               /\ Load(frames[d].base) = Datum("return", d - 1, 0, 0)
               /\ Load(frames[d].base + 1).i = frames[d - 1].sp
               /\ Load(frames[d].base + 2).i = frames[d - 1].base
    <3>1. d - 1 \in 1 .. Depth /\ frames[d - 1].pending # <<>> /\ frames[d].base = frames[d - 1].sp
      <4>1. Depth \in Nat /\ d - 1 \in 1 .. Depth
        BY TopFacts DEF IInv
      <4> QED
        BY <4>1 DEF IInv, Waiting, Ordered
    <3> QED
      BY <3>1, LoadIsAt DEF IInv, Linked
  <2> QED
    BY <2>1, <2>2 DEF LinksHold
<1> QED
  BY <1>1, InitIInv, NextIInv, PTL DEF Spec

\* For every call graph and all sizes, nothing that a function, its callees
\* and their callees store lands on a local variable of a frame in progress.
THEOREM LocalsSurviveCalls == Spec => []LocalsHold
<1>1. IInv => LocalsHold
  BY LoadIsAt DEF IInv, LocalsKept, LocalsHold
<1> QED
  BY <1>1, InitIInv, NextIInv, PTL DEF Spec

----------------------------------------------------------------------------
(* The registers. *)

\* What the layout needs: call_sequence puts the registers of the caller after
\* four times the words of its own locals, and call_epilogue reserves four
\* times those of the callee, so that along a call the frames may not shrink,
\* nor grow more than fourfold.
FramesFit ==
    \A f, g \in Funcs : <<f, g>> \in Calls => Words[f] <= Words[g] /\ Words[g] <= 4 * Words[f]

\* Every call of a frame saves the registers the statement still needs; only
\* the innermost one may have returned.
CallsCover(frame) ==
    /\ \A r \in DOMAIN frame.held : r < frame.next
    /\ \A l \in 1 .. Len(frame.pending) :
         /\ <<frame.fn, frame.pending[l].callee>> \in Calls
         /\ l < Len(frame.pending) => ~frame.pending[l].returned
         /\ \A r \in DOMAIN frame.held : r < frame.pending[l].saved

SavePlace(frame, r) == frame.sp + RA_SIZE + 4 * Words[frame.fn] + r

\* A memory in which the saved registers of a frame that waits are intact.
SavedIn(m, frame) ==
    frame.pending # <<>> => \A r \in DOMAIN frame.held : At(m, SavePlace(frame, r)) = frame.held[r]

\* A frame is the one its caller's innermost call reserved.
Reserved ==
    \A d \in 2 .. Depth : \A l \in 1 .. Len(frames[d - 1].pending) :
        l = Len(frames[d - 1].pending) =>
            /\ frames[d - 1].pending[l].callee = frames[d].fn
            /\ frames[d].sp = frames[d].base + 4 * Words[frames[d].fn] + RA_SIZE
                                + frames[d - 1].pending[l].saved + 2

ResultStored ==
    (InCall /\ ThisCall.returned) => At(mem, rsp + 3) = Datum("result", Depth + 1, 0, 0)

RInv ==
    /\ \A d \in 1 .. Depth : CallsCover(frames[d]) /\ SavedIn(mem, frames[d])
    /\ Reserved /\ ResultStored /\ RegistersHold

\* Where the registers of a frame are saved, the newest one stores nothing.
LEMMA SavesAreAway ==
    ASSUME FramesFit, IInv, RInv, NEW d \in 1 .. Depth, d < Depth, NEW r \in DOMAIN frames[d].held
    PROVE  /\ SavePlace(frames[d], r) \in Nat /\ SavePlace(frames[d], r) < rsp
           /\ SavePlace(frames[d], r) # rarp + 3
           /\ \A i \in 0 .. Words[Top.fn] - 1 : SavePlace(frames[d], r) # LocalAddress(Top, i)
<1>1. /\ Depth \in Nat /\ Depth \in 1 .. Depth /\ Top = frames[Depth] /\ d + 1 \in 2 .. Depth
      /\ d + 1 \in 1 .. Depth /\ (d + 1) - 1 = d /\ Depth > 1
  BY TopFacts DEF IInv
<1>2. rarp = frames[Depth].base /\ rsp = frames[Depth].sp /\ rsp \in Nat /\ rarp \in Nat
  BY <1>1 DEF IInv, Linked, Typed
<1>3. /\ frames[d].held \in Held /\ frames[d].sp \in Nat /\ frames[d].pending \in Seq(Calling)
      /\ Words[frames[d].fn] \in Nat /\ frames[d].fn \in Funcs
      /\ frames[d + 1].base \in Nat /\ frames[d + 1].sp \in Nat
      /\ Words[frames[d + 1].fn] \in Nat /\ frames[d + 1].fn \in Funcs
  BY <1>1, FrameFacts DEF IInv
<1>4. r \in Nat
  BY SMTT(30), <1>3, HeldFacts, FramesAssumption DEF Registers
<1>5. PICK n \in Nat :
        /\ r < n /\ <<frames[d].fn, frames[d + 1].fn>> \in Calls
        /\ frames[d + 1].sp = frames[d + 1].base + 4 * Words[frames[d + 1].fn] + RA_SIZE + n + 2
  <2>1. frames[d].pending # <<>>
    BY <1>1 DEF IInv, Waiting
  <2>2. PICK l \in 1 .. Len(frames[d].pending) : l = Len(frames[d].pending)
    BY <1>3, <2>1
  <2>3. frames[d].pending[l] \in Calling
    BY <1>3
  <2>4. r < frames[d].pending[l].saved /\ <<frames[d].fn, frames[d].pending[l].callee>> \in Calls
    BY DEF RInv, CallsCover
  <2>5. /\ frames[d].pending[l].callee = frames[d + 1].fn
        /\ frames[d + 1].sp = frames[d + 1].base + 4 * Words[frames[d + 1].fn] + RA_SIZE
                                + frames[d].pending[l].saved + 2
    BY <1>1, <2>2 DEF RInv, Reserved
  <2>6. frames[d].pending[l].saved \in Nat
    BY <2>3, FramesAssumption DEF Calling
  <2> QED
    BY <2>4, <2>5, <2>6
<1>6. Words[frames[d].fn] <= Words[frames[d + 1].fn]
      /\ Words[frames[d + 1].fn] <= 4 * Words[frames[d].fn]
  BY <1>3, <1>5 DEF FramesFit
<1>7. frames[d + 1].base = frames[d].sp
  BY <1>1 DEF IInv, Ordered
<1>8. /\ SavePlace(frames[d], r) \in Nat
      /\ SavePlace(frames[d], r) < frames[d + 1].sp
      /\ SavePlace(frames[d], r) >= frames[d + 1].base + RA_SIZE + Words[frames[d + 1].fn]
  <2>1. \A sp, w, v, top \in Nat :
          (w <= v /\ v <= 4 * w /\ top = sp + 4 * v + RA_SIZE + n + 2) =>
             /\ sp + RA_SIZE + 4 * w + r \in Nat
             /\ sp + RA_SIZE + 4 * w + r < top /\ sp + RA_SIZE + 4 * w + r >= sp + RA_SIZE + v
    BY <1>4, <1>5 DEF RA_SIZE
  <2> QED
    BY <1>3, <1>5, <1>6, <1>7, <2>1 DEF SavePlace
<1>9. CASE d + 1 = Depth
  <2>1. /\ SavePlace(frames[d], r) < rsp
        /\ SavePlace(frames[d], r) >= rarp + RA_SIZE + Words[Top.fn] /\ Words[Top.fn] \in Nat
    BY <1>1, <1>2, <1>3, <1>8, <1>9
  <2>2. \A i \in 0 .. Words[Top.fn] - 1 : LocalAddress(Top, i) = rarp + RA_SIZE + i
    BY <1>1, <1>2, LocalPlace DEF IInv
  <2> QED
    BY <1>2, <1>8, <2>1, <2>2 DEF RA_SIZE
<1>10. CASE d + 1 # Depth
  <2>1. frames[d + 1].sp <= rarp /\ rarp <= rsp
    BY <1>1, <1>2, <1>10, SpBelow, FrameRoom DEF IInv
  <2>2. \A i \in 0 .. Words[Top.fn] - 1 : LocalAddress(Top, i) = rarp + RA_SIZE + i
    BY <1>1, <1>2, LocalPlace DEF IInv
  <2> QED
    <3>1. SavePlace(frames[d], r) < rarp
      BY <1>2, <1>3, <1>8, <2>1
    <3> QED
      BY <1>2, <1>8, <2>1, <2>2, <3>1 DEF RA_SIZE
<1> QED
  BY <1>9, <1>10

\* A step of the running function must only see to its own frame.
LEMMA SameStackRegisters ==
    ASSUME FramesFit, IInv, RInv, SameStack,
           \A a \in Nat : (a < rsp /\ \A i \in 0 .. Words[Top.fn] - 1 : a # LocalAddress(Top, i)) =>
                             At(mem', a) = At(mem, a),
           CallsCover(Top'), SavedIn(mem', Top'), ResultStored', RegistersHold'
    PROVE  RInv'
<1>1. /\ Depth \in Nat /\ Depth \in 1 .. Depth /\ Top = frames[Depth] /\ Top' = frames'[Depth]
      /\ Depth' = Depth
  BY TopFacts DEF IInv, SameStack, Top
<1>2. ASSUME NEW d \in 1 .. Depth
      PROVE  CallsCover(frames'[d]) /\ SavedIn(mem', frames'[d])
  <2>1. CASE d = Depth
    BY <1>1, <2>1
  <2>2. CASE d # Depth
    <3>1. d \in 1 .. Depth - 1 /\ d < Depth
      BY <1>1, <2>2
    <3>2. frames'[d] = frames[d]
      BY <3>1 DEF SameStack
    <3>3. CallsCover(frames[d]) /\ SavedIn(mem, frames[d])
      BY DEF RInv
    <3>4. \A r \in DOMAIN frames[d].held :
             At(mem', SavePlace(frames[d], r)) = At(mem, SavePlace(frames[d], r))
      BY <3>1, SavesAreAway
    <3> QED
      BY <3>2, <3>3, <3>4 DEF SavedIn
  <2> QED
    BY <2>1, <2>2
<1>3. Reserved'
  <2>1. \A d \in 1 .. Depth : /\ frames'[d].fn = frames[d].fn
                              /\ frames'[d].base = frames[d].base
                              /\ frames'[d].sp = frames[d].sp
    BY <1>1 DEF SameStack
  <2>2. \A d \in 2 .. Depth : d \in 1 .. Depth /\ d - 1 \in 1 .. Depth - 1
    BY <1>1
  <2>3. \A d \in 2 .. Depth : frames'[d - 1] = frames[d - 1]
    BY <2>2 DEF SameStack
  <2> QED
    BY SMTT(30), <1>1, <2>1, <2>2, <2>3 DEF RInv, Reserved
<1> QED
  BY <1>1, <1>2, <1>3 DEF RInv

\* What RInv says of the frame that runs.
LEMMA TopRegisters ==
    ASSUME IInv, RInv
    PROVE  /\ CallsCover(Top) /\ SavedIn(mem, Top) /\ Top.fn \in Funcs
           /\ \A r : SavePlace(Top, r) = SaveAddress(Top, r)
           /\ Words[Top.fn] \in Nat /\ rsp \in Nat
           /\ \A r \in DOMAIN Top.held : r \in Registers /\ r \in Nat
<1>1. Depth \in 1 .. Depth /\ Top = frames[Depth] /\ rsp = Top.sp
  BY TopFacts DEF IInv, Linked
<1>2. Top.held \in Held /\ Top.fn \in Funcs /\ Words[Top.fn] \in Nat /\ rsp \in Nat
  BY <1>1, FrameFacts DEF IInv, Typed
<1>3. \A r \in DOMAIN Top.held : r \in Registers /\ r \in Nat
  BY <1>2, HeldFacts, FramesAssumption DEF Registers
<1> QED
  BY <1>1, <1>2, <1>3 DEF RInv, SavePlace, SaveAddress

LEMMA ComputeRegisters ==
    ASSUME FramesFit, IInv, RInv, Compute
    PROVE  RInv'
<1> DEFINE datum == Datum("value", Depth, 0, Top.next)
<1>1. /\ SameStack /\ ~InCall /\ mem' = mem /\ Top'.pending = <<>> /\ Top'.next = Top.next + 1
      /\ Top.next \in Registers /\ Top.next \in Nat /\ Top'.fn = Top.fn
      /\ DOMAIN Top'.held = DOMAIN Top.held \cup {Top.next}
      /\ \A r \in DOMAIN Top'.held : Top'.held[r] = IF r = Top.next THEN datum ELSE Top.held[r]
      /\ \A r \in Registers : regs'[Top.fn][r] = IF r = Top.next THEN datum ELSE regs[Top.fn][r]
  BY ComputeStack DEF SameStack
<1> HIDE DEF datum
<1>2. CallsCover(Top')
  <2>1. \A r \in DOMAIN Top.held : r < Top.next /\ r \in Nat
    BY TopRegisters DEF CallsCover
  <2>2. \A r \in DOMAIN Top'.held : r < Top'.next
    BY <1>1, <2>1
  <2> QED
    BY <1>1, <2>2 DEF CallsCover
<1>3. SavedIn(mem', Top')
  BY <1>1 DEF SavedIn
<1>4. \A r \in DOMAIN Top'.held : regs'[Top'.fn][r] = Top'.held[r]
  <2>1. \A r \in DOMAIN Top.held : r \in Registers /\ regs[Top.fn][r] = Top.held[r]
    BY <1>1, TopRegisters DEF RInv, RegistersHold, Building
  <2> QED
    BY <1>1, <2>1
<1>5. ResultStored'
  BY <1>1 DEF ResultStored, InCall, Level
<1> QED
  BY <1>1, <1>2, <1>3, <1>4, <1>5, SameStackRegisters DEF RegistersHold

\* A statement needs no register of the one before.
LEMMA StatementRegisters ==
    ASSUME FramesFit, IInv, RInv, NEW n \in 0 .. MaxStart, Statement(n)
    PROVE  RInv'
<1>1. SameStack /\ mem' = mem /\ Top'.held = <<>> /\ Top'.pending = <<>>
  BY StatementStack
<1>2. CallsCover(Top') /\ SavedIn(mem', Top') /\ ResultStored' /\ RegistersHold'
  BY <1>1 DEF CallsCover, SavedIn, ResultStored, RegistersHold, InCall, Level
<1> QED
  BY <1>1, <1>2, SameStackRegisters

LEMMA AssignLocalRegisters ==
    ASSUME FramesFit, IInv, RInv,
           NEW i \in 0 .. Words[Top.fn] - 1, NEW n \in 0 .. MaxStart, AssignLocal(i, n)
    PROVE  RInv'
<1>1. /\ SameStack /\ Top'.held = <<>> /\ Top'.pending = <<>>
      /\ \A a : a # LocalAddress(Top, i) => At(mem', a) = At(mem, a)
  BY AssignLocalStack
<1>2. CallsCover(Top') /\ SavedIn(mem', Top') /\ ResultStored' /\ RegistersHold'
  BY <1>1 DEF CallsCover, SavedIn, ResultStored, RegistersHold, InCall, Level
<1> QED
  BY <1>1, <1>2, SameStackRegisters

\* A call saves the registers needed so far, which hold what they should.
LEMMA BeginCallRegisters ==
    ASSUME FramesFit, IInv, RInv, NEW g \in Funcs, NEW n \in 0 .. MaxRegs, BeginCall(g, n)
    PROVE  RInv'
<1> DEFINE call == NewCall(g, n)
<1>1. /\ SameStack /\ Building /\ <<Top.fn, g>> \in Calls /\ Top.next + Params[g] <= n
      /\ Top'.pending = Append(Top.pending, call)
      /\ Top'.held = Top.held /\ Top'.next = Top.next /\ regs' = regs
  BY BeginCallStack DEF Fits
<1>2. call.callee = g /\ call.saved = n /\ ~call.returned
  BY DEF NewCall
<1> HIDE DEF call
<1>3. /\ Top.pending \in Seq(Calling) /\ Top.fn \in Funcs /\ Top.next \in Nat /\ n \in Nat
      /\ Params[g] \in Nat /\ Level = Len(Top.pending)
  BY TopFacts, FramesAssumption DEF IInv, Frame
<1>4. Len(Top'.pending) = Level + 1 /\ Top'.pending[Level + 1] = call /\ Level \in Nat
      /\ \A l \in 1 .. Level : Top'.pending[l] = Top.pending[l]
  <2>1. call \in Calling
    BY BeginCallStack DEF call
  <2> QED
    BY <1>1, <1>3, <2>1
<1>5. \A r \in DOMAIN Top.held : r \in Nat /\ r < Top.next /\ r < n /\ r \in 0 .. n - 1
  <2>1. \A r \in DOMAIN Top.held : r \in Nat /\ r < Top.next
    BY TopRegisters DEF CallsCover
  <2> QED
    BY <1>1, <1>3, <2>1
<1>6. CallsCover(Top')
  <2>1. \A r \in DOMAIN Top'.held : r < Top'.next
    BY <1>1, <1>5
  <2>2. ASSUME NEW l \in 1 .. Level
        PROVE  /\ <<Top.fn, Top'.pending[l].callee>> \in Calls /\ ~Top'.pending[l].returned
               /\ \A r \in DOMAIN Top.held : r < Top'.pending[l].saved
    <3>1. /\ <<Top.fn, Top.pending[l].callee>> \in Calls
          /\ l < Level => ~Top.pending[l].returned
          /\ \A r \in DOMAIN Top.held : r < Top.pending[l].saved
      BY <1>3, TopRegisters DEF CallsCover
    <3>2. l = Level => ~Top.pending[l].returned
      BY <1>1, <1>4 DEF Building, InCall, ThisCall
    <3>3. Top'.pending[l] = Top.pending[l] /\ (l < Level \/ l = Level)
      BY <1>4
    <3>4. ~Top.pending[l].returned
      BY <3>1, <3>2, <3>3
    <3> QED
      BY <3>1, <3>3, <3>4
  <2>3. Top'.fn = Top.fn
    BY <1>1 DEF SameStack
  <2>4. \A l \in 1 .. Level + 1 : l \in 1 .. Level \/ l = Level + 1
    BY <1>4
  <2> QED
    BY <1>1, <1>2, <1>4, <1>5, <2>1, <2>2, <2>3, <2>4 DEF CallsCover
<1>7. SavedIn(mem', Top')
  <2> SUFFICES ASSUME NEW r \in DOMAIN Top.held
               PROVE  At(mem', SavePlace(Top', r)) = Top.held[r]
    BY <1>1 DEF SavedIn
  <2>1. SavePlace(Top', r) = SaveAddress(Top, r)
    <3>1. Top'.fn = Top.fn /\ Top'.sp = Top.sp /\ rsp = Top.sp
      BY <1>1 DEF SameStack, IInv, Linked
    <3> QED
      BY <3>1 DEF SavePlace, SaveAddress
  <2>2. At(mem', SaveAddress(Top, r)) = regs[Top.fn][r]
    BY <1>5, BeginCallStores DEF IInv
  <2> QED
    BY <1>1, <2>1, <2>2 DEF RInv, RegistersHold
<1>8. ResultStored'
  <2>1. Level' = Level + 1
    BY <1>4 DEF Level
  <2> QED
    BY <1>2, <1>4, <2>1 DEF ResultStored, ThisCall
<1>9. RegistersHold'
  <2>1. \A r \in DOMAIN Top.held : regs[Top.fn][r] = Top.held[r]
    BY <1>1 DEF RInv, RegistersHold
  <2>2. Top'.fn = Top.fn
    BY <1>1 DEF SameStack
  <2> QED
    BY <1>1, <2>1, <2>2 DEF RegistersHold
<1>10. \A a \in Nat : a < rsp => At(mem', a) = At(mem, a)
  BY BeginCallStores, TopRegisters DEF IInv
<1> QED
  BY <1>1, <1>6, <1>7, <1>8, <1>9, <1>10, SameStackRegisters

\* An argument lands below the registers its caller saved, since there are no
\* more arguments than four times the words of the caller.
LEMMA StoreParamRegisters ==
    ASSUME FramesFit, IInv, RInv, NEW n \in 0 .. MaxRegs + 2, StoreParam(n)
    PROVE  RInv'
<1>1. /\ SameStack /\ InCall /\ Building /\ ThisCall.args < Params[ThisCall.callee]
      /\ n \in {Top.next, Top.next + 1} /\ Top'.held = Top.held /\ Top'.next = n
      /\ Len(Top'.pending) = Level
      /\ \A l \in 1 .. Level : /\ Top'.pending[l].callee = Top.pending[l].callee
                               /\ Top'.pending[l].saved = Top.pending[l].saved
                               /\ Top'.pending[l].returned = Top.pending[l].returned
      /\ \A r \in Registers : r < Top.next => regs'[Top.fn][r] = regs[Top.fn][r]
      /\ \A a : a # rsp + RA_SIZE + ThisCall.args => At(mem', a) = At(mem, a)
  BY StoreParamFacts
<1>2. /\ Top.next \in Nat /\ Level = Len(Top.pending) /\ Level \in 1 .. Level
      /\ ThisCall \in Calling /\ ThisCall.args \in Nat /\ ThisCall = Top.pending[Level]
      /\ Top.pending # <<>> /\ Level \in Nat /\ Top.fn \in Funcs
  BY <1>1, TopFacts DEF IInv, Frame, Calling, ThisCall
<1>3. Top'.fn = Top.fn /\ Top'.sp = Top.sp /\ rsp = Top.sp /\ rsp \in Nat
  BY <1>1, TopRegisters DEF SameStack, IInv, Linked
<1>4. \A r \in DOMAIN Top.held : r \in Nat /\ r \in Registers /\ r < Top.next /\ r < n
  <2>1. \A r \in DOMAIN Top.held : r \in Nat /\ r \in Registers /\ r < Top.next
    BY TopRegisters DEF CallsCover
  <2> QED
    BY <1>1, <1>2, <2>1
<1>5. CallsCover(Top')
  <2>1. \A l \in 1 .. Level :
           /\ <<Top.fn, Top.pending[l].callee>> \in Calls
           /\ l < Level => ~Top.pending[l].returned
           /\ \A r \in DOMAIN Top.held : r < Top.pending[l].saved
    BY <1>2, TopRegisters DEF CallsCover
  <2> QED
    BY <1>1, <1>3, <1>4, <2>1 DEF CallsCover
<1>6. ThisCall.args < 4 * Words[Top.fn] /\ Words[Top.fn] \in Nat
  <2>1. <<Top.fn, ThisCall.callee>> \in Calls /\ ThisCall.callee \in Funcs
    BY <1>2, TopRegisters DEF CallsCover, Calling
  <2>2. Words[ThisCall.callee] <= 4 * Words[Top.fn]
    BY <1>2, <2>1 DEF FramesFit
  <2>3. /\ Params[ThisCall.callee] <= Words[ThisCall.callee] /\ Params[ThisCall.callee] \in Nat
        /\ Words[ThisCall.callee] \in Nat /\ Words[Top.fn] \in Nat
    BY <1>2, <2>1, FramesAssumption
  <2>4. \A a, p, v, w \in Nat : (a < p /\ p <= v /\ v <= 4 * w) => a < 4 * w
    OBVIOUS
  <2> QED
    BY <1>1, <1>2, <2>2, <2>3, <2>4
<1>7. SavedIn(mem', Top')
  <2> SUFFICES ASSUME NEW r \in DOMAIN Top.held
               PROVE  At(mem', SavePlace(Top, r)) = Top.held[r]
    BY <1>1, <1>3 DEF SavedIn, SavePlace
  <2>1. SavePlace(Top, r) # rsp + RA_SIZE + ThisCall.args
    <3>1. SavePlace(Top, r) = rsp + RA_SIZE + 4 * Words[Top.fn] + r
      BY <1>3 DEF SavePlace
    <3>2. \A sp, w, a, q \in Nat : a < 4 * w => sp + RA_SIZE + 4 * w + q # sp + RA_SIZE + a
      BY DEF RA_SIZE
    <3>3. /\ rsp \in Nat /\ Words[Top.fn] \in Nat /\ ThisCall.args \in Nat /\ r \in Nat
          /\ ThisCall.args < 4 * Words[Top.fn]
      BY <1>2, <1>3, <1>4, <1>6
    <3> QED
      BY <3>1, <3>2, <3>3
  <2>2. At(mem, SavePlace(Top, r)) = Top.held[r]
    BY <1>2, TopRegisters DEF SavedIn
  <2> QED
    BY <1>1, <2>1, <2>2
<1>8. ResultStored'
  <2>1. Level' = Level /\ ~Top.pending[Level].returned
    BY <1>1, <1>2 DEF Level, Building
  <2> QED
    BY <1>1, <1>2, <2>1 DEF ResultStored, ThisCall
<1>9. \A r \in DOMAIN Top'.held : regs'[Top'.fn][r] = Top'.held[r]
  <2>1. \A r \in DOMAIN Top.held : regs[Top.fn][r] = Top.held[r]
    BY <1>1 DEF RInv, RegistersHold
  <2> QED
    BY <1>1, <1>3, <1>4, <2>1
<1>10. \A a \in Nat : a < rsp => At(mem', a) = At(mem, a)
  BY SMTT(30), <1>1, <1>2, <1>3 DEF RA_SIZE
<1> QED
  BY <1>1, <1>5, <1>7, <1>8, <1>9, <1>10, SameStackRegisters DEF RegistersHold

\* The return address is below every register the caller saved.
LEMMA JumpRegisters ==
    ASSUME FramesFit, IInv, RInv, Jump
    PROVE  RInv'
<1>1. /\ InCall /\ Depth' = Depth + 1
      /\ rsp' = rsp + 4 * Words[ThisCall.callee] + RA_SIZE + ThisCall.saved + 2
      /\ \A d \in 1 .. Depth : frames'[d] = frames[d]
      /\ frames'[Depth + 1] = NewFrame(ThisCall.callee, rsp, rsp')
      /\ \A a : a # rsp => At(mem', a) = At(mem, a)
  BY JumpFacts
<1>2. /\ Depth \in Nat /\ Depth \in 1 .. Depth /\ Top = frames[Depth] /\ rsp \in Nat
      /\ Level = Len(Top.pending) /\ ThisCall = Top.pending[Level]
  BY TopFacts, TopRegisters DEF IInv, ThisCall
<1>3. /\ frames'[Depth + 1].fn = ThisCall.callee /\ frames'[Depth + 1].base = rsp
      /\ frames'[Depth + 1].sp = rsp' /\ frames'[Depth + 1].pending = <<>>
      /\ frames'[Depth + 1].held = <<>> /\ Top' = frames'[Depth + 1]
  BY <1>1 DEF NewFrame, Top
<1>4. ASSUME NEW d \in 1 .. Depth, NEW r \in DOMAIN frames[d].held
      PROVE  SavePlace(frames[d], r) # rsp
  <2>1. CASE d = Depth
    <3>1. /\ SavePlace(Top, r) = rsp + RA_SIZE + 4 * Words[Top.fn] + r
          /\ r \in Nat /\ Words[Top.fn] \in Nat
      BY <1>2, <2>1, TopRegisters DEF SaveAddress
    <3>2. \A sp, w, q \in Nat : sp + RA_SIZE + 4 * w + q # sp
      BY DEF RA_SIZE
    <3> QED
      BY <1>2, <2>1, <3>1, <3>2
  <2>2. CASE d # Depth
    <3>1. d < Depth
      BY <1>2, <2>2
    <3> QED
      BY <1>2, <3>1, SavesAreAway
  <2> QED
    BY <2>1, <2>2
<1>5. ASSUME NEW d \in 1 .. Depth'
      PROVE  CallsCover(frames'[d]) /\ SavedIn(mem', frames'[d])
  <2>1. CASE d = Depth + 1
    BY <1>3, <2>1 DEF CallsCover, SavedIn
  <2>2. CASE d # Depth + 1
    <3>1. d \in 1 .. Depth
      BY <1>1, <1>2, <2>2
    <3>2. CallsCover(frames[d]) /\ SavedIn(mem, frames[d])
      BY <3>1 DEF RInv
    <3> QED
      BY <1>1, <1>4, <3>1, <3>2 DEF SavedIn
  <2> QED
    BY <2>1, <2>2
<1>6. Reserved'
  <2> SUFFICES ASSUME NEW d \in 2 .. Depth', NEW l \in 1 .. Len(frames'[d - 1].pending),
                      l = Len(frames'[d - 1].pending)
               PROVE  /\ frames'[d - 1].pending[l].callee = frames'[d].fn
                      /\ frames'[d].sp = frames'[d].base + 4 * Words[frames'[d].fn] + RA_SIZE
                                            + frames'[d - 1].pending[l].saved + 2
    BY DEF Reserved
  <2>1. CASE d = Depth + 1
    <3>1. frames'[d - 1] = Top /\ l = Level
      BY SMTT(30), <1>1, <1>2, <2>1
    <3> QED
      BY <1>1, <1>2, <1>3, <2>1, <3>1
  <2>2. CASE d # Depth + 1
    <3>1. d \in 2 .. Depth /\ d \in 1 .. Depth /\ d - 1 \in 1 .. Depth
      BY <1>1, <1>2, <2>2
    <3>2. frames'[d] = frames[d] /\ frames'[d - 1] = frames[d - 1]
      BY <1>1, <3>1
    <3>3. l \in 1 .. Len(frames[d - 1].pending) /\ l = Len(frames[d - 1].pending)
      BY <3>2
    <3>4. Reserved
      BY DEF RInv
    <3> QED
      BY <3>1, <3>2, <3>3, <3>4 DEF Reserved
  <2> QED
    BY <2>1, <2>2
<1>7. ResultStored' /\ RegistersHold'
  BY <1>3 DEF ResultStored, RegistersHold, InCall, Level
<1> QED
  BY <1>5, <1>6, <1>7 DEF RInv

\* The result of a return is below every register a waiting frame saved.
LEMMA ReturnRegisters ==
    ASSUME FramesFit, IInv, RInv, Return
    PROVE  RInv'
<1>1. /\ Depth > 1 /\ Depth' = Depth - 1 /\ rsp' = frames[Depth - 1].sp
      /\ \A d \in 1 .. Depth - 2 : frames'[d] = frames[d]
      /\ Top' = frames'[Depth - 1]
      /\ \A a : At(mem', a) = IF a = rarp + 3 THEN Datum("result", Depth, 0, 0) ELSE At(mem, a)
  BY ReturnFacts
<1>2. /\ Top'.fn = frames[Depth - 1].fn /\ Top'.base = frames[Depth - 1].base
      /\ Top'.sp = frames[Depth - 1].sp /\ Top'.held = frames[Depth - 1].held
      /\ Top'.next = frames[Depth - 1].next
      /\ Len(Top'.pending) = Len(frames[Depth - 1].pending) /\ Top'.pending # <<>>
      /\ \A l \in 1 .. Len(Top'.pending) :
            /\ Top'.pending[l].callee = frames[Depth - 1].pending[l].callee
            /\ Top'.pending[l].saved = frames[Depth - 1].pending[l].saved
            /\ l < Len(Top'.pending) =>
                 Top'.pending[l].returned = frames[Depth - 1].pending[l].returned
      /\ Top'.pending[Len(Top'.pending)].returned
  BY ReturnFacts
<1>3. /\ Depth \in Nat /\ Depth - 1 \in 1 .. Depth /\ Depth - 1 < Depth /\ Depth \in 2 .. Depth
      /\ Top = frames[Depth] /\ rarp = frames[Depth].base /\ rarp = frames[Depth - 1].sp
  <2>1. Depth \in Nat /\ Top = frames[Depth] /\ rarp = Top.base
    BY TopFacts DEF IInv, Linked
  <2>2. Depth \in 2 .. Depth /\ Depth - 1 \in 1 .. Depth /\ Depth - 1 < Depth
    BY <1>1, <2>1
  <2> QED
    BY <2>1, <2>2 DEF IInv, Ordered
<1>4. ASSUME NEW d \in 1 .. Depth - 1, NEW r \in DOMAIN frames[d].held
      PROVE  At(mem', SavePlace(frames[d], r)) = At(mem, SavePlace(frames[d], r))
  <2>1. d \in 1 .. Depth /\ d < Depth
    BY <1>3
  <2>2. SavePlace(frames[d], r) # rarp + 3
    BY <2>1, SavesAreAway
  <2> QED
    BY <1>1, <2>2
<1>5. ASSUME NEW d \in 1 .. Depth'
      PROVE  CallsCover(frames'[d]) /\ SavedIn(mem', frames'[d])
  <2>0. d \in 1 .. Depth /\ d \in 1 .. Depth - 1
    BY <1>1, <1>3
  <2>1. CallsCover(frames[d]) /\ SavedIn(mem, frames[d])
    BY <2>0 DEF RInv
  <2>2. CASE d = Depth - 1
    <3>1. CallsCover(Top')
      BY <1>2, <2>1, <2>2 DEF CallsCover
    <3>2. SavedIn(mem', Top')
      <4> SUFFICES ASSUME NEW r \in DOMAIN frames[d].held
                   PROVE  At(mem', SavePlace(frames[d], r)) = frames[d].held[r]
        BY <1>2, <2>2 DEF SavedIn, SavePlace
      <4>1. frames[d].pending # <<>>
        BY <1>3, <2>2 DEF IInv, Waiting
      <4> QED
        BY <1>4, <2>0, <2>1, <4>1 DEF SavedIn
    <3> QED
      BY <1>1, <2>2, <3>1, <3>2
  <2>3. CASE d # Depth - 1
    <3>1. frames'[d] = frames[d]
      BY <1>1, <1>3, <2>0, <2>3
    <3> QED
      BY <1>4, <2>0, <2>1, <3>1 DEF SavedIn
  <2> QED
    BY <2>2, <2>3
<1>6. Reserved'
  <2> SUFFICES ASSUME NEW d \in 2 .. Depth', NEW l \in 1 .. Len(frames'[d - 1].pending),
                      l = Len(frames'[d - 1].pending)
               PROVE  /\ frames'[d - 1].pending[l].callee = frames'[d].fn
                      /\ frames'[d].sp = frames'[d].base + 4 * Words[frames'[d].fn] + RA_SIZE
                                            + frames'[d - 1].pending[l].saved + 2
    BY DEF Reserved
  <2>1. d \in 2 .. Depth /\ d - 1 \in 1 .. Depth - 2
    BY <1>1, <1>3
  <2>2. frames'[d - 1] = frames[d - 1]
    BY <1>1, <2>1
  <2>3. frames'[d].fn = frames[d].fn /\ frames'[d].base = frames[d].base /\ frames'[d].sp = frames[d].sp
    <3>1. d = Depth - 1 \/ d \in 1 .. Depth - 2
      BY <1>1, <1>3
    <3> QED
      BY <1>1, <1>2, <3>1
  <2> QED
    BY <2>1, <2>2, <2>3 DEF RInv, Reserved
<1>7. ResultStored'
  <2>1. At(mem', rsp' + 3) = Datum("result", Depth, 0, 0) /\ Depth' + 1 = Depth
    BY <1>1, <1>3
  <2> QED
    BY <2>1 DEF ResultStored
<1>8. RegistersHold'
  <2>1. Top'.pending[Level'].returned /\ Level' = Len(Top'.pending)
    BY <1>2 DEF Level
  <2>2. InCall' /\ ThisCall' = Top'.pending[Level']
    <3>1. Top'.pending \in Seq(Calling) /\ Top'.pending # <<>>
      <4>1. Typed'
        BY ReturnFacts
      <4>2. (Top \in Frame)'
        BY <4>1, TopFacts, PTL
      <4> QED
        BY <1>2, <4>2 DEF Frame
    <3> QED
      BY <2>1, <3>1 DEF InCall, ThisCall
  <2> QED
    BY <2>1, <2>2 DEF RegistersHold, Building
<1> QED
  BY <1>5, <1>6, <1>7, <1>8 DEF RInv

\* The registers read back are those that were saved, and the one above them
\* is the result.
LEMMA RestoreRegisters ==
    ASSUME FramesFit, IInv, RInv, Restore
    PROVE  RInv'
<1> DEFINE n == ThisCall.saved
           result == Datum("result", Depth + 1, 0, 0)
<1>1. /\ SameStack /\ InCall /\ ThisCall.returned /\ mem' = mem /\ Top'.next = n + 2
      /\ Level > 1 => Top'.held = Top.held
      /\ ~(Level > 1) => /\ DOMAIN Top'.held = DOMAIN Top.held \cup {n + 1}
                         /\ \A r \in DOMAIN Top'.held :
                               Top'.held[r] = IF r = n + 1 THEN result ELSE Top.held[r]
      /\ Len(Top'.pending) = Level - 1
      /\ \A l \in 1 .. Level - 1 : Top'.pending[l] = Top.pending[l]
      /\ \A r \in Registers :
            regs'[Top.fn][r] = IF r < n THEN At(mem, SaveAddress(Top, r))
                               ELSE IF r = n + 1 THEN At(mem, rsp + 3) ELSE regs[Top.fn][r]
  BY RestoreFacts
<1>2. /\ Level \in Nat /\ Level = Len(Top.pending) /\ Level \in 1 .. Level /\ Top.pending # <<>>
      /\ ThisCall = Top.pending[Level] /\ n \in Nat /\ n + 1 \in Registers
  <2>1. ThisCall \in Calling /\ MaxRegs \in Nat
    BY <1>1, TopFacts, FramesAssumption DEF IInv
  <2>2. n \in 0 .. MaxRegs
    BY <2>1 DEF Calling
  <2>3. n \in Nat /\ n + 1 \in Registers
    BY <2>1, <2>2 DEF Registers
  <2> QED
    BY <1>1, <2>3, TopFacts DEF IInv, ThisCall
<1>3. \A r \in DOMAIN Top.held : r \in Nat /\ r \in Registers /\ r < n
  BY <1>2, TopRegisters DEF CallsCover
<1>4. \A r \in DOMAIN Top.held : At(mem, SaveAddress(Top, r)) = Top.held[r]
  BY <1>2, TopRegisters DEF SavedIn
<1>5. At(mem, rsp + 3) = result
  BY <1>1 DEF RInv, ResultStored
<1>6. \A l \in 1 .. Level - 1 :
         /\ l \in 1 .. Level /\ <<Top.fn, Top.pending[l].callee>> \in Calls
         /\ ~Top.pending[l].returned
         /\ \A r \in DOMAIN Top.held : r < Top.pending[l].saved
  <2>1. \A l \in 1 .. Level - 1 : l \in 1 .. Level /\ l < Level
    BY <1>2
  <2> QED
    BY <1>2, <2>1, TopRegisters DEF CallsCover
<1>7. Top'.fn = Top.fn /\ Top'.sp = Top.sp
  BY <1>1 DEF SameStack
<1> HIDE DEF n, result
<1>8. CallsCover(Top')
  <2>1. \A r \in DOMAIN Top'.held : r < Top'.next
    BY <1>1, <1>2, <1>3
  <2>2. ASSUME NEW l \in 1 .. Level - 1, NEW r \in DOMAIN Top'.held
        PROVE  r < Top'.pending[l].saved
    <3>1. Level > 1
      BY <1>2
    <3> QED
      BY <1>1, <1>6, <3>1
  <2> QED
    BY <1>1, <1>6, <1>7, <2>1, <2>2 DEF CallsCover
<1>9. SavedIn(mem', Top')
  <2> SUFFICES ASSUME Top'.pending # <<>>, NEW r \in DOMAIN Top'.held
               PROVE  At(mem, SavePlace(Top, r)) = Top'.held[r]
    BY <1>1, <1>7 DEF SavedIn, SavePlace
  <2>1. Level > 1
    <3>1. Top'.pending \in Seq(Calling)
      <4>1. (Top \in Frame)'
        BY <1>1, TopFacts, PTL DEF SameStack
      <4> QED
        BY <4>1 DEF Frame
    <3> QED
      BY <1>1, <1>2, <3>1
  <2> QED
    BY <1>1, <1>4, <2>1, TopRegisters
<1>10. ResultStored'
  <2>1. Level' = Level - 1
    BY <1>1 DEF Level
  <2>2. InCall' => Level' \in 1 .. Level - 1
    BY <1>2, <2>1 DEF InCall
  <2> QED
    BY <1>1, <1>6, <2>1, <2>2 DEF ResultStored, ThisCall
<1>11. \A r \in DOMAIN Top'.held : regs'[Top'.fn][r] = Top'.held[r]
  <2>1. \A r \in DOMAIN Top.held : regs'[Top.fn][r] = Top.held[r] /\ r # n + 1
    BY <1>1, <1>2, <1>3, <1>4
  <2>2. regs'[Top.fn][n + 1] = result
    BY <1>1, <1>2, <1>5
  <2>3. CASE Level > 1
    BY <1>1, <1>7, <2>1, <2>3
  <2>4. CASE ~(Level > 1)
    BY <1>1, <1>7, <2>1, <2>2, <2>4
  <2> QED
    BY <2>3, <2>4
<1> QED
  BY <1>1, <1>8, <1>9, <1>10, <1>11, SameStackRegisters DEF RegistersHold

LEMMA InitRInv ==
    ASSUME Init
    PROVE  RInv
<1>1. /\ Depth = 1 /\ Top = frames[1] /\ frames[1].pending = <<>> /\ frames[1].held = <<>>
  BY DEF Init, Depth, Top, NewFrame
<1>2. ~InCall
  BY <1>1 DEF InCall, Level
<1> QED
  BY <1>1, <1>2 DEF RInv, CallsCover, SavedIn, Reserved, ResultStored, RegistersHold

LEMMA StutterRegisters ==
    ASSUME RInv, UNCHANGED vars
    PROVE  RInv'
  BY DEF vars, RInv, CallsCover, SavedIn, SavePlace, Reserved, ResultStored, RegistersHold, Building,
         InCall, Level, ThisCall, Depth, Top

LEMMA NextRInv ==
    ASSUME FramesFit, IInv, RInv, [Next]_vars
    PROVE  RInv'
<1>1. ASSUME NEW n \in 0 .. MaxRegs + 2, StoreParam(n) PROVE RInv'
  BY <1>1, StoreParamRegisters
<1> QED
  BY <1>1, ComputeRegisters, StatementRegisters, AssignLocalRegisters, BeginCallRegisters,
     JumpRegisters, ReturnRegisters, RestoreRegisters, StutterRegisters DEF Next

\* The comment of call_sequence, "saves and restores the registers", for every
\* call graph in which no function has fewer words of locals than one that
\* calls it, nor more than four times as many: recursion, mutual recursion and
\* calls among the arguments of calls included.
THEOREM RegistersSurviveCalls ==
    ASSUME FramesFit
    PROVE  Spec => []RegistersHold
<1>1. Init => IInv /\ RInv
  BY InitIInv, InitRInv
<1>2. IInv /\ RInv /\ [Next]_vars => (IInv /\ RInv)'
  BY NextIInv, NextRInv
<1>3. IInv /\ RInv => RegistersHold
  BY DEF RInv
<1> QED
  BY <1>1, <1>2, <1>3, PTL DEF Spec

----------------------------------------------------------------------------
(* The arguments. *)

\* Without calls among the arguments a frame waits for one call at most.  What
\* it stored for the call it builds is where the callee looks for it, and a
\* parameter its function has not assigned is still the argument.
AInv ==
    /\ \A d \in 1 .. Depth : Len(frames[d].pending) <= 1
    /\ \A d \in 2 .. Depth : \A i \in 0 .. Params[frames[d].fn] - 1 :
          i \notin frames[d].assigned =>
              At(mem, LocalAddress(frames[d], i)) = Datum("param", d - 1, 1, i)
    /\ (InCall /\ ~ThisCall.returned) =>
          \A i \in 0 .. ThisCall.args - 1 :
              At(mem, rsp + RA_SIZE + i) = Datum("param", Depth, 1, i)

\* A parameter is a local of its frame, below the next one.
LEMMA ParameterPlace ==
    ASSUME IInv, NEW d \in 2 .. Depth, NEW i \in 0 .. Params[frames[d].fn] - 1
    PROVE  /\ d \in 1 .. Depth /\ d > 1 /\ i \in 0 .. Words[frames[d].fn] - 1
           /\ LocalAddress(frames[d], i) \in Nat /\ LocalAddress(frames[d], i) < frames[d].sp
           /\ LocalAddress(frames[d], i) < rsp
           /\ d < Depth => LocalAddress(frames[d], i) < rarp
<1>1. d \in 1 .. Depth /\ d > 1 /\ Depth \in Nat /\ Depth \in 1 .. Depth
      /\ rsp = frames[Depth].sp /\ rarp = frames[Depth].base
  BY TopFacts DEF IInv, Linked
<1>2. i \in 0 .. Words[frames[d].fn] - 1
  BY <1>1, FrameFacts DEF IInv
<1>3. LocalAddress(frames[d], i) \in Nat /\ LocalAddress(frames[d], i) < frames[d].sp
  BY <1>1, <1>2, LocalPlace DEF IInv
<1>4. frames[d].sp <= rsp /\ (d < Depth => frames[d].sp <= rarp)
  BY <1>1, SpBelow DEF IInv
<1>5. frames[d].sp \in Nat /\ rsp \in Nat /\ rarp \in Nat
  BY <1>1, FrameFacts DEF IInv
<1> QED
  BY <1>1, <1>2, <1>3, <1>4, <1>5

\* A step of the running function writes nothing below the header of the next
\* frame but the locals it assigns.
LEMMA SameStackArguments ==
    ASSUME IInv, AInv, SameStack, Len(Top'.pending) <= 1, Top.assigned \subseteq Top'.assigned,
           \A a \in Nat : (a < rsp /\ \A i \in Top'.assigned : a # LocalAddress(Top, i)) =>
                             At(mem', a) = At(mem, a),
           (InCall' /\ ~ThisCall'.returned) =>
              \A i \in 0 .. ThisCall'.args - 1 :
                  At(mem', rsp + RA_SIZE + i) = Datum("param", Depth, 1, i)
    PROVE  AInv'
<1>1. /\ Depth \in Nat /\ Depth \in 1 .. Depth /\ Top = frames[Depth] /\ Top' = frames'[Depth]
      /\ Depth' = Depth /\ rsp' = rsp /\ rarp = Top.base
  BY TopFacts DEF IInv, SameStack, Top, Linked
<1>2. \A d \in 1 .. Depth : Len(frames'[d].pending) <= 1
  <2>1. ASSUME NEW d \in 1 .. Depth, d # Depth PROVE Len(frames'[d].pending) <= 1
    <3>1. d \in 1 .. Depth - 1
      BY <1>1, <2>1
    <3> QED
      BY <3>1 DEF SameStack, AInv
  <2> QED
    BY <1>1, <2>1
<1>3. ASSUME NEW d \in 2 .. Depth, NEW i \in 0 .. Params[frames'[d].fn] - 1,
             i \notin frames'[d].assigned
      PROVE  At(mem', LocalAddress(frames'[d], i)) = Datum("param", d - 1, 1, i)
  <2>1. /\ frames'[d].fn = frames[d].fn /\ frames'[d].base = frames[d].base
        /\ d = Depth \/ (d < Depth /\ frames'[d] = frames[d])
    <3>1. d = Depth \/ d \in 1 .. Depth - 1
      BY <1>1
    <3> QED
      BY <1>1, <3>1 DEF SameStack
  <2>2. LocalAddress(frames'[d], i) = LocalAddress(frames[d], i)
    BY <2>1 DEF LocalAddress
  <2>3. i \in 0 .. Params[frames[d].fn] - 1
    BY <2>1
  <2>4. i \notin frames[d].assigned
    BY <1>1, <1>3, <2>1
  <2>5. At(mem, LocalAddress(frames[d], i)) = Datum("param", d - 1, 1, i)
    BY <2>3, <2>4 DEF AInv
  <2>6. ASSUME NEW j \in Top'.assigned PROVE LocalAddress(frames[d], i) # LocalAddress(Top, j)
    <3>1. j \in 0 .. Words[Top.fn] - 1
      <4>1. frames'[Depth].assigned \subseteq 0 .. Words[frames'[Depth].fn] - 1
        BY <1>1 DEF SameStack, Typed
      <4> QED
        BY <1>1, <4>1 DEF SameStack
    <3>2. CASE d = Depth
      <4>1. i # j
        BY <1>1, <1>3, <3>2
      <4> QED
        BY <1>1, <2>3, <3>1, <3>2, <4>1, ParameterPlace, LocalPlace DEF IInv
    <3>3. CASE d < Depth
      <4>1. LocalAddress(Top, j) = Top.base + RA_SIZE + j /\ Depth > 1
        BY <1>1, <3>1, <3>3, LocalPlace DEF IInv
      <4>2. LocalAddress(frames[d], i) < rarp /\ LocalAddress(frames[d], i) \in Nat
        BY <2>3, <3>3, ParameterPlace
      <4>3. Top.base \in Nat /\ j \in Nat
        BY <1>1, <3>1, FrameFacts DEF IInv
      <4> QED
        BY <1>1, <4>1, <4>2, <4>3 DEF RA_SIZE
    <3> QED
      BY <2>1, <3>2, <3>3
  <2>7. LocalAddress(frames[d], i) \in Nat /\ LocalAddress(frames[d], i) < rsp
    BY <2>3, ParameterPlace
  <2> QED
    BY <2>2, <2>5, <2>6, <2>7
<1> QED
  BY <1>1, <1>2, <1>3 DEF AInv

LEMMA TopArguments ==
    ASSUME IInv, AInv
    PROVE  Level \in {0, 1} /\ (InCall <=> Level = 1)
<1>1. Depth \in 1 .. Depth /\ Top = frames[Depth] /\ Level = Len(Top.pending) /\ Level \in Nat
  BY TopFacts DEF IInv
<1>2. Level <= 1
  BY <1>1 DEF AInv
<1>3. \A k \in Nat : k <= 1 => k = 0 \/ k = 1
  OBVIOUS
<1>4. Level = 0 \/ Level = 1
  BY <1>1, <1>2, <1>3
<1> QED
  BY <1>4 DEF InCall

LEMMA ComputeArguments ==
    ASSUME IInv, AInv, Compute
    PROVE  AInv'
<1>1. SameStack /\ mem' = mem /\ Top'.assigned = Top.assigned /\ Top'.pending = <<>>
  BY ComputeStack
<1>2. ~InCall'
  BY <1>1 DEF InCall, Level
<1> QED
  BY <1>1, <1>2, SameStackArguments

LEMMA StatementArguments ==
    ASSUME IInv, AInv, NEW n \in 0 .. MaxStart, Statement(n)
    PROVE  AInv'
<1>1. SameStack /\ mem' = mem /\ Top'.assigned = Top.assigned /\ Top'.pending = <<>>
  BY StatementStack
<1>2. ~InCall'
  BY <1>1 DEF InCall, Level
<1> QED
  BY <1>1, <1>2, SameStackArguments

LEMMA AssignLocalArguments ==
    ASSUME IInv, AInv, NEW i \in 0 .. Words[Top.fn] - 1, NEW n \in 0 .. MaxStart, AssignLocal(i, n)
    PROVE  AInv'
<1>1. /\ SameStack /\ Top'.assigned = Top.assigned \cup {i} /\ Top'.pending = <<>>
      /\ \A a : a # LocalAddress(Top, i) => At(mem', a) = At(mem, a)
  BY AssignLocalStack
<1>2. ~InCall'
  BY <1>1 DEF InCall, Level
<1>3. i \in Top'.assigned
  BY <1>1
<1> QED
  BY <1>1, <1>2, <1>3, SameStackArguments

\* No argument is stored when a call begins, and no other call is built.
LEMMA BeginCallArguments ==
    ASSUME ~Nested, IInv, AInv, NEW g \in Funcs, NEW n \in 0 .. MaxRegs, BeginCall(g, n)
    PROVE  AInv'
<1>1. /\ SameStack /\ ~InCall /\ Top'.pending = Append(Top.pending, NewCall(g, n))
      /\ Top'.assigned = Top.assigned /\ NewCall(g, n) \in Calling
  BY BeginCallStack
<1>2. Top.pending = <<>>
  BY <1>1, TopFacts DEF IInv
<1>3. Top'.pending = <<NewCall(g, n)>>
  BY <1>1, <1>2
<1>4. ThisCall'.args = 0
  BY <1>3 DEF ThisCall, Level, NewCall
<1>5. \A a \in Nat : a < rsp => At(mem', a) = At(mem, a)
  <2>1. rsp \in Nat
    BY DEF IInv, Typed
  <2> QED
    BY <2>1, BeginCallStores DEF IInv
<1> QED
  BY <1>1, <1>3, <1>4, <1>5, SameStackArguments

\* Each argument goes to a word of its own.
LEMMA StoreParamArguments ==
    ASSUME IInv, AInv, NEW n \in 0 .. MaxRegs + 2, StoreParam(n)
    PROVE  AInv'
<1>1. /\ SameStack /\ InCall /\ Building /\ Top'.assigned = Top.assigned
      /\ Len(Top'.pending) = Level
      /\ Top'.pending[Level].args = ThisCall.args + 1
      /\ \A a : At(mem', a) = IF a = rsp + RA_SIZE + ThisCall.args
                              THEN Datum("param", Depth, Level, ThisCall.args) ELSE At(mem, a)
  BY StoreParamFacts
<1>2. Level = 1 /\ ThisCall.args \in Nat /\ rsp \in Nat
  BY <1>1, TopArguments, TopFacts DEF IInv, Typed, Calling
<1>3. ThisCall'.args = ThisCall.args + 1
  BY <1>1 DEF ThisCall, Level
<1>4. \A i \in 0 .. ThisCall.args - 1 : At(mem, rsp + RA_SIZE + i) = Datum("param", Depth, 1, i)
  BY <1>1 DEF AInv, Building
<1>5. \A i \in 0 .. (ThisCall.args + 1) - 1 : At(mem', rsp + RA_SIZE + i) = Datum("param", Depth, 1, i)
  <2> SUFFICES ASSUME NEW i \in 0 .. (ThisCall.args + 1) - 1
               PROVE  At(mem', rsp + RA_SIZE + i) = Datum("param", Depth, 1, i)
    OBVIOUS
  <2>1. CASE i = ThisCall.args
    BY <1>1, <1>2, <2>1
  <2>2. CASE i # ThisCall.args
    <3>1. i \in 0 .. ThisCall.args - 1 /\ rsp + RA_SIZE + i # rsp + RA_SIZE + ThisCall.args
      BY <1>2, <2>2 DEF RA_SIZE
    <3> QED
      BY <1>1, <1>4, <3>1
  <2> QED
    BY <2>1, <2>2
<1>6. \A a \in Nat : a < rsp => At(mem', a) = At(mem, a)
  BY <1>1, <1>2 DEF RA_SIZE
<1> QED
  BY <1>1, <1>2, <1>3, <1>5, <1>6, SameStackArguments

\* The locals of the callee begin with the words of its arguments.
LEMMA JumpArguments ==
    ASSUME IInv, AInv, Jump
    PROVE  AInv'
<1>1. /\ InCall /\ Building /\ ThisCall.args = Params[ThisCall.callee] /\ ThisCall \in Calling
      /\ Depth' = Depth + 1 /\ \A d \in 1 .. Depth : frames'[d] = frames[d]
      /\ frames'[Depth + 1] = NewFrame(ThisCall.callee, rsp, rsp')
      /\ \A a : a # rsp => At(mem', a) = At(mem, a)
  BY JumpFacts
<1>2. Depth \in Nat /\ rsp \in Nat /\ Params[ThisCall.callee] \in Nat /\ ThisCall.callee # Main
  BY <1>1, TopFacts, FramesAssumption DEF IInv, Typed, Calling
<1>3. /\ frames'[Depth + 1].fn = ThisCall.callee /\ frames'[Depth + 1].base = rsp
      /\ frames'[Depth + 1].pending = <<>>
  BY <1>1 DEF NewFrame
<1>4. \A d \in 1 .. Depth' : Len(frames'[d].pending) <= 1
  <2>1. \A d \in 1 .. Depth' : d = Depth + 1 \/ d \in 1 .. Depth
    BY <1>1, <1>2
  <2> QED
    BY <1>1, <1>3, <2>1 DEF AInv
<1>5. ASSUME NEW d \in 2 .. Depth', NEW i \in 0 .. Params[frames'[d].fn] - 1,
             i \notin frames'[d].assigned
      PROVE  At(mem', LocalAddress(frames'[d], i)) = Datum("param", d - 1, 1, i)
  <2>1. CASE d = Depth + 1
    <3>1. LocalAddress(frames'[d], i) = rsp + RA_SIZE + i
      <4>1. LocalAddress(frames'[d], i) = rsp + i + RA_SIZE
        BY <1>2, <1>3, <2>1 DEF LocalAddress
      <4> QED
        BY <1>2, <1>3, <2>1, <4>1 DEF RA_SIZE
    <3>2. i \in 0 .. ThisCall.args - 1 /\ i \in Nat
      BY <1>1, <1>2, <1>3, <2>1
    <3>3. At(mem, rsp + RA_SIZE + i) = Datum("param", Depth, 1, i)
      BY <1>1, <3>2 DEF AInv, Building
    <3>4. rsp + RA_SIZE + i # rsp /\ d - 1 = Depth
      BY <1>2, <2>1, <3>2 DEF RA_SIZE
    <3> QED
      BY <1>1, <3>1, <3>3, <3>4
  <2>2. CASE d # Depth + 1
    <3>1. d \in 2 .. Depth /\ d \in 1 .. Depth
      BY <1>1, <1>2, <2>2
    <3>2. frames'[d] = frames[d] /\ i \in 0 .. Params[frames[d].fn] - 1
      BY <1>1, <3>1
    <3>3. LocalAddress(frames[d], i) # rsp
      BY <1>2, <3>1, <3>2, ParameterPlace
    <3> QED
      BY <1>1, <1>5, <3>1, <3>2, <3>3 DEF AInv
  <2> QED
    BY <2>1, <2>2
<1>6. ~InCall'
  BY <1>1, <1>3 DEF InCall, Level, Top
<1> QED
  BY <1>4, <1>5, <1>6 DEF AInv

LEMMA ReturnArguments ==
    ASSUME IInv, AInv, Return
    PROVE  AInv'
<1>1. /\ Depth > 1 /\ Depth' = Depth - 1 /\ \A d \in 1 .. Depth - 2 : frames'[d] = frames[d]
      /\ Top' = frames'[Depth - 1]
      /\ Top'.fn = frames[Depth - 1].fn /\ Top'.base = frames[Depth - 1].base
      /\ Top'.assigned = frames[Depth - 1].assigned
      /\ Len(Top'.pending) = Len(frames[Depth - 1].pending)
      /\ Top'.pending[Len(Top'.pending)].returned
      /\ \A a : a # rarp + 3 => At(mem', a) = At(mem, a)
  BY ReturnFacts
<1>2. Depth \in Nat /\ rarp \in Nat
  BY TopFacts DEF IInv, Typed
<1>3. ASSUME NEW d \in 1 .. Depth'
      PROVE  /\ frames'[d].fn = frames[d].fn /\ frames'[d].base = frames[d].base
             /\ frames'[d].assigned = frames[d].assigned
             /\ Len(frames'[d].pending) = Len(frames[d].pending)
  <2>1. d = Depth - 1 \/ d \in 1 .. Depth - 2
    BY <1>1, <1>2
  <2> QED
    BY <1>1, <2>1
<1>4. \A d \in 1 .. Depth' : Len(frames'[d].pending) <= 1
  <2>1. \A d \in 1 .. Depth' : d \in 1 .. Depth
    BY <1>1, <1>2
  <2> QED
    BY <1>3, <2>1 DEF AInv
<1>5. ASSUME NEW d \in 2 .. Depth', NEW i \in 0 .. Params[frames'[d].fn] - 1,
             i \notin frames'[d].assigned
      PROVE  At(mem', LocalAddress(frames'[d], i)) = Datum("param", d - 1, 1, i)
  <2>1. d \in 2 .. Depth /\ d < Depth /\ d \in 1 .. Depth'
    BY <1>1, <1>2
  <2>2. /\ LocalAddress(frames'[d], i) = LocalAddress(frames[d], i)
        /\ i \in 0 .. Params[frames[d].fn] - 1 /\ i \notin frames[d].assigned
    BY <1>3, <1>5, <2>1 DEF LocalAddress
  <2>3. LocalAddress(frames[d], i) # rarp + 3
    <3>1. LocalAddress(frames[d], i) < rarp /\ LocalAddress(frames[d], i) \in Nat
      BY <2>1, <2>2, ParameterPlace
    <3> QED
      BY <1>2, <3>1
  <2> QED
    BY <1>1, <2>1, <2>2, <2>3 DEF AInv
<1>6. ThisCall'.returned
  BY <1>1 DEF ThisCall, Level
<1> QED
  BY <1>4, <1>5, <1>6 DEF AInv

LEMMA RestoreArguments ==
    ASSUME IInv, AInv, Restore
    PROVE  AInv'
<1>1. /\ SameStack /\ InCall /\ mem' = mem /\ Top'.assigned = Top.assigned
      /\ Len(Top'.pending) = Level - 1
  BY RestoreFacts
<1>2. Level = 1
  BY <1>1, TopArguments
<1>3. ~InCall'
  BY <1>1, <1>2 DEF InCall, Level
<1> QED
  BY <1>1, <1>2, <1>3, SameStackArguments

LEMMA NextAInv ==
    ASSUME ~Nested, IInv, AInv, [Next]_vars
    PROVE  AInv'
<1>1. ASSUME NEW n \in 0 .. MaxRegs + 2, StoreParam(n) PROVE AInv'
  BY <1>1, StoreParamArguments
<1>2. CASE UNCHANGED vars
  BY <1>2 DEF vars, AInv, InCall, Level, ThisCall, Depth, Top, LocalAddress
<1> QED
  BY <1>1, <1>2, ComputeArguments, StatementArguments, AssignLocalArguments, BeginCallArguments,
     JumpArguments, ReturnArguments, RestoreArguments DEF Next

\* The comment of call_sequence on its stack of parameters, for every call
\* graph, recursion included: as long as no argument is itself a call, what a
\* function finds in a parameter it has not assigned is the argument of its own
\* call.
THEOREM ArgumentsReachParameters ==
    ASSUME ~Nested
    PROVE  Spec => []ArgumentsArrive
<1>1. Init => IInv /\ AInv
  <2>1. ASSUME Init PROVE AInv
    BY <2>1 DEF Init, AInv, InCall, Level, Depth, Top, NewFrame
  <2> QED
    BY <2>1, InitIInv
<1>2. IInv /\ AInv /\ [Next]_vars => (IInv /\ AInv)'
  BY NextIInv, NextAInv
<1>3. IInv /\ AInv => ArgumentsArrive
  <2> SUFFICES ASSUME IInv, AInv, NEW d \in 2 .. Depth, NEW i \in 0 .. Params[frames[d].fn] - 1,
                      i \notin frames[d].assigned
               PROVE  Load(LocalAddress(frames[d], i))
                        = Datum("param", d - 1, Len(frames[d - 1].pending), i)
    BY DEF ArgumentsArrive
  <2>1. d - 1 \in 1 .. Depth
    BY TopFacts DEF IInv
  <2>2. Len(frames[d - 1].pending) = 1
    <3>1. frames[d - 1].pending # <<>> /\ Len(frames[d - 1].pending) <= 1
      BY <2>1 DEF IInv, Waiting, AInv
    <3>2. frames[d - 1].pending \in Seq(Calling)
      BY <2>1, FrameFacts DEF IInv
    <3>3. Len(frames[d - 1].pending) \in Nat /\ Len(frames[d - 1].pending) # 0
      BY <3>1, <3>2
    <3>4. \A k \in Nat : k <= 1 => k = 0 \/ k = 1
      OBVIOUS
    <3> QED
      BY <3>1, <3>3, <3>4
  <2> QED
    BY <2>2, LoadIsAt DEF AInv
<1> QED
  BY <1>1, <1>2, <1>3, PTL DEF Spec
=============================================================================
